------------------------------- MODULE Hosts --------------------------------
(***************************************************************************)
(* The five system calls of the example, by the three hosts that answer    *)
(* them: main.c for the interpreter, run.js for node and example/host.c    *)
(* for wasm3.  make test and make test-example run one program on all of   *)
(* them and compare what it prints, so here they get the same calls, one   *)
(* after the other, on memories that begin alike.                          *)
(*                                                                         *)
(* Words have four bytes of ByteBits bits; a size_t and an intptr_t are    *)
(* twice as wide.  Com_Error ends the native host: status "error".         *)
(* "undefined" is a call of the C library it does not define.              *)
(***************************************************************************)
EXTENDS Words, Sequences

CONSTANTS
  MemSize,    \* vm->dataMask + 1, bytes of the wasm memory
  Memories,   \* contents at the start
  Calls,      \* argument vectors: number of the call and three arguments
  MaxCalls    \* bound of the model: system calls of a run

\* VM_LoadQVM and wasm.c round an image and its bss up to at most 2^24 bytes.
ASSUME MemoriesAssumption ==
  /\ MemSize \in Nat \ {0} /\ MemSize < HalfMod
  /\ Memories \subseteq [0 .. MemSize - 1 -> Byte]
  /\ Calls \subseteq [0 .. 3 -> Word]
  /\ MaxCalls \in Nat

VARIABLES
  image,   \* vm->dataBase: four bytes more than the mask admits
  node,    \* memory of the instance under node
  wasm3,   \* memory of the instance under wasm3
  native,  \* what has become of the native host
  last,    \* history: the call made last, and the three outcomes
  count    \* history: calls made

vars == <<image, node, wasm3, native, last, count>>

-----------------------------------------------------------------------------
(* What the hosts have in common.                                          *)

Id(args) == -1 - args[0]
PrintInt    == -1
PrintString == -2
MemSet      == -3
MemCpy      == -4
Error       == -5

\* What became of the host, the value returned, what it printed, its memory.
Outcome(status, reply, out, m) == [status |-> status, reply |-> reply, out |-> out, mem |-> m]

\* memset and, for any two ranges, memmove.
Filled(m, a, c, n) == [b \in DOMAIN m |-> IF b \in a .. a + n - 1 THEN c % ByteMod ELSE m[b]]
Moved(m, dest, src, n) == Copied(m, dest, src, n)

\* The bytes from a up to the first zero or the end of the memory.
Text(m, a) ==
  LET end == Min({b \in DOMAIN m : b >= a /\ m[b] = 0} \cup {Cardinality(DOMAIN m)})
  IN  [k \in 1 .. end - a |-> m[a + k - 1]]

-----------------------------------------------------------------------------
(* main.c.                                                                 *)

\* The remainders of sums of an unsigned int and a size_t.
SizeMod == WordMod * WordMod

\* What the mask leaves of an end of the range is compared with the end.
BugInMask(x) == x < MemSize - 1
InMask(x)    == x < MemSize

\* VM_MemoryRangeValid: Com_Error where the range is "bad".
RangeValid(a, len) ==
  IF a = 0 THEN "null"
  ELSE IF InMask(Unsigned(a)) /\ InMask((Unsigned(a) + len) % SizeMod) THEN "valid" ELSE "bad"

VMA(a) == a % MemSize

\* The pointer of a null address is NULL; a string may end behind the mask.
Printable(m, a) == a # 0 /\ \E b \in DOMAIN m : b >= VMA(a) /\ m[b] = 0

\* The length of a number in print.
Digits(x) == (IF x < 0 THEN 1 ELSE 0) + Min({k \in 1 .. WordBits : 10^k > Magnitude(x)})

\* The C library takes the length as a size_t.
CDefined(n) == n >= 0
Overlap(a, b, n) == a # b /\ (a .. a + n - 1) \cap (b .. b + n - 1) # {}

NativePrints(args, m) ==
  IF Printable(m, args[1])
  THEN LET t == Text(m, VMA(args[1])) IN Outcome("ok", Len(t), t, m)
  ELSE Outcome("undefined", 0, <<>>, m)

NativeSets(args, m) ==
  CASE RangeValid(args[1], args[3]) = "bad"  -> Outcome("error", 0, <<>>, m)
    [] RangeValid(args[1], args[3]) = "null" -> Outcome("ok", args[1], <<>>, m)
    [] RangeValid(args[1], args[3]) = "valid" /\ ~ CDefined(args[3]) -> Outcome("undefined", 0, <<>>, m)
    [] OTHER -> Outcome("ok", args[1], <<>>, Filled(m, VMA(args[1]), args[2], args[3]))

\* The second range is checked only if the first is valid.
NativeCopies(args, m) ==
  LET dest == RangeValid(args[1], args[3])
      src  == RangeValid(args[2], args[3])
  IN  CASE dest = "bad" \/ (dest = "valid" /\ src = "bad") -> Outcome("error", 0, <<>>, m)
        [] dest = "null" \/ (dest = "valid" /\ src = "null") -> Outcome("ok", args[1], <<>>, m)
        [] OTHER ->
             IF ~ CDefined(args[3]) \/ Overlap(args[1], args[2], args[3])
             THEN Outcome("undefined", 0, <<>>, m)
             ELSE Outcome("ok", args[1], <<>>, Copied(m, VMA(args[1]), VMA(args[2]), args[3]))

Native(args, m) ==
  CASE Id(args) = PrintInt -> Outcome("ok", Digits(args[1]), <<args[1]>>, m)
    [] Id(args) \in {PrintString, Error} -> NativePrints(args, m)
    [] Id(args) = MemSet -> NativeSets(args, m)
    [] Id(args) = MemCpy -> NativeCopies(args, m)
    [] OTHER -> Outcome("ok", 0, <<Id(args)>>, m)

-----------------------------------------------------------------------------
(* run.js: numbers do not wrap; an address below zero counts from the end  *)
(* of the memory when the string is cut out, after its end was looked for. *)

BugNodeRange(a, len)   == a >= 0 /\ len >= 0 /\ a + len <= MemSize
NodeRangeValid(a, len) == a > 0 /\ len >= 0 /\ a + len <= MemSize

ReadString(m, a) ==
  LET end   == Min({b \in DOMAIN m : b >= a /\ m[b] = 0} \cup {Max({a, MemSize})})
      first == IF a < 0 THEN Max({MemSize + a, 0}) ELSE a
  IN  [k \in 1 .. end - first |-> m[first + k - 1]]

Node(args, m) ==
  LET a == args[1]
      Answer(reply, out, n) == Outcome("ok", reply, out, n)
  IN  CASE Id(args) = PrintInt -> Answer(0, <<a>>, m)
        [] Id(args) \in {PrintString, Error} -> Answer(0, ReadString(m, a), m)
        [] Id(args) = MemSet ->
             Answer(a, <<>>, IF NodeRangeValid(a, args[3]) THEN Filled(m, a, args[2], args[3]) ELSE m)
        [] Id(args) = MemCpy ->
             Answer(a, <<>>, IF NodeRangeValid(a, args[3]) /\ NodeRangeValid(args[2], args[3])
                             THEN Moved(m, a, args[2], args[3]) ELSE m)
        [] OTHER -> Answer(0, <<Id(args)>>, m)

-----------------------------------------------------------------------------
(* example/host.c: addresses and lengths are uint32_t.                     *)

BugWasm3Range(a, len) == a > 0 /\ Unsigned(a + len) <= MemSize
Wasm3RangeValid(a, len) ==
  a > 0 /\ Unsigned(a + len) >= a /\ Unsigned(a + len) <= MemSize

Wasm3(args, m) ==
  LET a1 == Unsigned(args[1])
      a2 == Unsigned(args[2])
      a3 == Unsigned(args[3])
      Answer(reply, out, n) == Outcome("ok", reply, out, n)
  IN  CASE Id(args) = PrintInt -> Answer(0, <<args[1]>>, m)
        [] Id(args) \in {PrintString, Error} ->
             Answer(0, IF a1 < MemSize THEN Text(m, a1) ELSE <<>>, m)
        [] Id(args) = MemSet ->
             Answer(args[1], <<>>, IF Wasm3RangeValid(a1, a3) THEN Filled(m, a1, args[2], a3) ELSE m)
        [] Id(args) = MemCpy ->
             Answer(args[1], <<>>, IF Wasm3RangeValid(a1, a3) /\ Wasm3RangeValid(a2, a3)
                                   THEN Moved(m, a1, a2, a3) ELSE m)
        [] OTHER -> Answer(0, <<Id(args)>>, m)

-----------------------------------------------------------------------------
Init ==
  /\ node \in Memories
  /\ wasm3 = node
  /\ image = [b \in 0 .. MemSize + 3 |-> IF b < MemSize THEN node[b] ELSE 0]
  /\ native = "ok"
  /\ last = <<>>
  /\ count = 0

\* The program makes the call in all three runs.
SystemCall(args) ==
  /\ native = "ok" /\ count < MaxCalls
  /\ LET n == Native(args, image)
         j == Node(args, node)
         w == Wasm3(args, wasm3)
     IN  /\ image' = n.mem /\ node' = j.mem /\ wasm3' = w.mem
         /\ native' = n.status
         /\ last' = <<args, n, j, w>>
  /\ count' = count + 1

\* The native run has ended; the others go on.
WasmSystemCall(args) ==
  /\ native # "ok" /\ count < MaxCalls
  /\ LET j == Node(args, node)
         w == Wasm3(args, wasm3)
     IN  /\ node' = j.mem /\ wasm3' = w.mem
         /\ last' = <<args, Outcome(native, 0, <<>>, image), j, w>>
  /\ count' = count + 1
  /\ UNCHANGED <<image, native>>

Next == \E args \in Calls : SystemCall(args) \/ WasmSystemCall(args)

Spec == Init /\ [][Next]_vars

-----------------------------------------------------------------------------
(***************************************************************************)
(* node and wasm3 give a module the same answers and the same memory,      *)
(* whatever address and length it passes, and print the same unless the    *)
(* address is negative: signed arithmetic that does not wrap and unsigned  *)
(* arithmetic that does draw the same line.                                *)
(***************************************************************************)
WasmHostsAgree ==
  /\ node = wasm3
  /\ last # <<>> => /\ last[3].reply = last[4].reply
                    /\ last[1][1] >= 0 => last[3].out = last[4].out

Inside(a) == a \in 1 .. MemSize - 1

(***************************************************************************)
(* As long as the native host lives, the memories of interpreter and wasm  *)
(* module stay equal, they print the same for every string inside the      *)
(* memory, and memset and memcpy answer alike.                             *)
(***************************************************************************)
NativeAgrees ==
  native = "ok" =>
    /\ \A b \in DOMAIN node : image[b] = node[b]
    /\ last # <<>> =>
         LET args == last[1]
         IN  /\ Id(args) \in {MemSet, MemCpy} => last[2].reply = last[3].reply
             /\ Id(args) \in {PrintString, Error} /\ Inside(args[1]) => last[2].out = last[3].out

\* A program cannot tell the three hosts apart, as far as they all go on.
HostsAgree == WasmHostsAgree /\ NativeAgrees

(***************************************************************************)
(* The native host ends with an error, or runs into what C leaves          *)
(* undefined, on no call that the two others carry out and that does not   *)
(* end at the last byte or overlap: ending a run is the only way it        *)
(* differs.                                                                *)
(***************************************************************************)
Proper(args) ==
  /\ NodeRangeValid(args[1], args[3]) /\ args[1] + args[3] < MemSize
  /\ Id(args) = MemCpy => /\ NodeRangeValid(args[2], args[3]) /\ args[2] + args[3] < MemSize
                          /\ ~ Overlap(args[1], args[2], args[3])
NativeServesProper ==
  [][native = "ok" /\ last'[2].status # "ok" /\ Id(last'[1]) \in {MemSet, MemCpy}
       => ~ Proper(last'[1])]_vars
=============================================================================
