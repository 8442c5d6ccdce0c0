---------------------------- MODULE GuestString ----------------------------
(***************************************************************************)
(* The loops over strings and memory of the guest library                  *)
(* (example/bg_lib.c): strlen, strcpy, strcat, strcmp, strchr, strstr and  *)
(* memmove, one step per iteration, on a memory whose addresses are masked *)
(* as both back ends mask them.  A char is signed.                         *)
(***************************************************************************)
EXTENDS Integers, Sequences, SequencesExt, FiniteSetsExt

CONSTANTS
  Texts,   \* what the memory may hold
  Requests \* records [fn, dest, src, x]: a call, x the character or the count

VARIABLES
  request,  \* the call
  before,   \* history: the memory at the call
  mem,     \* the memory
  s, t,     \* where the loop writes or reads, and where it reads
  seeking,  \* strcat looks for the end of its destination
  answer    \* <<>>, then <<what the function returns>>

stringVars == <<request, before, mem, s, t, seeking, answer>>

-----------------------------------------------------------------------------
Size == Cardinality(DOMAIN before)
Null == 0

\* A masked access.
Char(p) == mem[p % Size]

\* The string at p of memory m.
StringEnd(m, p) == Min({e \in p .. Size - 1 : m[e] = 0})
IsString(m, p) == p \in 1 .. Size - 1 /\ \E e \in p .. Size - 1 : m[e] = 0
StringAt(m, p) == [k \in 1 .. StringEnd(m, p) - p |-> m[p + k - 1]]

Writes == {"strcpy", "strcat"}

\* The range strcpy and strcat write, and the one they read.
Written(r, m) ==
  LET first == IF r.fn = "strcat" THEN StringEnd(m, r.dest) ELSE r.dest
  IN  first .. first + Len(StringAt(m, r.src))
ReadFrom(r, m) == r.src .. StringEnd(m, r.src)

\* Calls of the library that C defines, and copies of a string to where it
\* overlaps only downwards.
Proper(r, m) ==
  /\ r.fn # "memmove" => IsString(m, r.src)
  /\ r.fn \in {"strcat", "strcmp", "strstr"} => IsString(m, r.dest)
  /\ r.fn \in Writes =>
       /\ Written(r, m) \subseteq 1 .. Size - 1
       /\ Written(r, m) \cap ReadFrom(r, m) = {} \/ Min(Written(r, m)) <= r.src
  /\ r.fn = "memmove" => {r.dest + r.x, r.src + r.x} \subseteq 0 .. Size

-----------------------------------------------------------------------------
\* memmove goes from the end if the destination is behind the source.
BugBackward == request.dest < request.src
Backward    == request.dest > request.src

StringInit ==
  /\ before \in Texts
  /\ mem = before
  /\ request \in {r \in Requests : Proper(r, before)}
  /\ CASE request.fn \in {"strlen", "strchr"} -> s = request.src /\ t = Null
       [] request.fn = "memmove" -> /\ s = IF Backward THEN request.x - 1 ELSE 0
                                    /\ t = Null
       [] OTHER -> s = request.dest /\ t = request.src
  /\ seeking = (request.fn = "strcat")
  /\ answer = <<>>

Runs(fns) == answer = <<>> /\ request.fn \in fns

Return(v) == answer' = <<v>> /\ UNCHANGED <<request, before, s, t, seeking>>

strlen ==
  /\ Runs({"strlen"})
  /\ IF Char(s) # 0 THEN s' = s + 1 /\ UNCHANGED <<request, before, t, seeking, answer>>
                    ELSE Return(s - request.src)
  /\ UNCHANGED mem

\* strcat: the first loop.
SeekEnd ==
  /\ Runs({"strcat"}) /\ seeking
  /\ IF Char(s) # 0 THEN s' = s + 1 /\ seeking' = TRUE ELSE s' = s /\ seeking' = FALSE
  /\ UNCHANGED <<request, before, mem, t, answer>>

CopyChar ==
  /\ Runs(Writes) /\ ~ seeking /\ Char(t) # 0
  /\ mem' = [mem EXCEPT ![s % Size] = Char(t)]
  /\ s' = s + 1 /\ t' = t + 1
  /\ UNCHANGED <<request, before, seeking, answer>>

CopyEnd ==
  /\ Runs(Writes) /\ ~ seeking /\ Char(t) = 0
  /\ mem' = [mem EXCEPT ![s % Size] = 0]
  /\ Return(request.dest)

strcmp ==
  /\ Runs({"strcmp"})
  /\ IF Char(s) = Char(t) /\ Char(s) # 0
     THEN s' = s + 1 /\ t' = t + 1 /\ UNCHANGED <<request, before, seeking, answer>>
     ELSE Return(Char(s) - Char(t))
  /\ UNCHANGED mem

strchr ==
  /\ Runs({"strchr"})
  /\ CASE Char(s) = 0         -> Return(Null)
       [] Char(s) = request.x -> Return(s)
       [] OTHER               -> s' = s + 1 /\ UNCHANGED <<request, before, t, seeking, answer>>
  /\ UNCHANGED mem

\* The inner loop: the set of characters is a string, and is found at p.
Matches(p) == \A k \in 0 .. Len(StringAt(mem, t)) - 1 : Char(p + k) = Char(t + k)

strstr ==
  /\ Runs({"strstr"})
  /\ CASE Char(s) = 0 -> Return(Null)
       [] Char(s) # 0 /\ Matches(s) -> Return(s)
       [] OTHER -> s' = s + 1 /\ UNCHANGED <<request, before, t, seeking, answer>>
  /\ UNCHANGED mem

memmove ==
  /\ Runs({"memmove"})
  /\ IF s \in 0 .. request.x - 1
     THEN /\ mem' = [mem EXCEPT ![(request.dest + s) % Size] = Char(request.src + s)]
          /\ s' = IF Backward THEN s - 1 ELSE s + 1
          /\ UNCHANGED <<request, before, t, seeking, answer>>
     ELSE Return(request.dest) /\ UNCHANGED mem

StringNext ==
  strlen \/ SeekEnd \/ CopyChar \/ CopyEnd \/ strcmp \/ strchr \/ strstr \/ memmove

-----------------------------------------------------------------------------
(* What the functions promise, of the memory at the call.                  *)

Source == StringAt(before, request.src)
Destination == StringAt(before, request.dest)

\* The places in the string at p that satisfy a condition; the first or Null.
FirstOf(places) == IF places = {} THEN Null ELSE Min(places)

\* The memory with a sequence of characters from p on.
Placed(p, chars) ==
  [b \in DOMAIN before |-> IF b - p + 1 \in DOMAIN chars THEN chars[b - p + 1] ELSE before[b]]

Promised ==
  CASE request.fn = "strlen" -> <<Len(Source), before>>
    [] request.fn = "strcpy" -> <<request.dest, Placed(request.dest, Source \o <<0>>)>>
    [] request.fn = "strcat" -> <<request.dest, Placed(request.dest, Destination \o Source \o <<0>>)>>
    [] request.fn = "strchr" ->
         <<FirstOf({request.src + k - 1 : k \in {j \in DOMAIN Source : Source[j] = request.x}}), before>>
    [] request.fn = "strstr" ->
         <<FirstOf({request.dest + k - 1 : k \in
             {j \in DOMAIN Destination : IsPrefix(Source, SubSeq(Destination, j, Len(Destination)))}}), before>>
    [] request.fn = "memmove" ->
         <<request.dest, Placed(request.dest, [k \in 1 .. request.x |-> before[request.src + k - 1]])>>

\* The order of strings: by the first character in which they differ, the end
\* of a string being the character zero.
Compared ==
  LET one == Destination \o <<0>>
      two == Source \o <<0>>
      at  == {k \in DOMAIN one \cap DOMAIN two : one[k] # two[k]}
  IN  IF at = {} THEN 0 ELSE one[Min(at)] - two[Min(at)]

(***************************************************************************)
(* Every call returns what it promises and changes no byte but those it    *)
(* promises to change: memmove for any overlap, strcpy and strcat for      *)
(* copies to lower addresses too, strings of bytes above 127 compare as    *)
(* signed.  Unlike C, strchr does not find the terminating zero and strstr *)
(* finds nothing in the empty string.                                      *)
(***************************************************************************)
StringsRight ==
  answer # <<>> =>
    IF request.fn = "strcmp" THEN answer[1] = Compared /\ mem = before
    ELSE <<answer[1], mem>> = Promised
=============================================================================
