------------------------------- MODULE Leb128 -------------------------------
(***************************************************************************)
(* The variable-length integers of the wasm module: emit_u32 and emit_s32  *)
(* of wasm.c, one step per iteration of their loops.  Group is 2^7 in the  *)
(* code, an integer has ByteBits * 4 bits.                                 *)
(***************************************************************************)
EXTENDS Words, Sequences

CONSTANT GroupBits  \* payload bits of an encoded byte, 7

ASSUME GroupBitsAssumption == GroupBits \in Nat \ {0}

Group == 2^GroupBits
SignBit == 2^(GroupBits - 1)   \* 0x40
Continuation == Group          \* 0x80

VARIABLES
  signed, \* emit_s32 or emit_u32
  value,  \* history: the argument
  v,      \* what is left of it
  out,    \* the bytes emitted
  more    \* the loop goes on

lebVars == <<signed, value, v, out, more>>

LebInit ==
  /\ signed \in BOOLEAN
  /\ value \in IF signed THEN Word ELSE 0 .. WordMod - 1
  /\ v = value
  /\ out = <<>>
  /\ more = TRUE

Low == v % Group         \* v & 0x7f
Shifted == v \div Group     \* v >>= 7, arithmetic for an int32_t

EmitU32 ==
  /\ more /\ ~ signed
  /\ v' = Shifted
  /\ more' = (v' # 0)
  /\ out' = Append(out, IF more' THEN Low + Continuation ELSE Low)
  /\ UNCHANGED <<signed, value>>

\* The sign bit of the last group is not looked at.
BugSignFits == Shifted \in {0, -1}

\* The loop looks at v before it is shifted.
BugSignFitsLate == v \in {0, -1}

\* The sign of the rest can be told from the sign bit of this group.
SignFits ==
  \/ Shifted = 0 /\ Low < SignBit
  \/ Shifted = -1 /\ Low >= SignBit

EmitS32 ==
  /\ more /\ signed
  /\ v' = Shifted
  /\ more' = ~ SignFits
  /\ out' = Append(out, IF more' THEN Low + Continuation ELSE Low)
  /\ UNCHANGED <<signed, value>>

LebNext == EmitU32 \/ EmitS32

-----------------------------------------------------------------------------
(* The decoder of the wasm specification, the reference.                   *)

Payload(b) == b % Group

DecodeUnsigned(s) ==
  LET d[k \in 0 .. Len(s)] ==
        IF k = 0 THEN 0 ELSE d[k - 1] + Payload(s[k]) * Group^(k - 1)
  IN  d[Len(s)]

DecodeSigned(s) ==
  LET u == DecodeUnsigned(s)
  IN  IF Payload(s[Len(s)]) >= SignBit THEN u - Group^Len(s) ELSE u

Decode(s) == IF signed THEN DecodeSigned(s) ELSE DecodeUnsigned(s)

MaxBytes == (WordBits + GroupBits - 1) \div GroupBits

\* No number is written in more bytes than it needs.
Shortest ==
  ~ more => \A n \in 1 .. Len(out) - 1 :
    LET bits == n * GroupBits
    IN  IF signed THEN value \notin -2^(bits - 1) .. 2^(bits - 1) - 1
                  ELSE value \notin 0 .. 2^bits - 1

(***************************************************************************)
(* The engine reads back the number that was emitted, and finds its end:   *)
(* only the last byte lacks the continuation bit.  There are no more bytes *)
(* than the number needs, so never more than the ceil(32 / 7) that a wasm  *)
(* engine accepts.                                                         *)
(***************************************************************************)
RoundTrip ==
  /\ Len(out) <= MaxBytes /\ Shortest
  /\ ~ more =>
    /\ Decode(out) = value
    /\ \A k \in 1 .. Len(out) : out[k] >= Continuation <=> k < Len(out)
=============================================================================
