------------------------------ MODULE QvmImage ------------------------------
(***************************************************************************)
(* A .qvm file: what its header says, and its bytes, header included.      *)
(* Both back ends read it, with the same checks on the header.  Byte       *)
(* order: the host is little-endian, as the file is.                       *)
(***************************************************************************)
EXTENDS CodeImage, Words, FiniteSets

CONSTANTS
  HeaderBytes,  \* sizeof(vmHeader_t)
  MaxImage,     \* VM_MAX_IMAGE_SIZE
  MaxBss        \* VM_MAX_BSS_LENGTH

\* 0x400000 and 10485760 in the code: a power of two an int can hold is above.
ASSUME ImageSizesAssumption ==
  /\ HeaderBytes \in Nat /\ MaxImage \in Nat /\ MaxBss \in Nat
  /\ MaxImage + MaxBss <= HalfMod

Header == [magic : BOOLEAN, instructionCount : Word, codeOffset : Word, codeLength : Word,
           dataOffset : Word, dataLength : Word, litLength : Word, bssLength : Word]

File == [header : Header, bytes : Seq(Byte)]

\* The sums are sums of ints.
HeaderOk(f) ==
  LET h == f.header
      length == Len(f.bytes)
  IN  /\ HeaderBytes < length /\ length <= MaxImage
      /\ h.magic
      /\ h.bssLength >= 0 /\ h.dataLength >= 0 /\ h.litLength >= 0
      /\ h.codeLength > 0 /\ h.codeOffset >= 0 /\ h.dataOffset >= 0
      /\ h.instructionCount > 0
      /\ h.bssLength <= MaxBss
      /\ Signed(h.codeOffset + h.codeLength) <= length
      /\ Signed(Signed(h.dataOffset + h.dataLength) + h.litLength) <= length

\* The least power of two that holds all data.
RoundedData(h) ==
  2^(CHOOSE k \in 0 .. WordBits :
       LET n == h.dataLength + h.litLength + h.bssLength
       IN  2^k >= n /\ \A j \in 0 .. k - 1 : 2^j < n)

\* Bytes of the file from the start of the code on, counted from 0, as a
\* memory; the code segment is not the end of it.
FromCode(f) ==
  [k \in 0 .. Len(f.bytes) - f.header.codeOffset - 1 |-> f.bytes[f.header.codeOffset + k + 1]]
=============================================================================
