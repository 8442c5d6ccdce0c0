----------------------------- MODULE MCLoading ------------------------------
(* Files of one or two encoded instructions and a header that counts one to  *)
(* three: opcodes with no, one and four bytes                                *)
(* of operand, branch targets up to two past the end, an opcode that does    *)
(* not exist, headers that promise too much or too little, and data behind   *)
(* the code or nothing.  Bytes have 6 bits, enough for the 60 opcodes.       *)
EXTENDS Loading

Bytes(x) == <<ByteOf(x, 0), ByteOf(x, 1), ByteOf(x, 2), ByteOf(x, 3)>>

MCEncodings ==
  {<<NumberOf("POP")>>, <<NumberOf("ARG"), 63>>, <<OP_MAX>>,
   <<NumberOf("CONST")>> \o Bytes(-2)}
  \cup {<<NumberOf("EQ")>> \o Bytes(t) : t \in {-1, 0, 1, 2, 3, 4}}

MCCodes ==
  MCEncodings \cup {a \o b : a, b \in MCEncodings}
MCHeader(code, n, len, lit) ==
  [magic |-> TRUE, instructionCount |-> n, codeOffset |-> HeaderBytes, codeLength |-> len,
   dataOffset |-> HeaderBytes + Len(code), dataLength |-> 0, litLength |-> lit, bssLength |-> 5]

MCFile(code, n, len, lit) ==
  [header |-> MCHeader(code, n, len, Len(lit)), bytes |-> [k \in 1 .. HeaderBytes |-> 0] \o code \o lit]

MCFiles ==
  {MCFile(c, n, Len(c) + d, l) : c \in MCCodes, n \in 1 .. 3, d \in -1 .. 0,
                                 l \in {<<>>, <<7, 7, 7, 7, 7>>, <<8, 7, 7, 7, 7>>}}
  \cup {[MCFile(c, 1, Len(c), <<1, 2, 3, 4, 5, 6>>) EXCEPT !.header.dataLength = 4, !.header.litLength = 1]
         : c \in MCEncodings}
  \cup {[MCFile(<<7>>, 1, 1, <<1, 2>>) EXCEPT !.header.magic = FALSE],
        [MCFile(<<7>>, 1, 1, <<1, 2>>) EXCEPT !.header.bssLength = MaxBss + 1],
        [MCFile(<<7>>, 1, 1, <<1, 2>>) EXCEPT !.header.litLength = 3],
        [MCFile(<<7>>, 1, 1, <<1, 2>>) EXCEPT !.header.instructionCount = 0]}
=============================================================================
