----------------------------- MODULE CodeImage ------------------------------
(***************************************************************************)
(* The code segment of a program as the loader of vm.c leaves it: words    *)
(* that hold the number of an opcode or its operand, and for every         *)
(* instruction the index of its first word.  Nothing marks which of the    *)
(* two a word holds; that is how the interpreter sees it too.              *)
(***************************************************************************)
EXTENDS QvmIsa

\* The numbers of the opcodes, from 0 on.
OpcodeTable ==
  <<"UNDEF", "IGNORE", "BREAK", "ENTER", "LEAVE", "CALL", "PUSH", "POP",
    "CONST", "LOCAL", "JUMP", "EQ", "NE", "LTI", "LEI", "GTI", "GEI", "LTU",
    "LEU", "GTU", "GEU", "EQF", "NEF", "LTF", "LEF", "GTF", "GEF", "LOAD1",
    "LOAD2", "LOAD4", "STORE1", "STORE2", "STORE4", "ARG", "BLOCK_COPY",
    "SEX8", "SEX16", "NEGI", "ADD", "SUB", "DIVI", "DIVU", "MODI", "MODU",
    "MULI", "MULU", "BAND", "BOR", "BXOR", "BCOM", "LSH", "RSHI", "RSHU",
    "NEGF", "ADDF", "SUBF", "DIVF", "MULF", "CVIF", "CVFI">>

OP_MAX == Len(OpcodeTable)

OpcodeNumbered(n) == IF n \in 0 .. OP_MAX - 1 THEN OpcodeTable[n + 1] ELSE "BAD"
NumberOf(op) == CHOOSE n \in 0 .. OP_MAX - 1 : OpcodeTable[n + 1] = op

HasOperand == HasI4Operand \cup {"ARG"}
OperandWords(op) == IF op \in HasOperand THEN 1 ELSE 0
OperandBytes(op) == IF op \in HasI4Operand THEN 4 ELSE IF op = "ARG" THEN 1 ELSE 0

\* Words, and bytes, the first n instructions take.
WordsBefore(p) ==
  LET w[n \in 0 .. Len(p)] == IF n = 0 THEN 0 ELSE w[n - 1] + 1 + OperandWords(Op(p, n - 1))
  IN  w
BytesBefore(p) ==
  LET w[n \in 0 .. Len(p)] == IF n = 0 THEN 0 ELSE w[n - 1] + 1 + OperandBytes(Op(p, n - 1))
  IN  w

\* What is left of program p when it is loaded.  The operand of a branch is
\* the word index of its target.
Expanded(p) ==
  LET at == WordsBefore(p)
      Operand(i) == IF Op(p, i) \in CondBranch THEN at[Arg(p, i)] ELSE Arg(p, i)
      WordAt(w)  ==
        LET i == CHOOSE k \in Indices(p) : at[k] <= w /\ w < at[k + 1]
        IN  IF w = at[i] THEN NumberOf(Op(p, i)) ELSE Operand(i)
  IN  [image    |-> [w \in 0 .. at[Len(p)] - 1 |-> WordAt(w)],
       pointers |-> [i \in Indices(p) |-> at[i]],
       count    |-> Len(p),
       length   |-> BytesBefore(p)[Len(p)]]
=============================================================================
