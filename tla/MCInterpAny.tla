---------------------------- MODULE MCInterpAny -----------------------------
(* Programs nobody compiled: every pair of instructions of a pool behind a    *)
(* few beginnings, and a few longer ones that get to errors  *)
(* a short program does not reach.  The memory is smaller than the stack,   *)
(* which VM_LoadQVM lets pass.  And one that was compiled, whose recursion  *)
(* leaves more on the operand stack than it holds: opStackOfs wraps.        *)
EXTENDS Interp, TestPrograms

Pool ==
  { Ins("PUSH"), Ins("POP"), Ins("LOAD4"), Ins("STORE4"), Ins("STORE1"), Ins("ADD"),
    Ins("NEGF"), Ins("CALL"), Ins("JUMP"), Ins("BREAK"),
    InsA("CONST", 0), InsA("CONST", -1), InsA("LOCAL", 4), InsA("ARG", 8),
    InsA("BLOCK_COPY", 4), InsA("EQ", 4), InsA("LTF", 0), InsA("ENTER", 8),
    InsA("LEAVE", 8) }

Heads == {<<>>, <<InsA("CONST", 0)>>, <<InsA("LOCAL", 4), InsA("CONST", -1)>>}
Framed(h, b) == <<InsA("ENTER", 12)>> \o h \o b \o <<InsA("LEAVE", 12)>>

Longer ==
  { \* a target that is no instruction, a bad jump, a division by zero
    <<InsA("CONST", 99), Ins("CALL"), InsA("LEAVE", 12)>>,
    <<InsA("CONST", 99), Ins("JUMP"), InsA("LEAVE", 12)>>,
    <<InsA("CONST", 1), InsA("CONST", 0), Ins("DIVI"), InsA("LEAVE", 12)>>,
    <<InsA("CONST", 1), Ins("UNDEF"), InsA("LEAVE", 12)>>,
    \* the return address is overwritten and the function returns to it, to an
    \* operand taken for an opcode too
    <<InsA("LOCAL", 12), InsA("CONST", 100), Ins("STORE4"), InsA("LEAVE", 12)>>,
    <<InsA("LOCAL", 12), InsA("CONST", 9), Ins("STORE4"), InsA("LEAVE", 12)>>,
    <<InsA("LOCAL", 12), InsA("CONST", 8), Ins("STORE4"), InsA("LEAVE", 12)>>,
    <<InsA("LOCAL", 12), InsA("CONST", 1), Ins("STORE4"), InsA("LEAVE", 12)>>,
    \* frames that do not fit, and code that runs past its end
    <<InsA("ENTER", 120), InsA("LEAVE", 12)>>,
    <<InsA("ENTER", -20), InsA("CONST", 0), Ins("CALL")>>,
    <<InsA("ENTER", -20), InsA("CONST", -1), Ins("CALL")>>,
    <<InsA("ENTER", 108), InsA("CONST", 0), Ins("CALL")>>,
    <<InsA("LEAVE", 40)>>, <<InsA("CONST", 0)>>,
    \* overlapping ranges, a range that leaves the memory
    <<InsA("CONST", 20), InsA("CONST", 18), InsA("BLOCK_COPY", 4), InsA("LEAVE", 12)>>,
    <<InsA("CONST", 126), InsA("CONST", 18), InsA("BLOCK_COPY", 4), InsA("LEAVE", 12)>> }

MCAnyProgram(p) == [insns |-> p, depth |-> <<>>, returns |-> <<>>]

MCPrograms ==
  {MCAnyProgram(Framed(h, b)) : h \in Heads, b \in [1 .. 2 -> Pool]}
  \cup {MCAnyProgram(<<InsA("ENTER", 12)>> \o b) : b \in Longer}
  \cup {[insns |-> Recursive, depth |-> MCDepth(Recursive),
         returns |-> [n \in {1, 3, 5} |-> {(n * (n + 1)) \div 2}]]}

MCHostArgs   == {<<1>>, <<3>>, <<5>>}
MCHostWrites == {[a \in {105} |-> 3]}

MCFloatResult(op, a, b) == Signed(-a)
MCFloatHolds(op, a, b)  == a < b
=============================================================================
