----------------------------- MODULE MCAnalyze ------------------------------
(* Every short instruction stream over a set of opcodes with all the stack  *)
(* effects and every branch target, one too far included.                   *)
EXTENDS Analyze

CONSTANT
  MCLen   \* instructions that vary

Ins(op) == [op |-> op, arg |-> 0]

MCInsns(len) ==
  [op : {"ENTER", "LEAVE", "CONST", "POP", "ADD", "JUMP"}, arg : {0}]
  \cup [op : {"EQ"}, arg : 0 .. len]

MCTails(len) == [1 .. MCLen -> MCInsns(len)]

\* Streams that start a function, some that do not, and some that branch
\* early, over or into what follows.
MCFew == [op : {"LEAVE", "CONST", "POP", "JUMP"}, arg : {0}] \cup [op : {"EQ"}, arg : 4 .. 6]
MCBranch(t) == <<Ins("ENTER"), Ins("CONST"), Ins("CONST"), [op |-> "EQ", arg |-> t]>>

\* With operands on the stack from the start branches merge and disagree
\* within a few instructions.
MCMerging == [op : {"CONST", "POP", "JUMP"}, arg : {0}] \cup [op : {"EQ"}, arg : {5, 6}]
MCFull    == <<Ins("ENTER"), Ins("CONST"), Ins("CONST")>>

MCPrograms ==
  {<<Ins(op)>> \o t : op \in {"ENTER", "POP"}, t \in MCTails(MCLen + 1)}
  \cup {MCBranch(6) \o t : t \in [1 .. 3 -> MCFew]}
  \cup {MCFull \o t : t \in [1 .. MCLen -> MCMerging]}
=============================================================================
