------------------------------- MODULE MCWasm -------------------------------
(* The translator and what it emits: short programs with every opcode and   *)
(* every control structure, which are translated, and the test programs,    *)
(* which are run with the host as it is with the interpreter.               *)
EXTENDS WasmRun, TestPrograms

\* vmMain(n) = -128 % (n - 8): the remainder of the smallest word by -1.
Remainder ==
  << InsA("ENTER", 12), InsA("CONST", -128), InsA("LOCAL", 20), Ins("LOAD4"),
     InsA("CONST", 8), Ins("SUB"), Ins("MODI"), InsA("LEAVE", 12) >>

Pushes3  == <<Ins("CONST"), Ins("CONST"), Ins("CONST")>>
AllInsns == {InsA(op, IF op \in CondBranch THEN 5 ELSE 4) : op \in Opcodes \ {"ENTER"}}

\* Every pair of instructions on three operands.
Pairs == {<<InsA("ENTER", 12)>> \o Pushes3 \o t \o <<Ins("POP"), Ins("LEAVE")>>
          : t \in [1 .. 2 -> AllInsns]}

\* Loops, jumps and branches over each other, in two functions.
Flow == {Ins(op) : op \in {"CONST", "POP", "JUMP", "LEAVE"}}
        \cup {InsA(op, t) : op \in {"EQ", "LTF"}, t \in 0 .. 6}
Flows == {<<Ins("ENTER"), Ins("CONST"), Ins("CONST")>> \o t : t \in [1 .. 3 -> Flow]}
TwoFunctions ==
  {<<Ins("ENTER"), Ins("CONST"), InsA("LEAVE", 0), InsA("ENTER", 8), Ins("CONST"), Ins("CONST"),
     InsA("EQ", k), t[1], t[2], Ins("CONST"), Ins("LEAVE")>>
   : k \in 3 .. 10, t \in [1 .. 2 -> {Ins("IGNORE"), Ins("PUSH"), Ins("POP"), Ins("JUMP"), InsA("LEAVE", 8)}]}

Runnable     == {Recursive, Syscalls, Nested, Switch, Data, Remainder}
MCPrograms   == Runnable \cup Pairs \cup Flows \cup TwoFunctions
MCHostArgs   == {<<1>>, <<5>>, <<7>>}
MCHostWrites == {<<>>, [a \in {16} |-> 2]}
Commands     == {a[1] : a \in MCHostArgs}

MCAnswers ==
  [p \in Runnable |->
     [n \in Commands |->
        CASE p = Recursive -> {(n * (n + 1)) \div 2}
          [] p = Syscalls  -> {n + r : r \in HostReplies}
          [] p = Nested    -> {3 + r : r \in HostReplies}
          [] p = Switch    -> {7}
          [] p = Data      -> {IF n < 6 THEN 1 ELSE -3}
          [] p = Remainder -> {IF n = 7 THEN 0 ELSE -2}]]

\* A toy format, twice the value, for the processor's floating point.
MCFloatResult(op, a, b) ==
  CASE op = "CVIF" -> Signed(2 * a)
    [] op = "CVFI" -> Quotient(a, 2)
    [] op = "NEGF" -> Signed(-a)
    [] op = "ADDF" -> Signed(a + b)
    [] op = "SUBF" -> Signed(a - b)
    [] op \in {"MULF", "DIVF"} -> Signed(a * b)
MCFloatHolds(op, a, b) ==
  CASE op = "EQF" -> a = b [] op = "NEF" -> a # b [] op = "LTF" -> a < b
    [] op = "LEF" -> a <= b [] op = "GTF" -> a > b [] op = "GEF" -> a >= b
=============================================================================
