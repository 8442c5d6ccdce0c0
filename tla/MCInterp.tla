------------------------------ MODULE MCInterp ------------------------------
(* The interpreter on the test programs; the host answers a system call in  *)
(* two ways and sometimes stores a byte into the data of the guest.         *)
EXTENDS InterpQvm, TestPrograms

MCProgram(p, answers) == [insns |-> p, depth |-> MCDepth(p), returns |-> answers]

MCHostArgs   == {<<1>>, <<5>>, <<7>>}
MCHostWrites == {<<>>, [a \in {16} |-> 2]}
Commands     == {a[1] : a \in MCHostArgs}

MCPrograms ==
  { MCProgram(Recursive, [n \in Commands |-> {(n * (n + 1)) \div 2}]),
    MCProgram(Syscalls,  [n \in Commands |-> {n + r : r \in HostReplies}]),
    MCProgram(Nested,    [n \in Commands |-> {3 + r : r \in HostReplies}]),
    MCProgram(Switch,    [n \in Commands |-> {7}]),
    MCProgram(Data,      [n \in Commands |-> {IF n < 6 THEN 1 ELSE -3}]) }

ASSUME \A p \in MCPrograms : WellFormed(p.insns, p.depth)

\* A toy format, twice the value, for the processor's floating point.
MCFloatResult(op, a, b) ==
  CASE op = "CVIF" -> Signed(2 * a)
    [] op = "CVFI" -> Quotient(a, 2)
    [] op = "NEGF" -> Signed(-a)
    [] op = "ADDF" -> Signed(a + b)
    [] op = "SUBF" -> Signed(a - b)
    [] op \in {"MULF", "DIVF"} -> Signed(a * b)
MCFloatHolds(op, a, b) ==
  CASE op = "EQF" -> a = b [] op = "NEF" -> a # b [] op = "LTF" -> a < b
    [] op = "LEF" -> a <= b [] op = "GTF" -> a > b [] op = "GEF" -> a >= b
=============================================================================
