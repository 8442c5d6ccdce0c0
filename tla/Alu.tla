-------------------------------- MODULE Alu ---------------------------------
(***************************************************************************)
(* What the computing instructions compute, as the cases of                *)
(* VM_CallInterpreted write it.  IEEE arithmetic is the processor's, not   *)
(* the program's: FloatResult and FloatHolds stand for it.                 *)
(***************************************************************************)
EXTENDS QvmIsa, Words

CONSTANTS
  FloatResult(_, _, _),  \* opcode, two words (the second one unused if unary)
  FloatHolds(_, _, _)    \* opcode, two words

ASSUME FloatAssumption ==
  \A op \in FloatBinary \cup FloatUnary, a, b \in Word : FloatResult(op, a, b) \in Word

\* SIGFPE: division by zero, and the one quotient that is out of range.
Division == {"DIVI", "DIVU", "MODI", "MODU"}
Traps(op, a, b) ==
  /\ op \in Division
  /\ b = 0 \/ (op \in {"DIVI", "MODI"} /\ a = -HalfMod /\ b = -1)

IntResult(op, a, b) ==
  CASE op = "ADD"  -> Signed(a + b)
    [] op = "SUB"  -> Signed(a - b)
    [] op = "DIVI" -> Quotient(a, b)
    [] op = "DIVU" -> Signed(Unsigned(a) \div Unsigned(b))
    [] op = "MODI" -> a - b * Quotient(a, b)
    [] op = "MODU" -> Signed(Unsigned(a) % Unsigned(b))
    [] op \in {"MULI", "MULU"} -> Signed(a * b)
    [] op = "BAND" -> Bitwise2(a, b, {<<1, 1>>})
    [] op = "BOR"  -> Bitwise2(a, b, {<<0, 1>>, <<1, 0>>, <<1, 1>>})
    [] op = "BXOR" -> Bitwise2(a, b, {<<0, 1>>, <<1, 0>>})
    [] op = "LSH"  -> Signed(a * 2^ShiftCount(b))
    [] op = "RSHI" -> a \div 2^ShiftCount(b)
    [] op = "RSHU" -> Signed(Unsigned(a) \div 2^ShiftCount(b))

BinaryResult(op, a, b) ==
  IF op \in FloatBinary THEN FloatResult(op, a, b) ELSE IntResult(op, a, b)

UnaryResult(op, a) ==
  CASE op = "NEGI"  -> Signed(-a)
    [] op = "BCOM"  -> -a - 1
    [] op = "SEX8"  -> SignExtend(a, ByteBits)
    [] op = "SEX16" -> SignExtend(a, 2 * ByteBits)
    [] op \in FloatUnary -> FloatResult(op, a, 0)

Holds(op, a, b) ==
  CASE op = "EQ"  -> a = b
    [] op = "NE"  -> a # b
    [] op = "LTI" -> a < b
    [] op = "LEI" -> a <= b
    [] op = "GTI" -> a > b
    [] op = "GEI" -> a >= b
    [] op = "LTU" -> Unsigned(a) < Unsigned(b)
    [] op = "LEU" -> Unsigned(a) <= Unsigned(b)
    [] op = "GTU" -> Unsigned(a) > Unsigned(b)
    [] op = "GEU" -> Unsigned(a) >= Unsigned(b)
    [] op \in FloatBranch -> FloatHolds(op, a, b)
=============================================================================
