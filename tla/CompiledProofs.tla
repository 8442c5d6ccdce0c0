--------------------------- MODULE CompiledProofs ---------------------------
(***************************************************************************)
(* Proofs about the bytecode interpreter.  First for every program: words  *)
(* nobody compiled, operand stacks that wrap, return addresses that have   *)
(* been overwritten, and a host that calls back to any depth.  Then what   *)
(* compiled programs can rely on, for every one of them and every host     *)
(* that keeps to its own memory.                                           *)
(***************************************************************************)
EXTENDS Compiled, Lemmas

-----------------------------------------------------------------------------
(* What the computing instructions compute is a word.                      *)

LEMMA WordRange == /\ HalfMod \in Nat \ {0} /\ WordMod = 2 * HalfMod
                   /\ Word = -HalfMod .. HalfMod - 1
BY WordSizes DEF Word

LEMMA Divided ==
  ASSUME NEW m \in Nat, NEW d \in Nat \ {0}
  PROVE  /\ m \div d \in 0 .. m /\ d * (m \div d) <= m /\ m - d * (m \div d) < d
         /\ d # 1 /\ m # 0 => m \div d < m
<1> DEFINE q == m \div d
<1>1. q \in Nat /\ m = d * q + (m % d) /\ m % d \in 0 .. d - 1 OBVIOUS
<1>2. ASSUME d # 1, m # 0, q >= m PROVE FALSE
  <2> HIDE DEF q
  <2>1. d >= 2 /\ q # 0 BY <1>1, <1>2
  <2>2. d * q >= 2 * q BY <1>1, <2>1
  <2> DEFINE x == d * q
  <2>3. x \in Nat /\ m % d \in Nat BY <1>1
  <2>4. x <= m BY <1>1
  <2> HIDE DEF x
  <2>5. QED BY <1>1, <1>2, <2>1, <2>2, <2>3, <2>4 DEF x
<1>3. q <= m
  <2> HIDE DEF q
  <2>1. q <= d * q BY <1>1
  <2>2. QED BY <1>1, <2>1
<1>4. d * q <= m /\ m - d * q < d
  <2> HIDE DEF q
  <2> DEFINE x == d * q
  <2>1. x \in Nat BY <1>1
  <2>2. m = x + (m % d) BY <1>1
  <2> HIDE DEF x
  <2>3. x <= m /\ m - x < d BY <1>1, <2>1, <2>2
  <2>4. QED BY <2>3 DEF x
<1>5. QED BY <1>1, <1>2, <1>3, <1>4

LEMMA QuotientIsWord ==
  ASSUME NEW a \in Word, NEW b \in Word, b # 0, ~ (a = -HalfMod /\ b = -1)
  PROVE  Quotient(a, b) \in Word
<1> DEFINE m == Magnitude(a)
           d == Magnitude(b)
           q == m \div d
<1>1. /\ HalfMod \in Nat \ {0} /\ Word = -HalfMod .. HalfMod - 1 BY WordRange
<1>2. m \in 0 .. HalfMod /\ d \in 1 .. HalfMod /\ (m = HalfMod <=> a = -HalfMod)
  BY <1>1 DEF Magnitude
<1>3. d = 1 => b = 1 \/ b = -1 BY <1>1 DEF Magnitude
<1>4. Quotient(a, b) = IF (a < 0) <=> (b < 0) THEN q ELSE -q BY DEF Quotient
<1> HIDE DEF m, d
<1>5. q \in 0 .. m /\ (d # 1 /\ m # 0 => q < m) BY <1>2, Divided
<1> HIDE DEF q
<1>6. CASE q = HalfMod
  <2>1. m = HalfMod /\ d = 1 BY <1>1, <1>2, <1>5, <1>6
  <2>2. a < 0 /\ b = 1 BY <1>1, <1>2, <1>3, <2>1
  <2>3. QED BY <1>1, <1>4, <1>6, <2>2
<1>7. CASE q # HalfMod BY <1>1, <1>2, <1>4, <1>5, <1>7
<1>8. QED BY <1>6, <1>7

LEMMA RemainderIsWord ==
  ASSUME NEW a \in Word, NEW b \in Word, b # 0
  PROVE  a - b * Quotient(a, b) \in Word
<1> DEFINE m == Magnitude(a)
           d == Magnitude(b)
           q == m \div d
           r == m - d * q
<1>1. /\ HalfMod \in Nat \ {0} /\ Word = -HalfMod .. HalfMod - 1 BY WordRange
<1>2. m \in 0 .. HalfMod /\ d \in 1 .. HalfMod BY <1>1 DEF Magnitude
<1>3. /\ a = IF a < 0 THEN -m ELSE m
      /\ b = IF b < 0 THEN -d ELSE d
  BY <1>1 DEF Magnitude
<1>4. Quotient(a, b) = IF (a < 0) <=> (b < 0) THEN q ELSE -q BY DEF Quotient
<1> HIDE DEF m, d
<1>5. q \in Nat /\ r \in 0 .. d - 1
  <2>1. q \in 0 .. m /\ d * q <= m /\ m - d * q < d BY <1>2, Divided
  <2> HIDE DEF q
  <2>2. q \in Nat /\ d * q \in Int BY <1>2, <2>1
  <2>3. QED BY <1>2, <2>1, <2>2
<1> HIDE DEF q
<1>6. b * Quotient(a, b) = IF a < 0 THEN -(d * q) ELSE d * q
  <2>1. \A x \in Int : d * (-x) = -(d * x) /\ (-d) * x = -(d * x) /\ (-d) * (-x) = d * x
    BY <1>2
  <2>2. CASE a < 0 /\ b < 0 BY <1>3, <1>4, <1>5, <2>1, <2>2
  <2>3. CASE a < 0 /\ ~ (b < 0) BY <1>3, <1>4, <1>5, <2>1, <2>3
  <2>4. CASE ~ (a < 0) /\ b < 0 BY <1>3, <1>4, <1>5, <2>1, <2>4
  <2>5. CASE ~ (a < 0) /\ ~ (b < 0) BY <1>3, <1>4, <1>5, <2>1, <2>5
  <2>6. QED BY <2>2, <2>3, <2>4, <2>5
<1>7. a - b * Quotient(a, b) = IF a < 0 THEN -r ELSE r
  <2> DEFINE x == d * q
  <2>1. x \in Int BY <1>2, <1>5
  <2>2. b * Quotient(a, b) = IF a < 0 THEN -x ELSE x BY <1>6
  <2>3. r = m - x OBVIOUS
  <2> HIDE DEF x, r
  <2>4. QED BY <1>2, <1>3, <2>1, <2>2, <2>3
<1> HIDE DEF r
<1>8. QED BY <1>1, <1>2, <1>5, <1>7

LEMMA ShiftedIsWord ==
  ASSUME NEW a \in Word, NEW p \in Nat \ {0} PROVE a \div p \in Word
<1>1. /\ HalfMod \in Nat \ {0} /\ Word = -HalfMod .. HalfMod - 1 BY WordRange
<1> DEFINE q == a \div p
<1>2. q \in Int /\ a = p * q + (a % p) /\ a % p \in 0 .. p - 1 BY <1>1
<1> HIDE DEF q
<1>3. CASE q >= 0
  <2>1. q <= p * q BY <1>2, <1>3
  <2>2. p * q <= a BY <1>2
  <2>3. QED BY <1>1, <1>2, <1>3, <2>1, <2>2 DEF q
<1>4. CASE q < 0
  <2>1. p * (q + 1) <= q + 1 BY <1>2, <1>4
  <2>2. p * (q + 1) = p * q + p BY <1>2
  <2>3. a <= p * (q + 1) - 1
    <3> DEFINE x == p * q
    <3>1. x \in Int BY <1>2
    <3>2. p * (q + 1) = x + p /\ a = x + (a % p) BY <1>2, <2>2
    <3> HIDE DEF x
    <3>3. QED BY <1>1, <1>2, <3>1, <3>2
  <2>4. p * (q + 1) \in Int BY <1>2
  <2>5. a < q + 1 BY <1>1, <1>2, <2>1, <2>3, <2>4
  <2>6. QED BY <1>1, <1>2, <1>4, <2>5 DEF q
<1>5. QED BY <1>2, <1>3, <1>4

LEMMA SignExtended ==
  ASSUME NEW x \in Int, NEW bits \in Nat \ {0}, bits <= WordBits
  PROVE  SignExtend(x, bits) \in Word
<1>1. bits - 1 \in Nat /\ (bits - 1) + 1 = bits /\ WordBits - 1 \in Nat /\ bits - 1 <= WordBits - 1
  BY ByteBitsAssumption DEF WordBits
<1>2. 2^bits = 2 * 2^(bits - 1) BY <1>1, PowerDoubles
<1>3. 2^(bits - 1) \in Nat \ {0} BY <1>1, PowerIsNatural
<1>4. 2^(bits - 1) <= HalfMod BY <1>1, PowersGrow DEF HalfMod
<1>5. HalfMod \in Nat \ {0} /\ Word = -HalfMod .. HalfMod - 1 BY WordRange
<1> DEFINE h == 2^(bits - 1)
           z == 2^bits
<1>6. SignExtend(x, bits) = ((x + h) % z) - h BY DEF SignExtend
<1> HIDE DEF h, z
<1>7. z = 2 * h /\ h \in Nat \ {0} /\ h <= HalfMod BY <1>2, <1>3, <1>4 DEF h, z
<1>8. (x + h) % z \in 0 .. z - 1 BY <1>7
<1>9. QED BY <1>5, <1>6, <1>7, <1>8

LEMMA BitwiseIsWord ==
  ASSUME NEW a, NEW b, NEW ones PROVE Bitwise2(a, b, ones) \in Word
<1> DEFINE S == 0 .. WordBits - 1
           f == [k \in S |-> IF <<Bit(a, k), Bit(b, k)>> \in ones THEN 2^k ELSE 0]
           g == CHOOSE g : g = [T \in SUBSET S |->
                  IF T = {} THEN 0
                  ELSE (IF <<Bit(a, CHOOSE x \in T : TRUE), Bit(b, CHOOSE x \in T : TRUE)>> \in ones
                        THEN 2^(CHOOSE x \in T : TRUE) ELSE 0)
                       + g[T \ {CHOOSE x \in T : TRUE}]]
<1>1. Bitwise2(a, b, ones) = Signed(g[S]) BY DEF Bitwise2, MapThenSumSet, MapThenFoldSet
<1>2. \A k \in S : 2^k \in Int BY PowerIsNatural
<1>3. f \in [S -> Int] BY <1>2
<1>4. IsFiniteSet(S) BY FS_Interval, ByteBitsAssumption DEF WordBits
<1>5. ASSUME NEW h
      PROVE  SumStep(S, f, h) = [T \in SUBSET S |->
               IF T = {} THEN 0
               ELSE (IF <<Bit(a, Pick(T)), Bit(b, Pick(T))>> \in ones THEN 2^Pick(T) ELSE 0)
                    + h[T \ {Pick(T)}]]
  <2>1. \A T \in SUBSET S : T # {} => Pick(T) \in S BY DEF Pick
  <2> HIDE DEF S
  <2>2. QED BY <2>1 DEF SumStep
<1>6. g = CHOOSE h : h = [T \in SUBSET S |->
               IF T = {} THEN 0
               ELSE (IF <<Bit(a, Pick(T)), Bit(b, Pick(T))>> \in ones THEN 2^Pick(T) ELSE 0)
                    + h[T \ {Pick(T)}]]
  BY Zenon DEF Pick
<1> HIDE DEF f, g, S
<1>7. PICK h : h = SumStep(S, f, h) BY <1>3, <1>4, SumsExist DEF HasSums, Sums
<1>8. g = SumStep(S, f, g) BY <1>5, <1>6, <1>7
<1>9. Sums(S, f, g) BY <1>3, <1>4, <1>8, SumsTyped
<1>10. g[S] \in Int BY <1>9 DEF Sums
<1>11. QED BY <1>1, <1>10, SignedIsWord

LEMMA PowerOfShift == ASSUME NEW b \in Word PROVE 2^ShiftCount(b) \in Nat \ {0}
<1>1. b \in Int /\ WordBits \in Nat \ {0} BY WordRange, ByteBitsAssumption DEF WordBits
<1>2. ShiftCount(b) \in Nat BY <1>1 DEF ShiftCount
<1>3. QED BY <1>2, PowerIsNatural

LEMMA IntResultIsWord ==
  ASSUME NEW op \in IntBinary, NEW a \in Word, NEW b \in Word, ~ Traps(op, a, b)
  PROVE  IntResult(op, a, b) \in Word
<1>1. /\ a \in Int /\ b \in Int /\ HalfMod \in Nat \ {0} BY WordRange
<1>2. op \in Division => b # 0 BY DEF Traps
<1>3. op \in {"DIVI", "MODI"} => ~ (a = -HalfMod /\ b = -1) BY DEF Traps, Division
<1>4. CASE op \in {"ADD", "SUB", "MULI", "MULU"}
  <2>1. a + b \in Int /\ a - b \in Int /\ a * b \in Int BY <1>1
  <2>2. Signed(a + b) \in Word /\ Signed(a - b) \in Word /\ Signed(a * b) \in Word
    BY <2>1, SignedIsWord
  <2>3. QED BY <1>4, <2>2 DEF IntResult
<1>5. CASE op = "DIVI"
  <2>1. b # 0 BY <1>2, <1>5 DEF Division
  <2>2. Quotient(a, b) \in Word BY <1>3, <1>5, <2>1, QuotientIsWord
  <2>3. QED BY <1>5, <2>2 DEF IntResult
<1>6. CASE op = "MODI"
  <2>1. b # 0 BY <1>2, <1>6 DEF Division
  <2>2. a - b * Quotient(a, b) \in Word BY <2>1, RemainderIsWord
  <2>3. QED BY <1>6, <2>2 DEF IntResult
<1>7. CASE op \in {"DIVU", "MODU"}
  <2>1. b # 0 BY <1>2, <1>7 DEF Division
  <2>2. Unsigned(a) \in Nat /\ Unsigned(b) \in Nat BY <1>1, UnsignedIsNatural
  <2>3. Unsigned(b) # 0
    <3>1. b \in -HalfMod .. HalfMod - 1 /\ WordMod = 2 * HalfMod BY WordRange
    <3>2. Unsigned(b) = IF b < 0 THEN b + WordMod ELSE b BY UnsignedOf
    <3>3. QED BY <1>1, <2>1, <3>1, <3>2
  <2> DEFINE x == Unsigned(a)
             y == Unsigned(b)
  <2>4. x \in Nat /\ y \in Nat \ {0} BY <2>2, <2>3
  <2> HIDE DEF x, y
  <2>5. x \div y \in Int /\ x % y \in Int BY <2>4
  <2>6. Signed(x \div y) \in Word /\ Signed(x % y) \in Word BY <2>5, SignedIsWord
  <2>7. QED BY <1>7, <2>6 DEF IntResult, x, y
<1>8. CASE op \in {"BAND", "BOR", "BXOR"} BY <1>8, BitwiseIsWord DEF IntResult
<1>9. CASE op \in {"LSH", "RSHI", "RSHU"}
  <2> DEFINE p == 2^ShiftCount(b)
             x == Unsigned(a)
  <2>1. p \in Nat \ {0} BY PowerOfShift
  <2>2. x \in Nat BY <1>1, UnsignedIsNatural
  <2>3. IntResult(op, a, b) \in {Signed(a * p), a \div p, Signed(x \div p)}
    BY <1>9 DEF IntResult
  <2> HIDE DEF p, x
  <2>4. a * p \in Int /\ x \div p \in Int BY <1>1, <2>1, <2>2
  <2>5. a \div p \in Word BY <2>1, ShiftedIsWord
  <2>6. Signed(a * p) \in Word /\ Signed(x \div p) \in Word BY <2>4, SignedIsWord
  <2>7. QED BY <2>3, <2>5, <2>6
<1>10. QED BY <1>4, <1>5, <1>6, <1>7, <1>8, <1>9 DEF IntBinary

LEMMA BinaryResultIsWord ==
  ASSUME NEW op \in IntBinary \cup FloatBinary, NEW a \in Word, NEW b \in Word,
         ~ Traps(op, a, b)
  PROVE  BinaryResult(op, a, b) \in Word
<1>1. CASE op \in FloatBinary
  <2>1. FloatResult(op, a, b) \in Word BY <1>1, FloatAssumption
  <2>2. QED BY <1>1, <2>1 DEF BinaryResult
<1>2. CASE op \notin FloatBinary
  <2>1. IntResult(op, a, b) \in Word BY <1>2, IntResultIsWord
  <2>2. QED BY <1>2, <2>1 DEF BinaryResult
<1>3. QED BY <1>1, <1>2

LEMMA UnaryResultIsWord ==
  ASSUME NEW op \in IntUnary \cup FloatUnary, NEW a \in Word
  PROVE  UnaryResult(op, a) \in Word
<1>1. HalfMod \in Nat \ {0} /\ Word = -HalfMod .. HalfMod - 1 BY WordRange
<1>2. 0 \in Word /\ a \in Int BY <1>1
<1>3. CASE op \in FloatUnary
  <2>1. FloatResult(op, a, 0) \in Word BY <1>2, <1>3, FloatAssumption
  <2>2. UnaryResult(op, a) = FloatResult(op, a, 0) BY <1>3 DEF UnaryResult, FloatUnary
  <2>3. QED BY <2>1, <2>2
<1>4. CASE op \in {"SEX8", "SEX16"}
  <2>1. /\ ByteBits \in Nat \ {0} /\ ByteBits <= WordBits
        /\ 2 * ByteBits \in Nat \ {0} /\ 2 * ByteBits <= WordBits
    BY ByteBitsAssumption DEF WordBits
  <2>2. SignExtend(a, ByteBits) \in Word /\ SignExtend(a, 2 * ByteBits) \in Word
    BY <1>2, <2>1, SignExtended
  <2>3. QED BY <1>4, <2>2 DEF UnaryResult, FloatUnary
<1>5. CASE op = "NEGI"
  <2>1. -a \in Int BY <1>2
  <2>2. Signed(-a) \in Word BY <2>1, SignedIsWord
  <2>3. QED BY <1>5, <2>2 DEF UnaryResult, FloatUnary
<1>6. CASE op = "BCOM"
  <2>1. -a - 1 \in Word BY <1>1
  <2>2. QED BY <1>6, <2>1 DEF UnaryResult, FloatUnary
<1>7. QED BY <1>3, <1>4, <1>5, <1>6 DEF IntUnary

-----------------------------------------------------------------------------
(* One activation.                                                         *)

Fields == {"command", "pc", "ps", "entry", "opStack", "ofs", "r0", "r1", "inSyscall", "stomped"}

\* The operand stack has its slots, and opStackOfs is one of them.
Shaped(a) ==
  /\ a = [f \in Fields |-> a[f]]
  /\ a.opStack = [s \in 0 .. OpSlots - 1 |-> a.opStack[s]]
  /\ a.ofs \in 0 .. OpSlots - 1

Coherent(a) == a.r0 = a.opStack[a.ofs] /\ a.r1 = a.opStack[Slot(a.ofs - 1)]

\* An instruction has been carried out in it and the next one may follow.
Kept(a, b) ==
  Shaped(b) /\ Coherent(b) /\ b.inSyscall = a.inSyscall /\ b.entry = a.entry

LEMMA SlotsDiffer ==
  ASSUME NEW n \in 0 .. OpSlots - 1
  PROVE  /\ Slot(n + 1) \in 0 .. OpSlots - 1 /\ Slot(n - 1) \in 0 .. OpSlots - 1
         /\ Slot(n - 2) \in 0 .. OpSlots - 1
         /\ Slot(n + 1) # n /\ Slot(n - 1) # n /\ Slot(Slot(n + 1) - 1) = n
<1>1. OpSlots \in Nat /\ OpSlots >= 2 BY SizesAssumption
<1>2. \A k \in 0 .. OpSlots - 1 : k % OpSlots = k BY <1>1
<1>3. OpSlots % OpSlots = 0 BY <1>1
<1>4. (-1) % OpSlots = OpSlots - 1 BY <1>1
<1>5. (-2) % OpSlots = OpSlots - 2 BY <1>1
<1>6. Slot(n + 1) = IF n = OpSlots - 1 THEN 0 ELSE n + 1 BY <1>1, <1>2, <1>3 DEF Slot
<1>7. Slot(n - 1) = IF n = 0 THEN OpSlots - 1 ELSE n - 1 BY <1>1, <1>2, <1>4 DEF Slot
<1>8. Slot(n - 2) \in 0 .. OpSlots - 1 BY <1>1 DEF Slot
<1>9. Slot(Slot(n + 1) - 1) = n
  <2>1. CASE n = OpSlots - 1
    <3>1. Slot(n + 1) = 0 BY <1>6, <2>1
    <3>2. QED BY <1>1, <1>4, <2>1, <3>1 DEF Slot
  <2>2. CASE n # OpSlots - 1
    <3>1. Slot(n + 1) = n + 1 /\ (n + 1) - 1 = n BY <1>1, <1>6, <2>2
    <3>2. QED BY <1>2, <3>1 DEF Slot
  <2>3. QED BY <2>1, <2>2
<1>10. QED BY <1>1, <1>6, <1>7, <1>8, <1>9

\* What DISPATCH leaves is coherent.
LEMMA ReloadKeeps ==
  ASSUME NEW a, NEW b, Shaped(b), b.inSyscall = a.inSyscall, b.entry = a.entry
  PROVE  Kept(a, Reloaded(b))
BY DEF Kept, Shaped, Coherent, Reloaded, Fields

\* The new activation of VM_Call.
LEMMA Activated ==
  ASSUME NEW entry, NEW command, NEW garbage
  PROVE  /\ Shaped(Activation(entry, command, garbage))
         /\ Coherent(Activation(entry, command, garbage))
         /\ Activation(entry, command, garbage).entry = entry
         /\ Activation(entry, command, garbage).inSyscall = FALSE
<1>1. OpSlots \in Nat /\ OpSlots >= 2 BY SizesAssumption
<1> DEFINE b == [command |-> command, pc |-> 0, ps |-> entry - FrameBytes, entry |-> entry,
                 opStack |-> [k \in 0 .. OpSlots - 1 |-> IF k = 0 THEN Sentinel ELSE garbage],
                 ofs |-> 0, r0 |-> 0, r1 |-> 0, inSyscall |-> FALSE, stomped |-> 0]
<1>2. Shaped(b)
  <2>1. DOMAIN b = Fields BY DEF Fields
  <2>2. b = [f \in DOMAIN b |-> b[f]] BY Zenon
  <2>3. b.ofs \in 0 .. OpSlots - 1 BY <1>1
  <2>4. b.opStack = [s \in 0 .. OpSlots - 1 |-> b.opStack[s]] OBVIOUS
  <2>5. QED BY <2>1, <2>2, <2>3, <2>4 DEF Shaped
<1>3. b.inSyscall = FALSE /\ b.entry = entry OBVIOUS
<1>4. Activation(entry, command, garbage) = Reloaded(b) BY DEF Activation
<1> HIDE DEF b
<1>5. Kept(b, Reloaded(b)) BY <1>2, ReloadKeeps
<1>6. QED BY <1>3, <1>4, <1>5 DEF Kept

\* What an instruction changes in its activation, before DISPATCH.
LEMMA Moves ==
  ASSUME NEW a, Shaped(a), NEW pc, NEW ps, NEW n \in 0 .. OpSlots - 1, NEW v,
         NEW s \in 0 .. OpSlots - 1
  PROVE  /\ Kept(a, Reloaded([a EXCEPT !.pc = pc]))
         /\ Kept(a, Reloaded([a EXCEPT !.pc = pc, !.ps = ps]))
         /\ Kept(a, Reloaded([a EXCEPT !.pc = pc, !.ofs = n]))
         /\ Kept(a, Reloaded([a EXCEPT !.pc = pc, !.opStack[s] = v]))
         /\ Kept(a, Reloaded([a EXCEPT !.pc = pc, !.ofs = n, !.opStack[s] = v]))
         /\ Kept(a, Reloaded([[a EXCEPT !.ofs = n] EXCEPT !.pc = pc]))
<1>1. Kept(a, Reloaded([a EXCEPT !.pc = pc]))
  BY ReloadKeeps DEF Shaped, Fields
<1>2. Kept(a, Reloaded([a EXCEPT !.pc = pc, !.ps = ps]))
  BY ReloadKeeps DEF Shaped, Fields
<1>3. Kept(a, Reloaded([a EXCEPT !.pc = pc, !.ofs = n]))
  BY ReloadKeeps DEF Shaped, Fields
<1>4. Kept(a, Reloaded([a EXCEPT !.pc = pc, !.opStack[s] = v]))
  BY ReloadKeeps DEF Shaped, Fields
<1>5. Kept(a, Reloaded([a EXCEPT !.pc = pc, !.ofs = n, !.opStack[s] = v]))
  BY ReloadKeeps DEF Shaped, Fields
<1>6. Kept(a, Reloaded([[a EXCEPT !.ofs = n] EXCEPT !.pc = pc]))
  BY ReloadKeeps DEF Shaped, Fields
<1>7. QED BY <1>1, <1>2, <1>3, <1>4, <1>5, <1>6

\* The three instructions that skip the reload.
LEMMA Cached ==
  ASSUME NEW a, Shaped(a), Coherent(a), NEW pc, NEW v
  PROVE  /\ Kept(a, [a EXCEPT !.pc = pc])
         /\ Kept(a, [a EXCEPT !.pc = pc, !.opStack[a.ofs] = v, !.r0 = v])
         /\ Kept(a, [a EXCEPT !.pc = pc, !.ofs = Slot(a.ofs + 1),
                              !.opStack[Slot(a.ofs + 1)] = v, !.r0 = v, !.r1 = a.r0])
<1>1. /\ Slot(a.ofs + 1) \in 0 .. OpSlots - 1 /\ Slot(a.ofs - 1) \in 0 .. OpSlots - 1
      /\ Slot(a.ofs + 1) # a.ofs /\ Slot(a.ofs - 1) # a.ofs
      /\ Slot(Slot(a.ofs + 1) - 1) = a.ofs
  BY SlotsDiffer DEF Shaped
<1>2. Kept(a, [a EXCEPT !.pc = pc]) BY DEF Kept, Shaped, Coherent, Fields
<1>3. Kept(a, [a EXCEPT !.pc = pc, !.opStack[a.ofs] = v, !.r0 = v])
  BY <1>1 DEF Kept, Shaped, Coherent, Fields
<1>4. Kept(a, [a EXCEPT !.pc = pc, !.ofs = Slot(a.ofs + 1),
                        !.opStack[Slot(a.ofs + 1)] = v, !.r0 = v, !.r1 = a.r0])
  BY <1>1 DEF Kept, Shaped, Coherent, Fields
<1>5. QED BY <1>2, <1>3, <1>4

-----------------------------------------------------------------------------
(* The activations, one nested in the other.                               *)

(***************************************************************************)
(* The inductive invariant.  CacheCoherent leaves out what the cache must  *)
(* be rebuilt from, and ReentryNests the shape of what it counts.          *)
(***************************************************************************)
ActsInv ==
  /\ Len(acts) \in Nat /\ acts = [k \in 1 .. Len(acts) |-> acts[k]]
  /\ \A k \in 1 .. Len(acts) :
       Shaped(acts[k]) /\ (~ acts[k].inSyscall => Coherent(acts[k]))

VmInv ==
  vm = [programStack |-> vm.programStack, callLevel |-> vm.callLevel,
        currentlyInterpreting |-> vm.currentlyInterpreting]

InterpInv == ActsInv /\ VmInv /\ ReentryNests

\* The step of OuterUntouched.
OuterStep ==
  ReentryNests' /\ \A k \in 1 .. Len(acts) - 1 : k <= Len(acts') /\ acts'[k] = acts[k]

Keeps == InterpInv' /\ OuterStep

LEMMA InitInterpInv == Init => InterpInv
<1> SUFFICES ASSUME Init PROVE InterpInv OBVIOUS
<1>1. acts = <<>> /\ status = "ok"
      /\ vm = [programStack |-> MemSize, callLevel |-> 0, currentlyInterpreting |-> 0]
  BY DEF Init
<1>2. ActsInv BY <1>1 DEF ActsInv
<1>3. VmInv BY <1>1 DEF VmInv
<1>4. ReentryNests BY <1>1 DEF ReentryNests
<1>5. QED BY <1>2, <1>3, <1>4 DEF InterpInv

LEMMA Untouched ==
  ASSUME InterpInv, UNCHANGED <<acts, vm>>, status' = "freed" => acts = <<>>
  PROVE  Keeps
<1>1. ActsInv' /\ VmInv' BY DEF InterpInv, ActsInv, VmInv
<1>2. ReentryNests' BY DEF InterpInv, ReentryNests
<1>3. \A k \in 1 .. Len(acts) - 1 : k <= Len(acts') /\ acts'[k] = acts[k]
  BY DEF InterpInv, ActsInv
<1>4. QED BY <1>1, <1>2, <1>3 DEF Keeps, InterpInv, OuterStep

\* The innermost activation becomes b.
LEMMA Replaced ==
  ASSUME InterpInv, Level > 0, NEW b,
         Shaped(b), ~ b.inSyscall => Coherent(b), b.entry = A.entry,
         acts' = [acts EXCEPT ![Level] = b],
         VmInv', vm'.callLevel = vm.callLevel,
         b.inSyscall => vm'.programStack = b.ps - 4,
         status' # "freed"
  PROVE  Keeps
<1> DEFINE n == Len(acts)
<1>1. n \in Nat \ {0} /\ acts = [k \in 1 .. n |-> acts[k]]
  BY DEF InterpInv, ActsInv, Level
<1>2. acts' = [k \in 1 .. n |-> IF k = n THEN b ELSE acts[k]]
  <2>1. acts' = [acts EXCEPT ![n] = b] BY DEF Level
  <2> HIDE DEF n
  <2>2. QED BY <1>1, <2>1
<1>3. Len(acts') = n
  <2> HIDE DEF n
  <2>1. QED BY <1>1, <1>2
<1>4. /\ \A k \in 1 .. n : k # n => acts'[k] = acts[k]
      /\ acts'[n] = b
  <2> HIDE DEF n
  <2>1. n \in 1 .. n BY <1>1
  <2>2. QED BY <1>2, <2>1
<1>5. ActsInv'
  <2>1. acts' = [k \in 1 .. Len(acts') |-> acts'[k]] BY <1>2, <1>3
  <2>2. \A k \in 1 .. n : Shaped(acts'[k]) /\ (~ acts'[k].inSyscall => Coherent(acts'[k]))
    BY <1>4 DEF InterpInv, ActsInv
  <2>3. QED BY <1>1, <1>3, <2>1, <2>2 DEF ActsInv
<1>6. ReentryNests'
  <2>1. b.entry = IF n = 1 THEN MemSize ELSE acts[n - 1].ps - 4
    BY <1>1 DEF InterpInv, ReentryNests, A, Level
  <2>2. ASSUME NEW k \in 1 .. n
        PROVE  /\ acts'[k].entry = IF k = 1 THEN MemSize ELSE acts'[k - 1].ps - 4
               /\ k < n => acts'[k].inSyscall
    <3>1. k # 1 => k - 1 \in 1 .. n /\ k - 1 # n /\ acts'[k - 1] = acts[k - 1] BY <1>1, <1>4
    <3>2. acts'[k].entry = acts[k].entry BY <1>4, <2>1 DEF A, Level
    <3>3. k < n => acts'[k] = acts[k] BY <1>1, <1>4
    <3>4. QED BY <3>1, <3>2, <3>3 DEF InterpInv, ReentryNests
  <2>3. vm'.callLevel = n BY DEF InterpInv, ReentryNests
  <2>4. acts' # <<>> BY <1>1, <1>3
  <2>5. QED BY <1>3, <1>4, <2>2, <2>3, <2>4 DEF ReentryNests
<1>7. \A k \in 1 .. n - 1 : k <= Len(acts') /\ acts'[k] = acts[k]
  BY <1>1, <1>3, <1>4
<1>8. QED BY <1>5, <1>6, <1>7 DEF Keeps, InterpInv, OuterStep

\* The host has called VM_Call.
LEMMA Entered ==
  ASSUME InterpInv, HostMayCall, NEW b, Shaped(b), Coherent(b), ~ b.inSyscall,
         b.entry = vm.programStack, acts' = Append(acts, b),
         VmInv', vm'.callLevel = vm.callLevel + 1, status' # "freed"
  PROVE  Keeps
<1> DEFINE n == Len(acts)
<1>1. n \in Nat /\ acts = [k \in 1 .. n |-> acts[k]]
  BY DEF InterpInv, ActsInv
<1>2. /\ acts' = [k \in 1 .. n + 1 |-> IF k = n + 1 THEN b ELSE acts[k]]
      /\ Len(acts') = n + 1
  <2> HIDE DEF n
  <2>1. acts' = Append([k \in 1 .. n |-> acts[k]], b) BY <1>1
  <2>2. QED BY <1>1, <2>1
<1>3. /\ \A k \in 1 .. n : acts'[k] = acts[k]
      /\ acts'[n + 1] = b
  <2> HIDE DEF n
  <2>1. n + 1 \in 1 .. n + 1 /\ \A k \in 1 .. n : k \in 1 .. n + 1 /\ k # n + 1 BY <1>1
  <2>2. QED BY <1>2, <2>1
<1>4. \A k \in 1 .. n + 1 : k = n + 1 \/ k \in 1 .. n
  <2> HIDE DEF n
  <2>1. QED BY <1>1
<1>5. ActsInv'
  <2>1. acts' = [k \in 1 .. Len(acts') |-> acts'[k]] BY <1>2
  <2>2. \A k \in 1 .. n + 1 :
          Shaped(acts'[k]) /\ (~ acts'[k].inSyscall => Coherent(acts'[k]))
    BY <1>3, <1>4 DEF InterpInv, ActsInv
  <2>3. QED BY <1>1, <1>2, <2>1, <2>2 DEF ActsInv
<1>6. ReentryNests'
  <2>1. n # 0 => acts[n].inSyscall BY <1>1 DEF HostMayCall, A, Level
  <2>2. acts = <<>> <=> n = 0 BY <1>1
  <2>3. b.entry = IF n = 0 THEN MemSize ELSE acts[n].ps - 4
    BY <1>1, <2>1, <2>2 DEF InterpInv, ReentryNests
  <2>4. ASSUME NEW k \in 1 .. n + 1
        PROVE  /\ acts'[k].entry = IF k = 1 THEN MemSize ELSE acts'[k - 1].ps - 4
               /\ k < n + 1 => acts'[k].inSyscall
    <3>1. k # 1 => k - 1 \in 1 .. n /\ acts'[k - 1] = acts[k - 1] BY <1>1, <1>3
    <3>2. CASE k = n + 1
      <4>1. k = 1 => n = 0 BY <1>1, <3>2
      <4>2. k # 1 => n # 0 /\ k - 1 = n BY <1>1, <3>2
      <4>3. acts'[k] = b BY <1>3, <3>2
      <4>4. QED BY <2>3, <3>1, <3>2, <4>1, <4>2, <4>3
    <3>3. CASE k \in 1 .. n
      <4>1. acts'[k] = acts[k] BY <1>3, <3>3
      <4>2. k < n \/ k = n BY <1>1, <3>3
      <4>3. QED BY <1>1, <2>1, <3>1, <3>3, <4>1, <4>2 DEF InterpInv, ReentryNests
    <3>4. QED BY <1>4, <3>2, <3>3
  <2>5. vm'.callLevel = n + 1 BY DEF InterpInv, ReentryNests
  <2>6. acts' # <<>> /\ ~ acts'[n + 1].inSyscall BY <1>1, <1>2, <1>3
  <2>7. QED BY <1>2, <2>4, <2>5, <2>6 DEF ReentryNests
<1>7. \A k \in 1 .. n - 1 : k <= Len(acts') /\ acts'[k] = acts[k]
  BY <1>1, <1>2, <1>3
<1>8. QED BY <1>5, <1>6, <1>7 DEF Keeps, InterpInv, OuterStep

LEMMA Shorter ==
  ASSUME NEW s, NEW n \in Nat \ {0}, s = [k \in 1 .. n |-> s[k]]
  PROVE  SubSeq(s, 1, n - 1) = [k \in 1 .. n - 1 |-> s[k]] /\ Len(SubSeq(s, 1, n - 1)) = n - 1
<1> DEFINE S == {s[k] : k \in 1 .. n}
<1>1. s \in [1 .. n -> S] OBVIOUS
<1> HIDE DEF S
<1>2. s \in Seq(S) /\ Len(s) = n BY <1>1
<1>3. QED BY <1>2

\* The innermost activation has returned.
LEMMA Dropped ==
  ASSUME InterpInv, Level > 0,
         acts' = SubSeq(acts, 1, Level - 1), vm' = Returned, status' # "freed"
  PROVE  Keeps
<1> DEFINE n == Len(acts)
<1>1. n \in Nat \ {0} /\ acts = [k \in 1 .. n |-> acts[k]] /\ Len(acts) = n /\ Level = n
  BY DEF InterpInv, ActsInv, Level
<1> HIDE DEF n
<1>2. acts' = [k \in 1 .. n - 1 |-> acts[k]] /\ Len(acts') = n - 1
  BY <1>1, Shorter
<1>3. \A k \in 1 .. n - 1 : acts'[k] = acts[k] /\ k \in 1 .. n
  BY <1>1, <1>2
<1>4. ActsInv'
  <2>1. acts' = [k \in 1 .. Len(acts') |-> acts'[k]] BY <1>2
  <2>2. QED BY <1>1, <1>2, <1>3, <2>1 DEF ActsInv, InterpInv
<1>5. /\ VmInv' /\ vm'.programStack = acts[n].entry
      /\ vm'.callLevel = vm.callLevel - 1
  BY <1>1 DEF Returned, VmInv, A
<1>6. ReentryNests'
  <2>1. vm'.callLevel = n - 1
    <3>1. vm.callLevel = n BY <1>1 DEF InterpInv, ReentryNests
    <3>2. QED BY <1>5, <3>1
  <2>2. vm'.programStack = IF n = 1 THEN MemSize ELSE acts[n - 1].ps - 4
    <3>1. n \in 1 .. Len(acts) BY <1>1
    <3>2. acts[n].entry = IF n = 1 THEN MemSize ELSE acts[n - 1].ps - 4
      BY <3>1 DEF InterpInv, ReentryNests
    <3>3. QED BY <1>5, <3>2
  <2>3. ASSUME NEW k \in 1 .. n - 1
        PROVE  /\ acts'[k].entry = IF k = 1 THEN MemSize ELSE acts'[k - 1].ps - 4
               /\ acts'[k].inSyscall
    <3>1. k # 1 => k - 1 \in 1 .. n - 1 /\ acts'[k - 1] = acts[k - 1] BY <1>1, <1>3
    <3>2. acts'[k] = acts[k] /\ k \in 1 .. n /\ k < n BY <1>1, <1>3
    <3>3. /\ acts[k].entry = IF k = 1 THEN MemSize ELSE acts[k - 1].ps - 4
          /\ acts[k].inSyscall
      BY <1>1, <3>2, Zenon DEF InterpInv, ReentryNests
    <3>4. CASE k = 1 BY <3>2, <3>3, <3>4
    <3>5. CASE k # 1 BY <3>1, <3>2, <3>3, <3>5, Zenon
    <3>6. QED BY <3>4, <3>5
  <2>4. acts' = <<>> <=> n = 1 BY <1>1, <1>2
  <2>5. n # 1 => n - 1 \in 1 .. n - 1 /\ acts'[n - 1] = acts[n - 1] BY <1>1, <1>3
  <2>6. QED BY <1>2, <2>1, <2>2, <2>3, <2>4, <2>5 DEF ReentryNests
<1>7. \A k \in 1 .. n - 1 : k <= Len(acts') /\ acts'[k] = acts[k]
  BY <1>1, <1>2, <1>3
<1>8. QED BY <1>1, <1>4, <1>5, <1>6, <1>7 DEF Keeps, InterpInv, OuterStep

-----------------------------------------------------------------------------
(* The steps.                                                              *)

\* The process has ended, or the step was none.
Halts ==
  UNCHANGED <<acts, vm>> /\ (status' = "freed" => vm.callLevel = 0)

\* An instruction that goes on to the next one.
Steps ==
  /\ Running /\ vm' = vm /\ status' = status
  /\ \E b : Kept(A, b) /\ acts' = [acts EXCEPT ![Level] = b]

LEMMA InnerFacts ==
  ASSUME InterpInv, Running
  PROVE  Shaped(A) /\ Coherent(A) /\ ~ A.inSyscall /\ Level > 0 /\ status = "ok"
<1>1. Level \in 1 .. Len(acts) /\ status = "ok" /\ ~ A.inSyscall /\ Level > 0
  BY DEF Running, Level, InterpInv, ActsInv
<1>2. QED BY <1>1 DEF InterpInv, ActsInv, A

LEMMA StepKeeps ==
  ASSUME InterpInv, Steps PROVE Keeps
<1>1. /\ Level > 0 /\ status' # "freed" /\ ~ A.inSyscall /\ vm' = vm
  BY InnerFacts DEF Steps
<1>2. VmInv' BY <1>1 DEF InterpInv, VmInv
<1>3. PICK b : Kept(A, b) /\ acts' = [acts EXCEPT ![Level] = b] BY DEF Steps
<1>4. /\ Shaped(b) /\ Coherent(b) /\ ~ b.inSyscall /\ b.entry = A.entry
  BY <1>1, <1>3 DEF Kept
<1>5. QED BY <1>1, <1>2, <1>3, <1>4, Replaced

LEMMA HaltKeeps ==
  ASSUME InterpInv, Halts PROVE Keeps
<1>1. status' = "freed" => acts = <<>>
  BY DEF Halts, InterpInv, ActsInv, ReentryNests
<1>2. QED BY <1>1, Untouched DEF Halts

\* Most instructions leave through DISPATCH or DISPATCH2.
LEMMA Dispatched ==
  ASSUME Running, vm' = vm, status' = status, NEW b, Kept(A, b), Continue(b) PROVE Steps
BY DEF Steps, Continue

\* Constants and loads keep the cache by hand.
LEMMA CachedInstructions ==
  ASSUME InterpInv,
         \/ Nothing \/ PushCached \/ LoadValue
  PROVE  Steps
<1>1. Running BY DEF Nothing, PushCached, LoadValue, At
<1>2. /\ Shaped(A) /\ Coherent(A) /\ A.ofs \in 0 .. OpSlots - 1
  BY <1>1, InnerFacts DEF Shaped
<1>3. vm' = vm /\ status' = status BY DEF Nothing, PushCached, LoadValue
<1>4. CASE Nothing
  <2>1. Continue([A EXCEPT !.pc = A.pc + 1]) BY <1>4 DEF Nothing, Dispatch2
  <2>2. QED BY <1>1, <1>2, <1>3, <2>1, Cached, Dispatched
<1>5. CASE PushCached
  <2>1. PICK v : Continue([A EXCEPT !.pc = A.pc + 2, !.ofs = Slot(A.ofs + 1),
                                    !.opStack[Slot(A.ofs + 1)] = v, !.r0 = v, !.r1 = A.r0])
    BY <1>5 DEF PushCached, Dispatch2
  <2>2. QED BY <1>1, <1>2, <1>3, <2>1, Cached, Dispatched
<1>6. CASE LoadValue
  <2>1. PICK v : Continue([A EXCEPT !.pc = A.pc + 1, !.opStack[A.ofs] = v, !.r0 = v])
    BY <1>6 DEF LoadValue, Dispatch2
  <2>2. QED BY <1>1, <1>2, <1>3, <2>1, Cached, Dispatched
<1>7. QED BY <1>4, <1>5, <1>6

\* The others reload it.
LEMMA ReloadingInstructions ==
  ASSUME InterpInv,
         \/ StoreValue \/ Argument \/ BlockCopy \/ CallFunction \/ PushStale \/ Pop
         \/ Enter \/ Leave \/ Jump \/ Branch \/ Unary \/ Binary
  PROVE  Steps \/ Halts
<1>1. Running
  BY DEF StoreValue, Argument, BlockCopy, CallFunction, PushStale, Pop,
         Enter, Leave, Jump, Branch, Unary, Binary, At
<1>2. /\ Shaped(A) /\ A.ofs \in 0 .. OpSlots - 1
      /\ Slot(A.ofs - 2) \in 0 .. OpSlots - 1 /\ Slot(A.ofs - 1) \in 0 .. OpSlots - 1
      /\ Slot(A.ofs + 1) \in 0 .. OpSlots - 1
  BY <1>1, InnerFacts, SlotsDiffer DEF Shaped
<1>3. ASSUME NEW s \in {"error", "undefined", "trap"}, Halt(s) PROVE Halts
  BY <1>3 DEF Halt, Halts
<1>4. ASSUME vm' = vm, status' = status, NEW b, Kept(A, Reloaded(b)), Dispatch(b) PROVE Steps
  BY <1>1, <1>4 DEF Steps, Dispatch, Continue
<1>5. CASE StoreValue \/ Argument
  <2>1. PICK pc : \/ Dispatch([A EXCEPT !.pc = pc, !.ofs = Slot(A.ofs - 2)])
                  \/ Dispatch([A EXCEPT !.pc = pc, !.ofs = Slot(A.ofs - 1)])
    BY <1>5 DEF StoreValue, Argument
  <2>2. vm' = vm /\ status' = status BY <1>5 DEF StoreValue, Argument
  <2>3. QED BY <1>2, <1>4, <2>1, <2>2, Moves
<1>6. CASE BlockCopy
  <2>1. CASE Dispatch([A EXCEPT !.pc = A.pc + 2, !.ofs = Slot(A.ofs - 2)])
             /\ vm' = vm /\ status' = status
    BY <1>2, <1>4, <2>1, Moves
  <2>2. CASE Halt("error") \/ Halt("undefined") BY <1>3, <2>2
  <2>3. QED BY <1>6, <2>1, <2>2 DEF BlockCopy
<1>7. CASE CallFunction
  <2>1. PICK pc : Dispatch([[A EXCEPT !.ofs = Slot(A.ofs - 1)] EXCEPT !.pc = pc])
    BY <1>7 DEF CallFunction, Called
  <2>2. vm' = vm /\ status' = status BY <1>7 DEF CallFunction
  <2>3. QED BY <1>2, <1>4, <2>1, <2>2, Moves
<1>8. CASE PushStale \/ Pop
  <2>1. \/ Dispatch([A EXCEPT !.pc = A.pc + 1, !.ofs = Slot(A.ofs + 1)])
        \/ Dispatch([A EXCEPT !.pc = A.pc + 1, !.ofs = Slot(A.ofs - 1)])
    BY <1>8 DEF PushStale, Pop
  <2>2. vm' = vm /\ status' = status BY <1>8 DEF PushStale, Pop
  <2>3. QED BY <1>2, <1>4, <2>1, <2>2, Moves
<1>9. CASE Enter
  <2>1. CASE Dispatch([A EXCEPT !.pc = A.pc + 2, !.ps = A.ps - R2])
             /\ vm' = vm /\ status' = status
    BY <1>2, <1>4, <2>1, Moves
  <2>2. CASE Halt("undefined") BY <1>3, <2>2
  <2>3. QED BY <1>9, <2>1, <2>2 DEF Enter
<1>10. CASE Leave
  <2>1. CASE Dispatch([A EXCEPT !.pc = SavedReturn, !.ps = CallerPs])
             /\ vm' = vm /\ status' = status
    BY <1>2, <1>4, <2>1, Moves
  <2>2. CASE Halt("error") BY <1>3, <2>2
  <2>3. QED BY <1>10, <2>1, <2>2 DEF Leave
<1>11. CASE Jump
  <2>1. CASE Dispatch([A EXCEPT !.pc = code.pointers[A.r0], !.ofs = Slot(A.ofs - 1)])
             /\ vm' = vm /\ status' = status
    BY <1>2, <1>4, <2>1, Moves
  <2>2. CASE Halt("error") BY <1>3, <2>2
  <2>3. QED BY <1>11, <2>1, <2>2 DEF Jump
<1>12. CASE Branch
  <2>1. PICK pc : Dispatch([A EXCEPT !.pc = pc, !.ofs = Slot(A.ofs - 2)])
    BY <1>12 DEF Branch
  <2>2. vm' = vm /\ status' = status BY <1>12 DEF Branch
  <2>3. QED BY <1>2, <1>4, <2>1, <2>2, Moves
<1>13. CASE Unary
  <2>1. PICK v : Dispatch([A EXCEPT !.pc = A.pc + 1, !.opStack[A.ofs] = v])
    BY <1>13 DEF Unary
  <2>2. vm' = vm /\ status' = status BY <1>13 DEF Unary
  <2>3. QED BY <1>2, <1>4, <2>1, <2>2, Moves
<1>14. CASE Binary
  <2>1. CASE Halt("trap") BY <1>3, <2>1
  <2>2. CASE ~ Halt("trap")
    <3>1. PICK v : Dispatch([A EXCEPT !.pc = A.pc + 1, !.ofs = Slot(A.ofs - 1),
                                      !.opStack[Slot(A.ofs - 1)] = v])
      BY <1>14, <2>2 DEF Binary
    <3>2. vm' = vm /\ status' = status BY <1>14, <2>2 DEF Binary
    <3>3. QED BY <1>2, <1>4, <3>1, <3>2, Moves
  <2>3. QED BY <2>1, <2>2
<1>15. QED BY <1>5, <1>6, <1>7, <1>8, <1>9, <1>10, <1>11, <1>12, <1>13, <1>14

LEMMA StoppingInstructions ==
  ASSUME FetchError \/ OperandMissing \/ BadInstruction \/ LoadMisaligned
         \/ CallWild \/ CallOutOfRange \/ LeaveWild
  PROVE  Halts
BY DEF FetchError, OperandMissing, BadInstruction, LoadMisaligned, CallWild, CallOutOfRange,
       LeaveWild, Halt, Halts

\* A system call suspends the activation, and its return resumes it.
LEMMA CallSystemKeeps ==
  ASSUME InterpInv, CallSystem PROVE Keeps
<1>1. /\ Running /\ Shaped(A) /\ Level > 0 /\ status = "ok"
      /\ Slot(A.ofs - 1) \in 0 .. OpSlots - 1
  <2>1. Running BY DEF CallSystem, At
  <2>2. QED BY <2>1, InnerFacts, SlotsDiffer DEF Shaped
<1>2. CASE Halt("undefined")
  <2>1. Halts BY <1>2 DEF Halt, Halts
  <2>2. QED BY <2>1, HaltKeeps
<1>3. CASE ~ Halt("undefined")
  <2> DEFINE b == [Called EXCEPT !.pc = A.r0, !.inSyscall = TRUE,
                                 !.stomped = FetchWord(image, A.ps + 4)]
  <2>1. /\ acts' = [acts EXCEPT ![Level] = b] /\ status' = status
        /\ vm' = [vm EXCEPT !.programStack = A.ps - 4]
    BY <1>3 DEF CallSystem, Continue, SuspendedStack
  <2>2. Shaped(b) /\ b.inSyscall /\ b.entry = A.entry /\ b.ps = A.ps
    BY <1>1 DEF Called, Shaped, Fields
  <2>3. /\ VmInv' /\ vm'.callLevel = vm.callLevel /\ vm'.programStack = A.ps - 4
    BY <2>1 DEF InterpInv, VmInv
  <2> HIDE DEF b
  <2>4. QED BY <1>1, <2>1, <2>2, <2>3, Replaced
<1>4. QED BY <1>2, <1>3

LEMMA ReturnKeeps ==
  ASSUME InterpInv, NEW v, NEW w, SystemCallReturns(v, w) PROVE Keeps
<1>1. Level \in 1 .. Len(acts) /\ Level > 0 /\ status = "ok" /\ status' = status /\ vm' = vm
  BY DEF SystemCallReturns, InSyscall, Level, InterpInv, ActsInv
<1>2. Shaped(A) BY <1>1 DEF InterpInv, ActsInv, A
<1>3. Slot(A.ofs + 1) \in 0 .. OpSlots - 1 BY <1>2, SlotsDiffer DEF Shaped
<1>4. PICK pc : acts' = [acts EXCEPT ![Level] =
          Reloaded([A EXCEPT !.inSyscall = FALSE, !.ofs = Slot(A.ofs + 1),
                             !.opStack[Slot(A.ofs + 1)] = v, !.pc = pc])]
  BY DEF SystemCallReturns, Dispatch, Continue
<1> DEFINE b == [A EXCEPT !.inSyscall = FALSE, !.ofs = Slot(A.ofs + 1),
                          !.opStack[Slot(A.ofs + 1)] = v, !.pc = pc]
<1>5. Shaped(b) /\ ~ b.inSyscall /\ b.entry = A.entry BY <1>2, <1>3 DEF Shaped, Fields
<1>6. acts' = [acts EXCEPT ![Level] = Reloaded(b)] BY <1>4
<1> HIDE DEF b
<1>7. Kept(b, Reloaded(b)) BY <1>5, ReloadKeeps
<1>8. /\ Shaped(Reloaded(b)) /\ Coherent(Reloaded(b))
      /\ ~ Reloaded(b).inSyscall /\ Reloaded(b).entry = A.entry
  BY <1>5, <1>7 DEF Kept
<1>9. VmInv' BY <1>1 DEF InterpInv, VmInv
<1>10. QED BY <1>1, <1>6, <1>8, <1>9, Replaced

LEMMA EntryKeeps ==
  ASSUME InterpInv, NEW args, NEW garbage, VM_Call(args, garbage) PROVE Keeps
<1>1. HostMayCall /\ status = "ok" BY DEF VM_Call, HostMayCall
<1>2. CASE Halt("undefined")
  <2>1. Halts BY <1>2 DEF Halt, Halts
  <2>2. QED BY <2>1, HaltKeeps
<1>3. CASE ~ Halt("undefined")
  <2> DEFINE b == Activation(vm.programStack, args[1], garbage)
  <2>1. /\ acts' = Append(acts, b) /\ status' = status
        /\ vm' = [vm EXCEPT !.callLevel = vm.callLevel + 1, !.currentlyInterpreting = 1]
    BY <1>3 DEF VM_Call
  <2>2. Shaped(b) /\ Coherent(b) /\ ~ b.inSyscall /\ b.entry = vm.programStack
    <3> DEFINE e == vm.programStack
               c == args[1]
    <3> HIDE DEF e, c
    <3>1. /\ Shaped(Activation(e, c, garbage))
          /\ Coherent(Activation(e, c, garbage))
          /\ Activation(e, c, garbage).entry = e
          /\ Activation(e, c, garbage).inSyscall = FALSE
          BY Activated
    <3>2. b = Activation(e, c, garbage) BY Zenon DEF e, c
    <3>3. b.entry = e BY <3>1, <3>2
    <3>4. QED BY <3>1, <3>2, <3>3 DEF e
  <2>3. VmInv' /\ vm'.callLevel = vm.callLevel + 1 BY <2>1 DEF InterpInv, VmInv
  <2> HIDE DEF b
  <2>4. QED BY <1>1, <2>1, <2>2, <2>3, Entered
<1>4. QED BY <1>2, <1>3

LEMMA ExitKeeps ==
  ASSUME InterpInv, LeaveVM PROVE Keeps
<1>1. Running /\ Level > 0 /\ status = "ok"
  <2>1. Running BY DEF LeaveVM, At
  <2>2. QED BY <2>1, InnerFacts
<1>2. CASE Halt("error")
  <2>1. Halts BY <1>2 DEF Halt, Halts
  <2>2. QED BY <2>1, HaltKeeps
<1>3. CASE ~ Halt("error")
  <2>1. acts' = SubSeq(acts, 1, Level - 1) /\ vm' = Returned /\ status' = status
    BY <1>3 DEF LeaveVM
  <2>2. QED BY <1>1, <2>1, Dropped
<1>4. QED BY <1>2, <1>3

LEMMA FreeHalts == ASSUME VM_Free PROVE Halts
BY DEF VM_Free, Halt, Halts

-----------------------------------------------------------------------------
LEMMA NextKeeps ==
  ASSUME InterpInv, [Next]_vars PROVE Keeps
<1>1. CASE Instruction
  <2>1. CASE Nothing \/ PushCached \/ LoadValue
    BY <2>1, CachedInstructions, StepKeeps
  <2>2. CASE \/ StoreValue \/ Argument \/ BlockCopy \/ CallFunction \/ PushStale \/ Pop
             \/ Enter \/ Leave \/ Jump \/ Branch \/ Unary \/ Binary
    BY <2>2, ReloadingInstructions, StepKeeps, HaltKeeps
  <2>3. CASE \/ FetchError \/ OperandMissing \/ BadInstruction \/ LoadMisaligned
             \/ CallWild \/ CallOutOfRange \/ LeaveWild
    BY <2>3, StoppingInstructions, HaltKeeps
  <2>4. CASE CallSystem BY <2>4, CallSystemKeeps
  <2>5. CASE LeaveVM BY <2>5, ExitKeeps
  <2>6. QED BY <1>1, <2>1, <2>2, <2>3, <2>4, <2>5 DEF Instruction
<1>2. CASE HostReturns BY <1>2, ReturnKeeps DEF HostReturns
<1>3. CASE HostCalls BY <1>3, EntryKeeps DEF HostCalls
<1>4. CASE VM_Free BY <1>4, FreeHalts, HaltKeeps
<1>5. CASE UNCHANGED vars
  <2>1. UNCHANGED <<acts, vm, status>> BY <1>5 DEF vars
  <2>2. status' = "freed" => acts = <<>> BY <2>1 DEF InterpInv, ReentryNests
  <2>3. QED BY <2>1, <2>2, Untouched
<1>6. QED BY <1>1, <1>2, <1>3, <1>4, <1>5 DEF Next

LEMMA InterpInvHolds == Spec => []InterpInv
<1>1. InterpInv /\ [Next]_vars => InterpInv' BY NextKeeps DEF Keeps
<1>2. QED BY <1>1, InitInterpInv, PTL DEF Spec

(***************************************************************************)
(* Whatever bytecode runs, whatever the host answers and however deep it   *)
(* calls back: between two instructions r0 and r1 of VM_CallInterpreted    *)
(* hold the two topmost slots of the operand stack, the ones that wrapped  *)
(* around included, though three kinds of instructions skip the reload.    *)
(***************************************************************************)
THEOREM CacheIsCoherent == Spec => []CacheCoherent
<1>1. InterpInv => CacheCoherent BY DEF InterpInv, ActsInv, CacheCoherent, Coherent
<1>2. QED BY <1>1, InterpInvHolds, PTL

(***************************************************************************)
(* Re-entry through system calls nests for every bytecode and host: the    *)
(* C activations VM_CallInterpreted is nested in keep their program        *)
(* counter, operand stack and frame until control is back in them, each    *)
(* nested VM_Call starts right below the frame that made it, and VM_Free   *)
(* only succeeds when no activation is left.                               *)
(***************************************************************************)
THEOREM ActivationsNest == Spec => OuterUntouched
<1>1. ASSUME InterpInv, [Next]_vars PROVE OuterStep BY <1>1, NextKeeps DEF Keeps
<1>2. InterpInv /\ [Next]_vars =>
        [ReentryNests' /\ \A k \in 1 .. Len(acts) - 1 : k <= Len(acts') /\ acts'[k] = acts[k]]_vars
  BY <1>1 DEF OuterStep
<1>3. QED BY <1>2, InterpInvHolds, PTL DEF Spec, OuterUntouched

-----------------------------------------------------------------------------
(* Types.                                                                  *)

Slots       == 0 .. OpSlots - 1
Memory      == [0 .. MemSize + 3 -> Byte]
VmRecord    == [programStack : Int, callLevel : Nat, currentlyInterpreting : {0, 1}]
FrameRecord == [level : Nat, ret : Int, ps : Int, base : Slots]
Statuses    == {"ok", "error", "undefined", "trap", "freed"}

(***************************************************************************)
(* The inductive invariant: what is fetched as a return address or as an   *)
(* operand is a word because the memory holds bytes and the code words,    *)
(* and a suspended activation has found the place of its return address.   *)
(***************************************************************************)
TypeInv ==
  /\ prog \in Programs /\ code = Expanded(prog.insns)
  /\ TypeOK
  /\ \A k \in 1 .. Len(acts) : acts[k].inSyscall => Within(image, acts[k].ps, 4)

LEMMA Sizes ==
  /\ MemSize \in Nat \ {0} /\ StackSize \in Nat /\ OpSlots \in Nat /\ OpSlots >= 2
  /\ NArgs \in Nat \ {0} /\ NSysArgs \in Nat \ {0}
BY SizesAssumption

LEMMA SlotIn == ASSUME NEW k \in Int PROVE Slot(k) \in Slots
BY Sizes DEF Slot, Slots

LEMMA CodeFacts ==
  ASSUME TypeInv
  PROVE  /\ code.count = Len(prog.insns) /\ code.count \in Nat
         /\ DOMAIN code.pointers = 0 .. code.count - 1
         /\ \A i \in 0 .. code.count - 1 : code.pointers[i] \in Nat
         /\ \A w \in DOMAIN code.image : code.image[w] \in Word
<1> DEFINE p == prog.insns
           at == WordsBefore(p)
<1>1. p \in Seq(Insn) /\ \A w \in DOMAIN code.image : code.image[w] \in Word
  BY ProgramsAssumption DEF TypeInv
<1>2. Len(p) \in Nat BY <1>1
<1> HIDE DEF p
<1>3. /\ code.count = Len(p) /\ code.pointers = [i \in 0 .. Len(p) - 1 |-> at[i]]
  BY DEF TypeInv, Expanded, Indices, p
<1>4. at \in [0 .. Len(p) -> Nat] BY <1>2, WordsBeforeStep
<1> HIDE DEF at
<1>5. \A i \in 0 .. Len(p) - 1 : i \in 0 .. Len(p) BY <1>2
<1>6. QED BY <1>1, <1>2, <1>3, <1>4, <1>5 DEF p

LEMMA InitTypeInv == Init => TypeInv
<1> SUFFICES ASSUME Init PROVE TypeInv OBVIOUS
<1>1. prog \in Programs /\ code = Expanded(prog.insns) BY DEF Init
<1>2. code.count = Len(prog.insns) /\ DOMAIN code.pointers = 0 .. code.count - 1
  BY <1>1 DEF Expanded, Indices
<1>3. image \in Memory
  <2>1. 0 \in Byte BY ByteSizes DEF Byte
  <2>2. QED BY <2>1 DEF Init, Memory
<1>4. /\ vm \in VmRecord /\ acts = <<>> /\ frames = <<>> /\ status = "ok" /\ result = <<>>
  BY Sizes DEF Init, VmRecord
<1>5. TypeOK BY <1>2, <1>3, <1>4 DEF TypeOK, Memory, VmRecord
<1>6. QED BY <1>1, <1>4, <1>5 DEF TypeInv

LEMMA HaltTyped ==
  ASSUME TypeInv, NEW s \in Statuses, Halt(s) PROVE TypeInv'
BY DEF TypeInv, TypeOK, Halt, Statuses, Within

LEMMA StayTyped ==
  ASSUME TypeInv, UNCHANGED vars PROVE TypeInv'
BY DEF TypeInv, TypeOK, vars, Within

\* The innermost activation becomes b.
LEMMA TypedStep ==
  ASSUME TypeInv, Level > 0, NEW b \in ActivationRecord, acts' = [acts EXCEPT ![Level] = b],
         b.inSyscall => Within(image, b.ps, 4),
         UNCHANGED <<prog, code, status, result>>,
         image' \in Memory, vm' \in VmRecord, frames' \in Seq(FrameRecord)
  PROVE  TypeInv'
<1> DEFINE n == Len(acts)
<1>1. acts \in Seq(ActivationRecord) /\ n \in Nat \ {0} /\ Level = n
  BY DEF TypeInv, TypeOK, Level
<1>2. acts' \in Seq(ActivationRecord) /\ Len(acts') = n
      /\ \A k \in 1 .. n : acts'[k] = IF k = n THEN b ELSE acts[k]
  BY <1>1
<1>3. image \in Memory BY DEF TypeInv, TypeOK, Memory
<1>4. DOMAIN image' = DOMAIN image BY <1>3 DEF Memory
<1>5. \A k \in 1 .. n : acts'[k].inSyscall => Within(image', acts'[k].ps, 4)
  <2> SUFFICES ASSUME NEW k \in 1 .. n, acts'[k].inSyscall PROVE Within(image', acts'[k].ps, 4)
    OBVIOUS
  <2>1. CASE k = n BY <1>2, <1>4, <2>1 DEF Within
  <2>2. CASE k # n BY <1>2, <1>4, <2>2 DEF TypeInv, Within
  <2>3. QED BY <2>1, <2>2
<1>6. TypeOK' BY <1>2 DEF TypeInv, TypeOK, Memory, VmRecord, FrameRecord, Slots
<1>7. QED BY <1>2, <1>5, <1>6 DEF TypeInv

LEMMA ReloadTyped ==
  ASSUME NEW a \in ActivationRecord
  PROVE  Reloaded(a) \in ActivationRecord /\ Reloaded(a).inSyscall = a.inSyscall
         /\ Reloaded(a).ps = a.ps
<1>1. a.ofs - 1 \in Int /\ a.opStack \in [Slots -> Word] /\ a.ofs \in Slots
  BY Sizes DEF ActivationRecord, Slots
<1>2. Slot(a.ofs - 1) \in Slots BY <1>1, SlotIn
<1>3. a.opStack[a.ofs] \in Word /\ a.opStack[Slot(a.ofs - 1)] \in Word BY <1>1, <1>2
<1>4. QED BY <1>3 DEF Reloaded, ActivationRecord

\* What instructions do to the activation.
LEMMA MovesTyped ==
  ASSUME NEW a \in ActivationRecord, NEW pc \in Int, NEW ps \in Int, NEW n \in Slots,
         NEW v \in Word, NEW s \in Slots
  PROVE  /\ [a EXCEPT !.pc = pc] \in ActivationRecord
         /\ [a EXCEPT !.pc = pc, !.ps = ps] \in ActivationRecord
         /\ [a EXCEPT !.pc = pc, !.ofs = n] \in ActivationRecord
         /\ [a EXCEPT !.pc = pc, !.opStack[s] = v] \in ActivationRecord
         /\ [a EXCEPT !.pc = pc, !.ofs = n, !.opStack[s] = v] \in ActivationRecord
         /\ [[a EXCEPT !.ofs = n] EXCEPT !.pc = pc] \in ActivationRecord
         /\ [a EXCEPT !.pc = pc, !.opStack[s] = v, !.r0 = v] \in ActivationRecord
         /\ [a EXCEPT !.pc = pc, !.ofs = n, !.opStack[s] = v, !.r0 = v, !.r1 = a.r0]
               \in ActivationRecord
         /\ [a EXCEPT !.inSyscall = FALSE, !.ofs = n, !.opStack[s] = v, !.pc = pc]
               \in ActivationRecord
         /\ [[a EXCEPT !.ofs = n] EXCEPT !.pc = pc, !.inSyscall = TRUE, !.stomped = v]
               \in ActivationRecord
<1>1. [a.opStack EXCEPT ![s] = v] \in [Slots -> Word] BY DEF ActivationRecord, Slots
<1> HIDE DEF Slots
<1>2. QED BY <1>1 DEF ActivationRecord, Slots

LEMMA RunningTyped ==
  ASSUME TypeInv, Running
  PROVE  /\ A \in ActivationRecord /\ A.ofs \in Slots /\ A.ofs \in Int
         /\ A.r0 \in Word /\ A.r1 \in Word /\ A.pc \in Int /\ A.ps \in Int
         /\ A.r0 \in Int /\ A.r1 \in Int
         /\ A.opStack \in [Slots -> Word]
         /\ ~ A.inSyscall /\ Level > 0
<1>1. acts \in Seq(ActivationRecord) /\ Level > 0 /\ ~ A.inSyscall
  BY DEF TypeInv, TypeOK, Running
<1>2. A \in ActivationRecord BY <1>1 DEF A, Level
<1>3. Word \subseteq Int BY WordSizes DEF Word
<1>4. Slots \subseteq Int BY Sizes DEF Slots
<1>5. QED BY <1>1, <1>2, <1>3, <1>4 DEF ActivationRecord, Slots

LEMMA OperandTyped ==
  ASSUME TypeInv, Running, NEW ops, At(ops), ops \subseteq HasOperand
  PROVE  R2 \in Word /\ R2 \in Int
<1>1. A.pc + 1 \in DOMAIN code.image BY DEF At
<1>2. R2 \in Word BY <1>1, CodeFacts DEF R2
<1>3. QED BY <1>2, WordSizes DEF Word

\* An instruction that goes on, through DISPATCH or DISPATCH2.
LEMMA GoesOn ==
  ASSUME TypeInv, Running, NEW b \in ActivationRecord, ~ b.inSyscall,
         Dispatch(b) \/ Dispatch2(b),
         UNCHANGED <<prog, code, vm, status, result>>,
         image' \in Memory, frames' \in Seq(FrameRecord)
  PROVE  TypeInv'
<1>1. Level > 0 /\ vm' \in VmRecord BY DEF Running, TypeInv, TypeOK, VmRecord
<1>2. PICK c \in ActivationRecord : ~ c.inSyscall /\ acts' = [acts EXCEPT ![Level] = c]
  BY ReloadTyped DEF Dispatch, Dispatch2, Continue
<1>3. QED BY <1>1, <1>2, TypedStep

LEMMA Unmoved ==
  ASSUME TypeInv PROVE image \in Memory /\ frames \in Seq(FrameRecord) /\ Memory = [0 .. MemSize + 3 -> Byte]
BY DEF TypeInv, TypeOK, Memory, FrameRecord, Slots

LEMMA PutTyped ==
  ASSUME TypeInv, NEW a \in Int, NEW n \in Nat, NEW x \in Int
  PROVE  Put(image, a, n, x) \in Memory
<1>1. 0 .. MemSize + 3 \subseteq Int BY Sizes
<1>2. QED BY <1>1, Unmoved, PutIsMemory

\* Instructions that only compute.
LEMMA ComputingTyped ==
  ASSUME TypeInv, \/ Nothing \/ PushCached \/ LoadValue \/ PushStale \/ Pop
                  \/ Jump \/ Branch \/ Unary \/ Binary
  PROVE  TypeInv'
<1>1. Running
  BY DEF Nothing, PushCached, LoadValue, PushStale, Pop, Jump, Branch, Unary, Binary, At
<1>2. /\ A \in ActivationRecord /\ A.ofs \in Slots /\ A.ofs \in Int
      /\ A.r0 \in Word /\ A.r1 \in Word /\ A.pc \in Int /\ A.ps \in Int
      /\ A.opStack \in [Slots -> Word] /\ ~ A.inSyscall
  BY <1>1, RunningTyped
<1>3. /\ A.pc + 1 \in Int /\ A.pc + 2 \in Int /\ Slot(A.ofs + 1) \in Slots
      /\ Slot(A.ofs - 1) \in Slots /\ Slot(A.ofs - 2) \in Slots
  BY <1>2, SlotIn
<1>4. image \in Memory /\ frames \in Seq(FrameRecord) BY Unmoved
<1>5. ASSUME NEW b \in ActivationRecord, ~ b.inSyscall, Dispatch(b) \/ Dispatch2(b),
             UNCHANGED <<prog, code, image, vm, frames, status, result>>
      PROVE  TypeInv'
  BY <1>1, <1>4, <1>5, GoesOn
<1>6. CASE Nothing
  <2> DEFINE b == [A EXCEPT !.pc = A.pc + 1]
  <2>1. b \in ActivationRecord /\ ~ b.inSyscall BY <1>2, <1>3 DEF ActivationRecord
  <2>2. Dispatch2(b) /\ UNCHANGED <<prog, code, image, vm, frames, status, result>>
    BY <1>6 DEF Nothing
  <2> HIDE DEF b
  <2>3. QED BY <1>5, <2>1, <2>2
<1>7. CASE PushCached
  <2> DEFINE v == IF Opcode = "CONST" THEN R2 ELSE Signed(R2 + A.ps)
             n == Slot(A.ofs + 1)
             b == [A EXCEPT !.pc = A.pc + 2, !.ofs = n, !.opStack[n] = v, !.r0 = v, !.r1 = A.r0]
  <2>1. At({"CONST", "LOCAL"}) BY <1>7 DEF PushCached
  <2>2. {"CONST", "LOCAL"} \subseteq HasOperand BY DEF HasOperand, HasI4Operand
  <2>3. R2 \in Word /\ R2 \in Int BY <1>1, <2>1, <2>2, OperandTyped
  <2>4. R2 + A.ps \in Int BY <1>2, <2>3
  <2>5. v \in Word BY <2>3, <2>4, SignedIsWord
  <2>6. Dispatch2(b) /\ UNCHANGED <<prog, code, image, vm, frames, status, result>>
    BY <1>7 DEF PushCached
  <2> HIDE DEF v
  <2>7. b \in ActivationRecord BY <1>2, <1>3, <2>5, MovesTyped
  <2>8. ~ b.inSyscall BY <1>2 DEF ActivationRecord
  <2> HIDE DEF b
  <2>9. QED BY <1>5, <2>6, <2>7, <2>8
<1>8. CASE LoadValue
  <2> DEFINE a == Masked(A.r0)
             v == CASE Opcode = "LOAD4" -> FetchWord(image, a)
                    [] Opcode = "LOAD2" -> Fetch2(image, a)
                    [] Opcode = "LOAD1" -> Fetch1(image, a)
             b == [A EXCEPT !.pc = A.pc + 1, !.opStack[A.ofs] = v, !.r0 = v]
  <2>1. A.r0 \in Int BY <1>1, RunningTyped
  <2>2. a \in 0 .. MemSize - 1 BY <2>1, Sizes DEF Masked
  <2>3. {a, a + 1, a + 2, a + 3} \subseteq 0 .. MemSize + 3 /\ a \in Int BY <2>2, Sizes
  <2>4. Opcode \in Load BY <1>8 DEF LoadValue, At
  <2>5. Dispatch2(b) /\ UNCHANGED <<prog, code, image, vm, frames, status, result>>
    BY <1>8 DEF LoadValue
  <2>6. v \in Word
    <3> HIDE DEF a
    <3>1. Fetch1(image, a) \in Word /\ Fetch2(image, a) \in Word /\ FetchWord(image, a) \in Word
      BY <1>4, <2>3, FetchIsWord DEF Memory
    <3>2. QED BY <2>4, <3>1 DEF Load
  <2> HIDE DEF v
  <2>7. b \in ActivationRecord BY <1>2, <1>3, <2>6, MovesTyped
  <2>8. ~ b.inSyscall BY <1>2 DEF ActivationRecord
  <2> HIDE DEF b
  <2>9. QED BY <1>5, <2>5, <2>7, <2>8
<1>9. CASE PushStale \/ Pop \/ Branch
  <2>1. PICK pc \in Int, n \in Slots :
          /\ Dispatch([A EXCEPT !.pc = pc, !.ofs = n])
          /\ UNCHANGED <<prog, code, image, vm, frames, status, result>>
    <3>1. CASE PushStale BY <1>3, <3>1 DEF PushStale
    <3>2. CASE Pop BY <1>3, <3>2 DEF Pop
    <3>3. CASE Branch
      <4>1. At(CondBranch) BY <3>3 DEF Branch
      <4>2. CondBranch \subseteq HasOperand BY DEF HasOperand, HasI4Operand
      <4>3. R2 \in Int BY <1>1, <4>1, <4>2, OperandTyped
      <4>4. PICK taken : Dispatch([A EXCEPT !.pc = IF taken THEN R2 ELSE A.pc + 2,
                                            !.ofs = Slot(A.ofs - 2)])
        BY <3>3 DEF Branch
      <4>5. QED BY <1>3, <3>3, <4>3, <4>4 DEF Branch
    <3>4. QED BY <1>9, <3>1, <3>2, <3>3
  <2> DEFINE b == [A EXCEPT !.pc = pc, !.ofs = n]
  <2>2. b \in ActivationRecord BY <1>2, <2>1, MovesTyped
  <2>3. ~ b.inSyscall BY <1>2 DEF ActivationRecord
  <2> HIDE DEF b
  <2>4. Dispatch(b) BY <2>1 DEF b
  <2>5. QED BY <1>5, <2>1, <2>2, <2>3, <2>4
<1>10. CASE Jump
  <2>1. CASE A.r0 \in 0 .. code.count - 1
    <3> DEFINE b == [A EXCEPT !.pc = code.pointers[A.r0], !.ofs = Slot(A.ofs - 1)]
    <3>1. code.pointers[A.r0] \in Int BY <2>1, CodeFacts
    <3>2. b \in ActivationRecord BY <1>2, <1>3, <3>1, MovesTyped
    <3>3. ~ b.inSyscall BY <1>2 DEF ActivationRecord
    <3>4. Dispatch(b) /\ UNCHANGED <<prog, code, image, vm, frames, status, result>>
      BY <1>10, <2>1 DEF Jump
    <3> HIDE DEF b
    <3>5. QED BY <1>5, <3>2, <3>3, <3>4
  <2>2. CASE ~ (A.r0 \in 0 .. code.count - 1)
    <3>1. Halt("error") BY <1>10, <2>2 DEF Jump
    <3>2. QED BY <3>1, HaltTyped DEF Statuses
  <2>3. QED BY <2>1, <2>2
<1>11. CASE Unary
  <2> DEFINE x == IF Opcode \in {"NEGI", "BCOM"} THEN A.r0 ELSE First
             v == UnaryResult(Opcode, x)
             b == [A EXCEPT !.pc = A.pc + 1, !.opStack[A.ofs] = v]
  <2>1. x \in Word BY <1>2 DEF First
  <2>2. Opcode \in IntUnary \cup FloatUnary BY <1>11 DEF Unary, At
  <2>3. Dispatch(b) /\ UNCHANGED <<prog, code, image, vm, frames, status, result>>
    BY <1>11 DEF Unary
  <2> HIDE DEF x
  <2>4. v \in Word BY <2>1, <2>2, UnaryResultIsWord
  <2> HIDE DEF v
  <2>5. b \in ActivationRecord BY <1>2, <1>3, <2>4, MovesTyped
  <2>6. ~ b.inSyscall BY <1>2 DEF ActivationRecord
  <2> HIDE DEF b
  <2>7. QED BY <1>5, <2>3, <2>5, <2>6
<1>12. CASE Binary
  <2> DEFINE x == IF Opcode \in FloatBinary THEN Second ELSE A.r1
             y == IF Opcode \in FloatBinary THEN First ELSE A.r0
             n == Slot(A.ofs - 1)
             v == BinaryResult(Opcode, x, y)
             b == [A EXCEPT !.pc = A.pc + 1, !.ofs = n, !.opStack[n] = v]
  <2>1. x \in Word /\ y \in Word BY <1>2, <1>3 DEF First, Second
  <2>2. Opcode \in IntBinary \cup FloatBinary BY <1>12 DEF Binary, At
  <2>3. \/ Halt("trap") /\ Traps(Opcode, x, y)
        \/ /\ ~ Traps(Opcode, x, y)
           /\ Dispatch(b) /\ UNCHANGED <<prog, code, image, vm, frames, status, result>>
    BY <1>12 DEF Binary
  <2> HIDE DEF x, y
  <2>4. CASE Halt("trap") BY <2>4, HaltTyped DEF Statuses
  <2>5. CASE ~ Traps(Opcode, x, y) /\ Dispatch(b)
             /\ UNCHANGED <<prog, code, image, vm, frames, status, result>>
    <3>1. v \in Word BY <2>1, <2>2, <2>5, BinaryResultIsWord
    <3> HIDE DEF v
    <3>2. b \in ActivationRecord BY <1>2, <1>3, <3>1, MovesTyped
    <3>3. ~ b.inSyscall BY <1>2 DEF ActivationRecord
    <3> HIDE DEF b
    <3>4. QED BY <1>5, <2>5, <3>2, <3>3
  <2>6. QED BY <2>3, <2>4, <2>5
<1>13. QED BY <1>6, <1>7, <1>8, <1>9, <1>10, <1>11, <1>12

\* Instructions that write into guest memory.
LEMMA StoringTyped ==
  ASSUME TypeInv, StoreValue \/ Argument \/ BlockCopy \/ Enter
  PROVE  TypeInv'
<1>1. Running BY DEF StoreValue, Argument, BlockCopy, Enter, At
<1>2. /\ A \in ActivationRecord /\ A.ofs \in Slots /\ A.ofs \in Int /\ A.pc + 2 \in Int
      /\ A.r0 \in Int /\ A.r1 \in Int /\ A.pc \in Int /\ A.ps \in Int /\ ~ A.inSyscall
      /\ A.r0 \in Word
  BY <1>1, RunningTyped
<1>3. Slot(A.ofs - 1) \in Slots /\ Slot(A.ofs - 2) \in Slots BY <1>2, SlotIn
<1>4. frames \in Seq(FrameRecord) /\ image \in Memory BY Unmoved
<1>5. ASSUME NEW b \in ActivationRecord, ~ b.inSyscall, Dispatch(b), image' \in Memory,
             UNCHANGED <<prog, code, vm, frames, status, result>>
      PROVE  TypeInv'
  BY <1>1, <1>4, <1>5, GoesOn
<1>6. ASSUME NEW pc \in Int, NEW n \in Slots, Dispatch([A EXCEPT !.pc = pc, !.ofs = n]),
             image' \in Memory, UNCHANGED <<prog, code, vm, frames, status, result>>
      PROVE  TypeInv'
  <2> DEFINE b == [A EXCEPT !.pc = pc, !.ofs = n]
  <2>1. b \in ActivationRecord BY <1>2, <1>6, MovesTyped
  <2>2. ~ b.inSyscall BY <1>2 DEF ActivationRecord
  <2> HIDE DEF b
  <2>3. Dispatch(b) BY <1>6 DEF b
  <2>4. QED BY <1>5, <1>6, <2>1, <2>2, <2>3
<1>7. ASSUME At({"ARG", "BLOCK_COPY", "ENTER"}) PROVE R2 \in Int
  <2>1. {"ARG", "BLOCK_COPY", "ENTER"} \subseteq HasOperand BY DEF HasOperand, HasI4Operand
  <2>2. QED BY <1>1, <1>7, <2>1, OperandTyped
<1>8. \A x \in Int : Masked(x) \in Int BY Sizes DEF Masked
<1>9. CASE StoreValue
  <2>1. StoreBytes[Opcode] \in Nat BY <1>9 DEF StoreValue, At, Store, StoreBytes
  <2>2. Masked(A.r1) \in Int BY <1>2, <1>8
  <2>3. image' = Put(image, Masked(A.r1), StoreBytes[Opcode], A.r0) BY <1>9 DEF StoreValue
  <2>4. image' \in Memory BY <1>2, <2>1, <2>2, <2>3, PutTyped
  <2>5. /\ Dispatch([A EXCEPT !.pc = A.pc + 1, !.ofs = Slot(A.ofs - 2)])
        /\ UNCHANGED <<prog, code, vm, frames, status, result>>
    BY <1>9 DEF StoreValue
  <2>6. A.pc + 1 \in Int BY <1>2
  <2>7. QED BY <1>3, <1>6, <2>4, <2>5, <2>6
<1>10. CASE Argument
  <2>1. At({"ARG"}) BY <1>10 DEF Argument
  <2>2. R2 \in Int BY <1>7, <2>1 DEF At
  <2>3. R2 + A.ps \in Int BY <1>2, <2>2
  <2>4. Masked(R2 + A.ps) \in Int BY <1>8, <2>3
  <2>5. image' = Put(image, Masked(R2 + A.ps), 4, A.r0) BY <1>10 DEF Argument
  <2>6. image' \in Memory BY <1>2, <2>4, <2>5, PutTyped
  <2>7. /\ Dispatch([A EXCEPT !.pc = A.pc + 2, !.ofs = Slot(A.ofs - 1)])
        /\ UNCHANGED <<prog, code, vm, frames, status, result>>
    BY <1>10 DEF Argument
  <2>8. QED BY <1>2, <1>3, <1>6, <2>6, <2>7
<1>11. CASE BlockCopy
  <2>1. At({"BLOCK_COPY"}) BY <1>11 DEF BlockCopy
  <2>2. R2 \in Int BY <1>7, <2>1 DEF At
  <2>3. CASE Halt("error") \/ Halt("undefined") BY <2>3, HaltTyped DEF Statuses
  <2>4. CASE ~ (Halt("error") \/ Halt("undefined"))
    <3>1. /\ CopyInRange(A.r1, A.r0, R2) /\ image' = Copied(image, A.r1, A.r0, R2)
          /\ Dispatch([A EXCEPT !.pc = A.pc + 2, !.ofs = Slot(A.ofs - 2)])
          /\ UNCHANGED <<prog, code, vm, frames, status, result>>
      BY <1>11, <2>4 DEF BlockCopy
    <3>2. \A b \in A.r1 .. A.r1 + R2 - 1 : A.r0 + b - A.r1 \in 0 .. MemSize + 3
      BY <1>2, <2>2, <3>1, Sizes DEF CopyInRange
    <3>3. image' \in Memory BY <1>4, <3>1, <3>2 DEF Copied, Memory
    <3>4. QED BY <1>2, <1>3, <1>6, <3>1, <3>3
  <2>5. QED BY <2>3, <2>4
<1>12. CASE Enter
  <2>1. At({"ENTER"}) BY <1>12 DEF Enter
  <2>2. R2 \in Int BY <1>7, <2>1 DEF At
  <2>3. CASE Halt("undefined") BY <2>3, HaltTyped DEF Statuses
  <2>4. CASE ~ Halt("undefined")
    <3> DEFINE b == [A EXCEPT !.pc = A.pc + 2, !.ps = A.ps - R2]
    <3>1. /\ image' = Put(image, FrameNote, 4, A.ps) /\ Dispatch(b)
          /\ UNCHANGED <<prog, code, vm, frames, status, result>>
      BY <1>12, <2>4 DEF Enter
    <3>2. FrameNote \in Int /\ A.ps - R2 \in Int BY <1>2, <2>2 DEF FrameNote
    <3>3. image' \in Memory BY <1>2, <3>1, <3>2, PutTyped
    <3>4. b \in ActivationRecord BY <1>2, <3>2, MovesTyped
    <3>5. ~ b.inSyscall BY <1>2 DEF ActivationRecord
    <3> HIDE DEF b
    <3>6. QED BY <1>5, <3>1, <3>3, <3>4, <3>5
  <2>5. QED BY <2>3, <2>4
<1>13. QED BY <1>9, <1>10, <1>11, <1>12

\* The history of calls, cut off behind one of them.
LEMMA Shortened ==
  ASSUME TypeInv, NEW S \in SUBSET DOMAIN frames
  PROVE  FramesUpTo(S) \in Seq(FrameRecord)
<1>1. frames \in Seq(FrameRecord) BY Unmoved
<1> DEFINE n == Len(frames)
           T == {0} \cup S
<1>2. n \in Nat /\ T \subseteq 0 .. n /\ T # {} BY <1>1
<1> HIDE DEF T
<1>3. Max(T) \in 0 .. n BY <1>2, Greatest
<1>4. SubSeq(frames, 1, Max(T)) \in Seq(FrameRecord) BY <1>1, <1>3
<1>5. QED BY <1>4 DEF FramesUpTo, T

\* Calls and returns.
LEMMA CallingTyped ==
  ASSUME TypeInv, CallFunction \/ CallSystem \/ Leave
  PROVE  TypeInv'
<1>1. Running BY DEF CallFunction, CallSystem, Leave, At
<1>2. /\ A \in ActivationRecord /\ A.ofs \in Slots /\ A.ofs \in Int
      /\ A.r0 \in Int /\ A.r0 \in Word /\ A.pc \in Int /\ A.ps \in Int /\ ~ A.inSyscall
      /\ Level > 0
      /\ A.pc + 1 \in Int /\ A.ps + 4 \in Int
  BY <1>1, RunningTyped
<1>3. Slot(A.ofs - 1) \in Slots BY <1>2, SlotIn
<1>4. frames \in Seq(FrameRecord) /\ image \in Memory BY Unmoved
<1>5. Called \in ActivationRecord /\ Called.ofs \in Slots /\ Called.ps = A.ps /\ ~ Called.inSyscall
  BY <1>2, <1>3 DEF Called, ActivationRecord, Slots
<1>6. SavedPc(image) \in Memory BY <1>2, PutTyped DEF SavedPc
<1>7. CASE CallFunction
  <2> DEFINE b == [Called EXCEPT !.pc = code.pointers[A.r0]]
             f == [level |-> Level, ret |-> A.pc + 1, ps |-> A.ps, base |-> Called.ofs]
  <2>1. /\ A.r0 \in 0 .. code.count - 1 /\ image' = SavedPc(image) /\ Dispatch(b)
        /\ frames' = Append(Pending, f) /\ UNCHANGED <<prog, code, vm, status, result>>
    BY <1>7 DEF CallFunction
  <2>2. code.pointers[A.r0] \in Int BY <2>1, CodeFacts
  <2>3. b \in ActivationRecord /\ ~ b.inSyscall BY <1>5, <2>2 DEF ActivationRecord
  <2>4. f \in FrameRecord BY <1>2, <1>5 DEF FrameRecord, TypeInv, TypeOK, Level
  <2>5. Pending \in Seq(FrameRecord) BY Shortened DEF Pending, Outer
  <2> HIDE DEF b, f
  <2>6. frames' \in Seq(FrameRecord) BY <2>1, <2>4, <2>5
  <2>7. QED BY <1>1, <1>6, <2>1, <2>3, <2>6, GoesOn
<1>8. CASE CallSystem
  <2>1. CASE Halt("undefined") BY <2>1, HaltTyped DEF Statuses
  <2>2. CASE ~ Halt("undefined")
    <3> DEFINE v == FetchWord(image, A.ps + 4)
               b == [Called EXCEPT !.pc = A.r0, !.inSyscall = TRUE, !.stomped = v]
               m == SavedPc(image)
    <3>1. /\ Within(image, A.ps, 4) /\ Within(image, A.ps + 4, 4 * NSysArgs)
          /\ image' = Put(m, A.ps + 4, 4, -1 - A.r0)
          /\ vm' = [vm EXCEPT !.programStack = A.ps - 4]
          /\ acts' = [acts EXCEPT ![Level] = b] /\ UNCHANGED <<prog, code, frames, status, result>>
      BY <1>8, <2>2 DEF CallSystem, ReturnWordInside, SuspendedStack, Continue
    <3>2. A.ps + 4 \in DOMAIN image
          /\ {(A.ps + 4) + 1, (A.ps + 4) + 2, (A.ps + 4) + 3} \subseteq DOMAIN image
      <4>1. 4 * NSysArgs >= 4 /\ 4 * NSysArgs \in Nat BY Sizes
      <4>2. QED BY <1>2, <3>1, <4>1 DEF Within
    <3>3. DOMAIN image = 0 .. MemSize + 3 BY <1>4 DEF Memory
    <3>4. v \in Word BY <1>2, <1>4, <3>2, <3>3, FetchIsWord DEF Memory
    <3> HIDE DEF v, m
    <3>5. b \in ActivationRecord BY <1>2, <1>5, <3>4 DEF ActivationRecord
    <3>6. b.ps = A.ps BY <1>5 DEF ActivationRecord
    <3> HIDE DEF b
    <3>7. vm' \in VmRecord
      <4>1. vm \in VmRecord /\ A.ps - 4 \in Int BY <1>2 DEF TypeInv, TypeOK, VmRecord
      <4>2. QED BY <3>1, <4>1 DEF VmRecord
    <3>8. image' \in Memory
      <4>1. m \in Memory /\ -1 - A.r0 \in Int /\ 0 .. MemSize + 3 \subseteq Int
        BY <1>2, <1>6, Sizes DEF m
      <4>2. QED BY <1>2, <3>1, <4>1, PutIsMemory DEF Memory
    <3>9. QED BY <1>2, <1>4, <3>1, <3>5, <3>6, <3>7, <3>8, TypedStep
  <2>3. QED BY <2>1, <2>2
<1>9. CASE Leave
  <2>1. CASE Halt("error") BY <2>1, HaltTyped DEF Statuses
  <2>2. CASE ~ Halt("error")
    <3> DEFINE b == [A EXCEPT !.pc = SavedReturn, !.ps = CallerPs]
    <3>1. /\ At({"LEAVE"}) /\ SavedReturn \in 0 .. code.length - 1 /\ Dispatch(b)
          /\ frames' \in {frames, SubSeq(frames, 1, Len(frames) - 1)}
          /\ frames' # frames => frames # <<>>
          /\ UNCHANGED <<prog, code, image, vm, status, result>>
      BY <1>9, <2>2 DEF Leave
    <3>2. {"LEAVE"} \subseteq HasOperand BY DEF HasOperand, HasI4Operand
    <3>3. R2 \in Int BY <1>1, <3>1, <3>2, OperandTyped
    <3>4. SavedReturn \in Int /\ CallerPs \in Int BY <1>2, <3>1, <3>3 DEF CallerPs
    <3>5. b \in ActivationRecord BY <1>2, <3>4, MovesTyped
    <3>6. ~ b.inSyscall BY <1>2 DEF ActivationRecord
    <3>7. frames' \in Seq(FrameRecord) BY <1>4, <3>1
    <3> HIDE DEF b
    <3>8. QED BY <1>1, <1>4, <3>1, <3>5, <3>6, <3>7, GoesOn
  <2>3. QED BY <2>1, <2>2
<1>10. QED BY <1>7, <1>8, <1>9

\* The host.
LEMMA ResumedTyped ==
  ASSUME TypeInv, NEW v \in HostReplies, NEW w \in HostWrites, SystemCallReturns(v, w)
  PROVE  TypeInv'
<1>1. /\ acts \in Seq(ActivationRecord) /\ Level > 0 /\ A.inSyscall /\ Level = Len(acts)
  BY DEF TypeInv, TypeOK, SystemCallReturns, InSyscall, Level
<1>2. A \in ActivationRecord /\ Within(image, A.ps, 4)
  BY <1>1 DEF A, TypeInv
<1>3. A.ofs \in Int /\ A.ps \in Int /\ A.ps + 4 \in Int /\ A.stomped \in Int
  <2>1. Word \subseteq Int BY WordSizes DEF Word
  <2>2. /\ A.ofs \in 0 .. OpSlots - 1 /\ A.ps \in Int /\ A.stomped \in Word
    BY <1>2 DEF ActivationRecord
  <2>3. A.ofs \in Int /\ A.ps \in Int /\ A.ps + 4 \in Int BY <2>2, Sizes
  <2>4. A.stomped \in Int BY <2>1, <2>2
  <2>5. QED BY <2>3, <2>4
<1>4. image \in Memory /\ frames \in Seq(FrameRecord) /\ Memory = [0 .. MemSize + 3 -> Byte]
  BY Unmoved
<1> DEFINE m0 == Overwritten(image, w)
           m == Restored(m0)
           n == Slot(A.ofs + 1)
           pc == FetchWord(m, A.ps)
           b == [A EXCEPT !.inSyscall = FALSE, !.ofs = n, !.opStack[n] = v, !.pc = pc]
<1>5. /\ image' = m /\ Dispatch(b) /\ UNCHANGED <<prog, code, vm, frames, status, result>>
  BY DEF SystemCallReturns
<1>6. m0 \in Memory BY <1>4, HostAssumption DEF Overwritten
<1>7. m \in Memory
  <2>1. 0 .. MemSize + 3 \subseteq Int BY Sizes
  <2> HIDE DEF m0
  <2>2. QED BY <1>3, <1>4, <1>6, <2>1, PutIsMemory DEF Restored
<1>8. v \in Word BY HostAssumption
<1>9. n \in Slots BY <1>3, SlotIn
<1>10. pc \in Int
  <2> HIDE DEF m
  <2>1. A.ps \in DOMAIN image /\ {A.ps + 1, A.ps + 2, A.ps + 3} \subseteq DOMAIN image
    BY <1>2, <1>3 DEF Within
  <2>2. DOMAIN image = 0 .. MemSize + 3 BY <1>4
  <2>3. FetchWord(m, A.ps) \in Word BY <1>3, <1>4, <1>7, <2>1, <2>2, FetchIsWord
  <2>4. QED BY <2>3, WordSizes DEF Word
<1> HIDE DEF m, n, pc
<1>11. b \in ActivationRecord BY <1>2, <1>8, <1>9, <1>10, MovesTyped
<1>12. ~ b.inSyscall BY <1>2 DEF ActivationRecord
<1> HIDE DEF b
<1>13. PICK c \in ActivationRecord : ~ c.inSyscall /\ acts' = [acts EXCEPT ![Level] = c]
  BY <1>5, <1>11, <1>12, ReloadTyped DEF Dispatch, Continue
<1>14. vm' \in VmRecord BY <1>5 DEF TypeInv, TypeOK, VmRecord
<1>15. QED BY <1>1, <1>4, <1>5, <1>7, <1>13, <1>14, TypedStep

LEMMA EnteredTyped ==
  ASSUME TypeInv, NEW args \in HostArgs, NEW garbage \in Garbage, VM_Call(args, garbage)
  PROVE  TypeInv'
<1>1. CASE Halt("undefined") BY <1>1, HaltTyped DEF Statuses
<1>2. CASE ~ Halt("undefined")
  <2> DEFINE e == vm.programStack
             c == args[1]
             o == [k \in 0 .. OpSlots - 1 |-> IF k = 0 THEN Sentinel ELSE garbage]
             a == [command |-> c, pc |-> 0, ps |-> e - FrameBytes, entry |-> e, opStack |-> o,
                   ofs |-> 0, r0 |-> 0, r1 |-> 0, inSyscall |-> FALSE, stomped |-> 0]
             b == Activation(e, c, garbage)
  <2>1. /\ image' = PutWords(image, b.ps, NArgs + 2, <<-1, 0>> \o args)
        /\ acts' = Append(acts, b)
        /\ vm' = [vm EXCEPT !.callLevel = vm.callLevel + 1, !.currentlyInterpreting = 1]
        /\ UNCHANGED <<prog, code, frames, status, result>>
    BY <1>2 DEF VM_Call
  <2>2. args \in [1 .. NArgs -> Word] /\ garbage \in Word /\ NArgs \in Nat \ {0}
    BY HostAssumption, Sizes
  <2>3. c \in Word /\ 0 \in Word /\ Word \subseteq Int
    <3>1. HalfMod \in Nat \ {0} BY WordSizes
    <3>2. QED BY <2>2, <3>1 DEF Word
  <2>4. Sentinel \in Word BY SignedIsWord DEF Sentinel
  <2>5. o \in [0 .. OpSlots - 1 -> Word] BY <2>2, <2>4
  <2>6. e \in Int /\ e - FrameBytes \in Int /\ 0 \in 0 .. OpSlots - 1
    BY Sizes DEF TypeInv, TypeOK, FrameBytes
  <2>7. b = Reloaded(a) BY DEF Activation
  <2> HIDE DEF b, c, e, o
  <2>8. a \in ActivationRecord /\ a.ps = e - FrameBytes /\ ~ a.inSyscall
    BY <2>3, <2>5, <2>6 DEF ActivationRecord
  <2> HIDE DEF a
  <2>9. b \in ActivationRecord /\ b.ps \in Int /\ ~ b.inSyscall BY <2>6, <2>7, <2>8, ReloadTyped
  <2>10. image' \in Memory
    <3> DEFINE ws == <<-1, 0>> \o args
               n == NArgs + 2
    <3>1. args \in Seq(Word) /\ Len(args) = NArgs BY <2>2
    <3>2. ws \in Seq(Int) /\ Len(ws) = NArgs + 2
      <4>1. args \in Seq(Int)
        <5>1. \A k \in 1 .. Len(args) : args[k] \in Int BY <2>2, <2>3, <3>1
        <5>2. args = [k \in 1 .. Len(args) |-> args[k]] BY <2>2, <3>1
        <5>3. QED BY <3>1, <5>1, <5>2
      <4>2. QED BY <2>2, <3>1, <4>1
    <3>3. \A j \in 1 .. n : ws[j] \in Int BY <3>2
    <3>4. n \in Nat /\ 0 .. MemSize + 3 \subseteq Int BY <2>2, Sizes
    <3>5. image \in [0 .. MemSize + 3 -> Byte] BY Unmoved
    <3>6. image' = PutWords(image, b.ps, n, ws) BY <2>1
    <3> HIDE DEF ws, n
    <3>7. QED BY <2>9, <3>3, <3>4, <3>5, <3>6, PutWordsIsMemory DEF Memory
  <2>11. acts \in Seq(ActivationRecord) /\ vm \in VmRecord /\ image \in Memory
    BY DEF TypeInv, TypeOK, Memory, VmRecord
  <2>12. vm' \in VmRecord
    <3>1. vm.callLevel + 1 \in Nat BY <2>11 DEF VmRecord
    <3>2. QED BY <2>1, <2>11, <3>1 DEF VmRecord
  <2>13. /\ acts' \in Seq(ActivationRecord) /\ Len(acts') = Len(acts) + 1
         /\ \A k \in 1 .. Len(acts') : acts'[k] = IF k = Len(acts) + 1 THEN b ELSE acts[k]
    BY <2>1, <2>9, <2>11
  <2>14. \A k \in 1 .. Len(acts') : acts'[k].inSyscall => Within(image', acts'[k].ps, 4)
    <3> SUFFICES ASSUME NEW k \in 1 .. Len(acts'), acts'[k].inSyscall
                 PROVE  Within(image', acts'[k].ps, 4)
      OBVIOUS
    <3>1. k # Len(acts) + 1 BY <2>9, <2>13
    <3>2. k \in 1 .. Len(acts) /\ acts'[k] = acts[k] BY <2>11, <2>13, <3>1
    <3>3. DOMAIN image' = DOMAIN image BY <2>10, <2>11 DEF Memory
    <3>4. QED BY <3>2, <3>3 DEF TypeInv, Within
  <2>15. TypeOK' BY <2>1, <2>10, <2>12, <2>13 DEF TypeInv, TypeOK, Memory, VmRecord
  <2>16. QED BY <2>1, <2>14, <2>15 DEF TypeInv
<1>3. QED BY <1>1, <1>2

\* callLevel stays a number because it counts the activations.
LEMMA LeftTyped ==
  ASSUME TypeInv, InterpInv, LeaveVM PROVE TypeInv'
<1>1. CASE Halt("error") BY <1>1, HaltTyped DEF Statuses
<1>2. CASE ~ Halt("error")
  <2>1. Running BY DEF LeaveVM, At
  <2>2. /\ A \in ActivationRecord /\ A.ofs \in Slots /\ A.opStack \in [Slots -> Word] /\ Level > 0
    BY <2>1, RunningTyped
  <2>3. /\ acts' = SubSeq(acts, 1, Level - 1) /\ vm' = Returned
        /\ frames' = FramesUpTo(Outer) /\ result' = <<A.command, A.opStack[A.ofs]>>
        /\ UNCHANGED <<prog, code, image, status>>
    BY <1>2 DEF LeaveVM
  <2>4. acts \in Seq(ActivationRecord) /\ Level = Len(acts) /\ vm \in VmRecord
    BY DEF TypeInv, TypeOK, VmRecord, Level
  <2>5. vm' \in VmRecord
    <3>1. vm.callLevel = Len(acts) BY DEF InterpInv, ReentryNests
    <3>2. vm.callLevel - 1 \in Nat /\ A.entry \in Int
      BY <2>2, <2>4, <3>1 DEF ActivationRecord
    <3>3. QED BY <2>3, <3>2 DEF Returned, VmRecord
  <2>6. /\ acts' \in Seq(ActivationRecord) /\ Len(acts') = Len(acts) - 1
        /\ \A k \in 1 .. Len(acts') : k \in 1 .. Len(acts) /\ acts'[k] = acts[k]
    BY <2>2, <2>3, <2>4
  <2>7. frames' \in Seq(FrameRecord) BY <2>3, Shortened DEF Outer
  <2>8. result' \in Word \X Word BY <2>2, <2>3 DEF ActivationRecord
  <2>9. TypeOK' BY <2>3, <2>5, <2>6, <2>7, <2>8 DEF TypeInv, TypeOK, VmRecord, FrameRecord, Slots
  <2>10. \A k \in 1 .. Len(acts') : acts'[k].inSyscall => Within(image', acts'[k].ps, 4)
    BY <2>3, <2>6 DEF TypeInv, Within
  <2>11. QED BY <2>3, <2>9, <2>10 DEF TypeInv
<1>3. QED BY <1>1, <1>2

LEMMA NextTyped ==
  ASSUME TypeInv, InterpInv, [Next]_vars PROVE TypeInv'
<1>1. CASE Instruction
  <2>1. CASE \/ Nothing \/ PushCached \/ LoadValue \/ PushStale \/ Pop
             \/ Jump \/ Branch \/ Unary \/ Binary
    BY <2>1, ComputingTyped
  <2>2. CASE StoreValue \/ Argument \/ BlockCopy \/ Enter BY <2>2, StoringTyped
  <2>3. CASE CallFunction \/ CallSystem \/ Leave BY <2>3, CallingTyped
  <2>4. CASE LeaveVM BY <2>4, LeftTyped
  <2>5. CASE FetchError \/ OperandMissing \/ BadInstruction \/ LoadMisaligned
             \/ CallWild \/ CallOutOfRange \/ LeaveWild
    <3>1. Halt("error") \/ Halt("undefined")
      BY <2>5 DEF FetchError, OperandMissing, BadInstruction, LoadMisaligned, CallWild,
                  CallOutOfRange, LeaveWild
    <3>2. QED BY <3>1, HaltTyped DEF Statuses
  <2>6. QED BY <1>1, <2>1, <2>2, <2>3, <2>4, <2>5 DEF Instruction
<1>2. CASE HostReturns BY <1>2, ResumedTyped DEF HostReturns
<1>3. CASE HostCalls BY <1>3, EnteredTyped DEF HostCalls
<1>4. CASE VM_Free BY <1>4, HaltTyped DEF VM_Free, Statuses
<1>5. CASE UNCHANGED vars BY <1>5, StayTyped
<1>6. QED BY <1>1, <1>2, <1>3, <1>4, <1>5 DEF Next

(***************************************************************************)
(* For every bytecode, compiled or not, and every host: registers, operand *)
(* stack, memory and results of VM_CallInterpreted stay what their C types *)
(* say -- in particular every value computed, fetched or answered is a     *)
(* word, opStackOfs never leaves the operand stack, no store changes the   *)
(* size of guest memory and callLevel never drops below zero.              *)
(***************************************************************************)
THEOREM TypesHold == Spec => []TypeOK
<1>1. TypeInv /\ InterpInv /\ [Next]_vars => TypeInv' BY NextTyped
<1>2. TypeInv => TypeOK BY DEF TypeInv
<1>3. QED BY <1>1, <1>2, InitTypeInv, InterpInvHolds, PTL DEF Spec

-----------------------------------------------------------------------------
(* The invariant, for a program p, a memory m, pending calls fs and        *)
(* activations cs.                                                         *)

\* Instruction i begins at this word.
Place(p, i) == Expanded(p.insns).pointers[i]

\* Two words, and one word, at address a are inside the memory.
Roomy(a) == a \in 0 .. MemSize - 4
Inside4(a) == a \in 0 .. MemSize

Noted(m, a) == FetchWord(m, a + 4)

\* Where VM_Call put the sentinel of activation k.
Begin(cs, k) == cs[k].entry - FrameBytes

\* The caller's frame and operands when n calls are pending and the last of
\* them may be one of activation k.
Below(fs, cs, k, n) == IF n > 0 /\ fs[n].level = k THEN fs[n].ps ELSE Begin(cs, k)
BaseOf(fs, k, n)    == IF n > 0 /\ fs[n].level = k THEN fs[n].base ELSE 0

\* The two words at a lie below all that the outer frames own.
Under(fs, cs, a, k, n) ==
  /\ \A i \in 1 .. k : a + 8 <= Begin(cs, i)
  /\ \A i \in 1 .. k - 1 : a + 8 <= cs[i].ps
  /\ \A j \in 1 .. n : a + 8 <= fs[j].ps

\* A call is to return to ret, with its operands above base and its frame at ps.
Waits(p, fs, cs, ret, ps, base, k, n) ==
  \E e, i \in Indices(p.insns) :
    /\ InFunction(p.insns, e, i) /\ Op(p.insns, i) = "CALL" /\ ret = Place(p, i + 1)
    /\ ps = Below(fs, cs, k, n) - Arg(p.insns, e)
    /\ base + 1 = BaseOf(fs, k, n) + p.depth[i] /\ base + 1 <= OpSlots - 1

FrameRight(p, m, fs, cs, j) ==
  LET f == fs[j]
  IN  /\ f.level \in 1 .. Len(cs) /\ \A i \in 1 .. j : fs[i].level <= f.level
      /\ Roomy(f.ps) /\ Under(fs, cs, f.ps, f.level, j - 1)
      /\ FetchWord(m, f.ps) = f.ret
      /\ Noted(m, f.ps) = Below(fs, cs, f.level, j - 1)
      /\ Waits(p, fs, cs, f.ret, f.ps, f.base, f.level, j - 1)

\* Activation k waits for a system call.
Suspended(p, m, fs, cs, k, n) ==
  LET a == cs[k]
  IN  /\ Roomy(a.ps) /\ Under(fs, cs, a.ps, k, n)
      /\ Noted(m, a.ps) = -1 - a.pc
      /\ a.stomped = Below(fs, cs, k, n)
      /\ Waits(p, fs, cs, FetchWord(m, a.ps), a.ps, a.ofs, k, n)

\* Activation k is at instruction i of the function at e.
RunsAt(p, m, fs, cs, k, n, e, i) ==
  LET a == cs[k]
  IN  /\ InFunction(p.insns, e, i) /\ a.pc = Place(p, i)
      /\ a.ofs = BaseOf(fs, k, n) + p.depth[i]
      /\ IF Op(p.insns, i) = "ENTER" THEN a.ps = Below(fs, cs, k, n)
         ELSE /\ a.ps = Below(fs, cs, k, n) - Arg(p.insns, e)
              /\ Under(fs, cs, a.ps, k, n) /\ Inside4(a.ps + 4)
              /\ Noted(m, a.ps) = Below(fs, cs, k, n)

\* The first n of the pending calls are those of activations up to k.
Cut(fs, k, n) ==
  /\ \A j \in 1 .. n : fs[j].level <= k
  /\ \A j \in n + 1 .. Len(fs) : k < fs[j].level

Active(p, m, fs, cs, k, n) ==
  IF cs[k].inSyscall THEN Suspended(p, m, fs, cs, k, n)
  ELSE \E e, i \in Indices(p.insns) : RunsAt(p, m, fs, cs, k, n, e, i)

ActRight(p, m, fs, cs, k) ==
  /\ Roomy(Begin(cs, k)) /\ FetchWord(m, Begin(cs, k)) = -1
  /\ \A n \in 0 .. Len(fs) : Cut(fs, k, n) => Active(p, m, fs, cs, k, n)

AllRight(p, m, fs, cs) ==
  /\ \A j \in 1 .. Len(fs) : FrameRight(p, m, fs, cs, j)
  /\ \A k \in 1 .. Len(cs) : ActRight(p, m, fs, cs, k)

(***************************************************************************)
(* The inductive invariant: the frames of all pending calls and all        *)
(* activations lie one below the other; each holds the return address and  *)
(* the note of its caller; and every activation is at an instruction of    *)
(* the function whose frame it has, with the operands the annotation says. *)
(***************************************************************************)
CompiledInv == status = "ok" => AllRight(prog, image, frames, acts)

-----------------------------------------------------------------------------
(* Memory.                                                                 *)

\* The two words at a are the same in both memories.
SameAt(m, m2, a) == FetchWord(m2, a) = FetchWord(m, a) /\ Noted(m2, a) = Noted(m, a)

LEMMA BytesSame ==
  ASSUME NEW m, NEW m2, NEW a \in Int, \A b \in a .. a + 7 : m2[b] = m[b]
  PROVE  SameAt(m, m2, a)
<1>1. \A b \in a .. a + 3 : m2[b] = m[b] OBVIOUS
<1>2. \A b \in a + 4 .. (a + 4) + 3 : m2[b] = m[b] OBVIOUS
<1>3. a + 4 \in Int OBVIOUS
<1>4. FetchWord(m2, a) = FetchWord(m, a) BY <1>1, SameFetch
<1>5. FetchWord(m2, a + 4) = FetchWord(m, a + 4) BY <1>2, <1>3, SameFetch
<1>6. QED BY <1>4, <1>5 DEF SameAt, Noted

\* All that the calls own, but for the frame of the innermost activation.
SameOwned(m, m2, fs, cs) ==
  /\ \A j \in 1 .. Len(fs) : SameAt(m, m2, fs[j].ps)
  /\ \A k \in 1 .. Len(cs) : SameAt(m, m2, Begin(cs, k))
  /\ \A k \in 1 .. Len(cs) - 1 : SameAt(m, m2, cs[k].ps)

-----------------------------------------------------------------------------
(* Frames and activations that a step leaves alone stay right.             *)

LEMMA UnderCarried ==
  ASSUME NEW fs, NEW cs, NEW fs2, NEW cs2, NEW a, NEW k \in Nat, NEW n \in Nat,
         Under(fs, cs, a, k, n),
         \A i \in 1 .. k : cs2[i].entry = cs[i].entry,
         \A i \in 1 .. k - 1 : cs2[i].ps = cs[i].ps,
         \A j \in 1 .. n : fs2[j] = fs[j]
  PROVE  Under(fs2, cs2, a, k, n)
BY DEF Under, Begin

LEMMA WaitsCarried ==
  ASSUME NEW p, NEW fs, NEW cs, NEW fs2, NEW cs2, NEW ret, NEW ps, NEW base,
         NEW k \in Nat, NEW n \in Nat, Waits(p, fs, cs, ret, ps, base, k, n),
         cs2[k].entry = cs[k].entry, n > 0 => fs2[n] = fs[n]
  PROVE  Waits(p, fs2, cs2, ret, ps, base, k, n)
<1>1. Below(fs2, cs2, k, n) = Below(fs, cs, k, n) /\ BaseOf(fs2, k, n) = BaseOf(fs, k, n)
  BY DEF Below, BaseOf, Begin
<1>2. QED BY <1>1 DEF Waits

LEMMA FrameCarried ==
  ASSUME NEW p, NEW m, NEW fs, NEW cs, NEW m2, NEW fs2, NEW cs2, NEW j \in Nat \ {0},
         FrameRight(p, m, fs, cs, j), SameAt(m, m2, fs[j].ps),
         Len(cs2) \in Nat, Len(cs) \in Nat, fs[j].level \in 1 .. Len(cs2),
         \A i \in 1 .. fs[j].level : cs2[i].entry = cs[i].entry,
         \A i \in 1 .. fs[j].level - 1 : cs2[i].ps = cs[i].ps,
         \A i \in 1 .. j : fs2[i] = fs[i]
  PROVE  FrameRight(p, m2, fs2, cs2, j)
<1> DEFINE f == fs[j]
           k == f.level
           n == j - 1
<1>1. fs2[j] = f
  <2>1. j \in 1 .. j OBVIOUS
  <2>2. QED BY <2>1, Zenon
<1>2. n \in Nat /\ k \in Nat /\ k \in 1 .. Len(cs2) /\ k \in 1 .. k OBVIOUS
<1>3. \A i \in 1 .. n : fs2[i] = fs[i] OBVIOUS
<1>4. /\ \A i \in 1 .. j : fs[i].level <= k
      /\ Roomy(f.ps) /\ Under(fs, cs, f.ps, k, n)
      /\ FetchWord(m, f.ps) = f.ret /\ Noted(m, f.ps) = Below(fs, cs, k, n)
      /\ Waits(p, fs, cs, f.ret, f.ps, f.base, k, n)
  BY DEF FrameRight
<1>5. cs2[k].entry = cs[k].entry /\ (n > 0 => fs2[n] = fs[n])
  <2>1. n > 0 => n \in 1 .. n BY <1>2
  <2>2. QED BY <1>2, <1>3, <2>1
<1> HIDE DEF f, k, n
<1>6. Under(fs2, cs2, f.ps, k, n) BY <1>2, <1>3, <1>4, UnderCarried DEF k, f
<1>7. Waits(p, fs2, cs2, f.ret, f.ps, f.base, k, n) BY <1>2, <1>4, <1>5, WaitsCarried
<1>8. Below(fs2, cs2, k, n) = Below(fs, cs, k, n) BY <1>5 DEF Below, Begin
<1>9. FetchWord(m2, f.ps) = f.ret /\ Noted(m2, f.ps) = Below(fs2, cs2, k, n)
  BY <1>4, <1>8 DEF SameAt, f
<1>10. \A i \in 1 .. j : fs2[i].level <= k BY <1>4
<1>11. QED BY <1>1, <1>2, <1>4, <1>6, <1>7, <1>9, <1>10 DEF FrameRight, k, n

LEMMA SuspendedCarried ==
  ASSUME NEW p, NEW m, NEW fs, NEW cs, NEW m2, NEW fs2, NEW cs2, NEW k \in Nat \ {0},
         NEW n \in Nat, Suspended(p, m, fs, cs, k, n), SameAt(m, m2, cs[k].ps),
         \A i \in 1 .. k : cs2[i] = cs[i], \A j \in 1 .. n : fs2[j] = fs[j]
  PROVE  Suspended(p, m2, fs2, cs2, k, n)
<1>0. k \in 1 .. k /\ (n > 0 => n \in 1 .. n) /\ 1 .. k - 1 \subseteq 1 .. k OBVIOUS
<1>1. cs2[k] = cs[k] /\ (n > 0 => fs2[n] = fs[n]) BY <1>0
<1>2. Under(fs2, cs2, cs[k].ps, k, n)
  <2>1. Under(fs, cs, cs[k].ps, k, n) BY DEF Suspended
  <2> DEFINE a == cs[k].ps
  <2> HIDE DEF a
  <2>2. Under(fs, cs, a, k, n) BY <2>1 DEF a
  <2>3. /\ \A i \in 1 .. k : cs2[i].entry = cs[i].entry
        /\ \A i \in 1 .. k - 1 : cs2[i].ps = cs[i].ps
    BY <1>0
  <2>4. Under(fs2, cs2, a, k, n) BY <2>2, <2>3, UnderCarried
  <2>5. QED BY <2>4 DEF a
<1>3. Waits(p, fs2, cs2, FetchWord(m2, cs[k].ps), cs[k].ps, cs[k].ofs, k, n)
  <2> DEFINE r == FetchWord(m, cs[k].ps)
             a == cs[k].ps
             o == cs[k].ofs
  <2>1. Waits(p, fs, cs, r, a, o, k, n) BY DEF Suspended
  <2>2. FetchWord(m2, a) = r BY DEF SameAt
  <2> HIDE DEF r, a, o
  <2>3. Waits(p, fs2, cs2, r, a, o, k, n) BY <1>1, <2>1, WaitsCarried
  <2>4. QED BY <2>2, <2>3 DEF a, o
<1>4. Below(fs2, cs2, k, n) = Below(fs, cs, k, n) BY <1>1 DEF Below, Begin
<1>5. QED BY <1>1, <1>2, <1>3, <1>4 DEF Suspended, SameAt

\* An activation that is not the innermost one.
LEMMA OuterCarried ==
  ASSUME NEW p, NEW m, NEW fs, NEW cs, NEW m2, NEW fs2, NEW cs2, NEW k \in Nat \ {0},
         ActRight(p, m, fs, cs, k), cs[k].inSyscall,
         SameAt(m, m2, cs[k].ps), SameAt(m, m2, Begin(cs, k)),
         \A i \in 1 .. k : cs2[i] = cs[i],
         \A n \in 0 .. Len(fs2) :
           Cut(fs2, k, n) => n \in 0 .. Len(fs) /\ Cut(fs, k, n) /\ \A j \in 1 .. n : fs2[j] = fs[j]
  PROVE  ActRight(p, m2, fs2, cs2, k)
<1>0. k \in 1 .. k OBVIOUS
<1>1. cs2[k] = cs[k] BY <1>0
<1>2. Begin(cs2, k) = Begin(cs, k) BY <1>1 DEF Begin
<1>3. Roomy(Begin(cs2, k)) /\ FetchWord(m2, Begin(cs2, k)) = -1
  BY <1>2 DEF ActRight, SameAt
<1>4. ASSUME NEW n \in 0 .. Len(fs2), Cut(fs2, k, n) PROVE Active(p, m2, fs2, cs2, k, n)
  <2>1. n \in 0 .. Len(fs) /\ n \in Nat /\ Cut(fs, k, n) /\ \A j \in 1 .. n : fs2[j] = fs[j]
    BY <1>4
  <2>2. Suspended(p, m, fs, cs, k, n) BY <2>1 DEF ActRight, Active
  <2>3. Suspended(p, m2, fs2, cs2, k, n) BY <2>1, <2>2, SuspendedCarried
  <2>4. QED BY <1>1, <2>3 DEF Active
<1>5. QED BY <1>3, <1>4 DEF ActRight

-----------------------------------------------------------------------------
(* What a step may do to the pending calls and the activations.            *)

\* The calls and activations of a state that is right.
Nested(p, m, fs, cs) ==
  /\ fs \in Seq(FrameRecord) /\ cs \in Seq(ActivationRecord)
  /\ \A k \in 1 .. Len(cs) - 1 : cs[k].inSyscall
  /\ AllRight(p, m, fs, cs)

LEMMA NestedFacts ==
  ASSUME NEW p, NEW m, NEW fs, NEW cs, Nested(p, m, fs, cs)
  PROVE  /\ Len(fs) \in Nat /\ Len(cs) \in Nat
         /\ \A j \in 1 .. Len(fs) : /\ fs[j] \in FrameRecord /\ fs[j].level \in 1 .. Len(cs)
                                    /\ fs[j].level \in Nat /\ fs[j].ps \in Int
         /\ \A k \in 1 .. Len(cs) : cs[k] \in ActivationRecord /\ cs[k].ps \in Int
                                    /\ cs[k].entry \in Int /\ Begin(cs, k) \in Int
         /\ \A n \in 0 .. Len(fs) : Cut(fs, Len(cs), n) => n = Len(fs)
         /\ Cut(fs, Len(cs), Len(fs))
<1>1. fs \in Seq(FrameRecord) /\ cs \in Seq(ActivationRecord) /\ Len(fs) \in Nat /\ Len(cs) \in Nat
  BY DEF Nested
<1>2. \A j \in 1 .. Len(fs) : fs[j] \in FrameRecord /\ fs[j].level \in 1 .. Len(cs)
  BY <1>1 DEF Nested, AllRight, FrameRight
<1>3. \A j \in 1 .. Len(fs) : fs[j].level \in Nat /\ fs[j].ps \in Int BY <1>2 DEF FrameRecord
<1>4. \A k \in 1 .. Len(cs) : cs[k] \in ActivationRecord /\ cs[k].ps \in Int /\ cs[k].entry \in Int
  <2>1. ASSUME NEW k \in 1 .. Len(cs)
        PROVE  cs[k] \in ActivationRecord /\ cs[k].ps \in Int /\ cs[k].entry \in Int
    <3>1. cs[k] \in ActivationRecord BY <1>1
    <3>2. QED BY <3>1 DEF ActivationRecord
  <2>2. QED BY <2>1
<1>5. \A k \in 1 .. Len(cs) : Begin(cs, k) \in Int BY <1>4, Sizes DEF Begin, FrameBytes
<1>6. ASSUME NEW n \in 0 .. Len(fs), Cut(fs, Len(cs), n) PROVE n = Len(fs)
  <2>1. CASE n < Len(fs)
    <3>1. n + 1 \in 1 .. Len(fs) /\ n + 1 \in n + 1 .. Len(fs) BY <1>1, <2>1
    <3>2. Len(cs) < fs[n + 1].level BY <1>6, <3>1 DEF Cut
    <3>3. QED BY <1>1, <1>2, <1>3, <3>1, <3>2
  <2>2. QED BY <1>1, <2>1
<1>7. Cut(fs, Len(cs), Len(fs)) BY <1>1, <1>2 DEF Cut
<1>8. QED BY <1>1, <1>2, <1>3, <1>4, <1>5, <1>6, <1>7

\* The innermost activation becomes b.
LEMMA TopChanged ==
  ASSUME NEW p, NEW m, NEW fs, NEW cs, Nested(p, m, fs, cs), Len(cs) > 0,
         NEW m2, SameOwned(m, m2, fs, cs),
         NEW b, b.entry = cs[Len(cs)].entry, NEW cs2, cs2 = [cs EXCEPT ![Len(cs)] = b],
         Active(p, m2, fs, cs2, Len(cs), Len(fs))
  PROVE  AllRight(p, m2, fs, cs2)
<1> DEFINE L == Len(cs)
           N == Len(fs)
<1>1. L \in Nat /\ N \in Nat /\ L \in 1 .. L BY NestedFacts
<1>2. /\ Len(cs2) = L /\ \A i \in 1 .. L - 1 : cs2[i] = cs[i]
      /\ cs2[L] = b
  BY <1>1 DEF Nested
<1>3. \A i \in 1 .. L : cs2[i].entry = cs[i].entry BY <1>1, <1>2
<1>4. AllRight(p, m, fs, cs) BY DEF Nested
<1> HIDE DEF L, N
<1>5. ASSUME NEW j \in 1 .. N PROVE FrameRight(p, m2, fs, cs2, j)
  <2>1. j \in Nat \ {0} /\ fs[j].level \in 1 .. L BY <1>1, NestedFacts DEF L, N
  <2>2. FrameRight(p, m, fs, cs, j) /\ SameAt(m, m2, fs[j].ps) BY <1>4 DEF AllRight, SameOwned, N
  <2>3. /\ \A i \in 1 .. fs[j].level : cs2[i].entry = cs[i].entry
        /\ \A i \in 1 .. fs[j].level - 1 : cs2[i].ps = cs[i].ps
    BY <1>1, <1>2, <1>3, <2>1
  <2>4. QED BY <1>1, <1>2, <2>1, <2>2, <2>3, FrameCarried DEF L
<1>6. ASSUME NEW k \in 1 .. L - 1 PROVE ActRight(p, m2, fs, cs2, k)
  <2>1. k \in Nat \ {0} /\ k \in 1 .. L /\ \A i \in 1 .. k : i \in 1 .. L - 1 BY <1>1
  <2>2. /\ ActRight(p, m, fs, cs, k) /\ SameAt(m, m2, cs[k].ps) /\ SameAt(m, m2, Begin(cs, k))
        /\ cs[k].inSyscall
    BY <1>4, <2>1 DEF AllRight, SameOwned, L, Nested
  <2>3. \A i \in 1 .. k : cs2[i] = cs[i] BY <1>2, <2>1
  <2>4. QED BY <2>1, <2>2, <2>3, OuterCarried
<1>7. ActRight(p, m2, fs, cs2, L)
  <2>1. Begin(cs2, L) = Begin(cs, L) BY <1>1, <1>3 DEF Begin
  <2>2. ActRight(p, m, fs, cs, L) /\ SameAt(m, m2, Begin(cs, L))
    BY <1>1, <1>4 DEF AllRight, SameOwned, L
  <2>3. Roomy(Begin(cs2, L)) /\ FetchWord(m2, Begin(cs2, L)) = -1 BY <2>1, <2>2 DEF ActRight, SameAt
  <2>4. \A n \in 0 .. Len(fs) : Cut(fs, L, n) => Active(p, m2, fs, cs2, L, n)
    BY NestedFacts DEF L
  <2>5. QED BY <2>3, <2>4 DEF ActRight
<1>8. \A k \in 1 .. Len(cs2) : ActRight(p, m2, fs, cs2, k)
  <2>1. \A k \in 1 .. L : k \in 1 .. L - 1 \/ k = L BY <1>1
  <2>2. QED BY <1>2, <1>6, <1>7, <2>1
<1>9. QED BY <1>5, <1>8 DEF AllRight, N

\* A call of the innermost activation.
LEMMA CallPushed ==
  ASSUME NEW p, NEW m, NEW fs, NEW cs, Nested(p, m, fs, cs), Len(cs) > 0,
         NEW m2, SameOwned(m, m2, fs, cs),
         NEW b, b.entry = cs[Len(cs)].entry, NEW cs2, cs2 = [cs EXCEPT ![Len(cs)] = b],
         NEW f, f.level = Len(cs), NEW fs2, fs2 = Append(fs, f),
         FrameRight(p, m2, fs2, cs2, Len(fs) + 1), Active(p, m2, fs2, cs2, Len(cs), Len(fs) + 1)
  PROVE  AllRight(p, m2, fs2, cs2)
<1> DEFINE L == Len(cs)
           N == Len(fs)
<1>1. L \in Nat /\ N \in Nat /\ L \in 1 .. L BY NestedFacts
<1>2. /\ Len(cs2) = L /\ \A i \in 1 .. L - 1 : cs2[i] = cs[i]
      /\ cs2[L] = b
  BY <1>1 DEF Nested
<1>3. \A i \in 1 .. L : cs2[i].entry = cs[i].entry BY <1>1, <1>2
<1>4. AllRight(p, m, fs, cs) BY DEF Nested
<1>5. /\ Len(fs2) = N + 1 /\ \A i \in 1 .. N : fs2[i] = fs[i]
      /\ fs2[N + 1] = f
  BY <1>1 DEF Nested
<1> HIDE DEF L, N
<1>6. ASSUME NEW j \in 1 .. N PROVE FrameRight(p, m2, fs2, cs2, j)
  <2>1. j \in Nat \ {0} /\ fs[j].level \in 1 .. L BY <1>1, NestedFacts DEF L, N
  <2>2. FrameRight(p, m, fs, cs, j) /\ SameAt(m, m2, fs[j].ps) BY <1>4 DEF AllRight, SameOwned, N
  <2>3. /\ \A i \in 1 .. fs[j].level : cs2[i].entry = cs[i].entry
        /\ \A i \in 1 .. fs[j].level - 1 : cs2[i].ps = cs[i].ps
        /\ \A i \in 1 .. j : fs2[i] = fs[i]
    BY <1>1, <1>2, <1>3, <1>5, <2>1
  <2>4. QED BY <1>1, <1>2, <2>1, <2>2, <2>3, FrameCarried DEF L
<1>7. ASSUME NEW k \in 1 .. L - 1 PROVE ActRight(p, m2, fs2, cs2, k)
  <2>1. k \in Nat \ {0} /\ k \in 1 .. L /\ \A i \in 1 .. k : i \in 1 .. L - 1 BY <1>1
  <2>2. /\ ActRight(p, m, fs, cs, k) /\ SameAt(m, m2, cs[k].ps) /\ SameAt(m, m2, Begin(cs, k))
        /\ cs[k].inSyscall
    BY <1>4, <2>1 DEF AllRight, SameOwned, L, Nested
  <2>3. \A i \in 1 .. k : cs2[i] = cs[i] BY <1>2, <2>1
  <2>4. ASSUME NEW n \in 0 .. Len(fs2), Cut(fs2, k, n)
        PROVE  n \in 0 .. Len(fs) /\ Cut(fs, k, n) /\ \A j \in 1 .. n : fs2[j] = fs[j]
    <3>1. n # N + 1
      <4>1. ASSUME n = N + 1 PROVE FALSE
        <5>1. N + 1 \in 1 .. n BY <1>1, <4>1
        <5>2. fs2[N + 1].level <= k BY <2>4, <5>1 DEF Cut
        <5>3. fs2[N + 1].level = L BY <1>5 DEF L
        <5>4. QED BY <1>1, <5>2, <5>3
      <4>2. QED BY <4>1
    <3>2. n \in 0 .. N BY <1>1, <1>5, <2>4, <3>1
    <3>3. /\ \A j \in 1 .. n : fs2[j] = fs[j]
          /\ \A j \in n + 1 .. N : j \in n + 1 .. Len(fs2) /\ fs2[j] = fs[j]
      BY <1>1, <1>5, <3>2
    <3>4. Cut(fs, k, n) BY <2>4, <3>3 DEF Cut, N
    <3>5. QED BY <3>2, <3>3, <3>4 DEF N
  <2>5. QED BY <2>1, <2>2, <2>3, <2>4, OuterCarried
<1>8. ActRight(p, m2, fs2, cs2, L)
  <2>1. Begin(cs2, L) = Begin(cs, L) BY <1>1, <1>3 DEF Begin
  <2>2. ActRight(p, m, fs, cs, L) /\ SameAt(m, m2, Begin(cs, L))
    BY <1>1, <1>4 DEF AllRight, SameOwned, L
  <2>3. Roomy(Begin(cs2, L)) /\ FetchWord(m2, Begin(cs2, L)) = -1 BY <2>1, <2>2 DEF ActRight, SameAt
  <2>4. ASSUME NEW n \in 0 .. Len(fs2), Cut(fs2, L, n) PROVE Active(p, m2, fs2, cs2, L, n)
    <3>1. CASE n = N + 1 BY <3>1 DEF N, L
    <3>2. CASE n # N + 1
      <4>1. N + 1 \in n + 1 .. Len(fs2) BY <1>1, <1>5, <3>2
      <4>2. L < fs2[N + 1].level BY <2>4, <4>1 DEF Cut
      <4>3. QED BY <1>1, <1>5, <4>2 DEF L
    <3>3. QED BY <3>1, <3>2
  <2>5. QED BY <2>3, <2>4 DEF ActRight
<1>9. \A k \in 1 .. Len(cs2) : ActRight(p, m2, fs2, cs2, k)
  <2>1. \A k \in 1 .. L : k \in 1 .. L - 1 \/ k = L BY <1>1
  <2>2. QED BY <1>2, <1>7, <1>8, <2>1
<1>10. \A j \in 1 .. Len(fs2) : FrameRight(p, m2, fs2, cs2, j)
  <2>1. \A j \in 1 .. N + 1 : j \in 1 .. N \/ j = N + 1 BY <1>1
  <2>2. QED BY <1>5, <1>6, <2>1 DEF N
<1>11. QED BY <1>9, <1>10 DEF AllRight

\* A return in the innermost activation.
LEMMA CallPopped ==
  ASSUME NEW p, NEW m, NEW fs, NEW cs, Nested(p, m, fs, cs), Len(cs) > 0,
         Len(fs) > 0, fs[Len(fs)].level = Len(cs),
         NEW m2, SameOwned(m, m2, fs, cs),
         NEW b, b.entry = cs[Len(cs)].entry, NEW cs2, cs2 = [cs EXCEPT ![Len(cs)] = b],
         NEW fs2, Len(fs2) = Len(fs) - 1, \A i \in 1 .. Len(fs) - 1 : fs2[i] = fs[i],
         Active(p, m2, fs2, cs2, Len(cs), Len(fs) - 1)
  PROVE  AllRight(p, m2, fs2, cs2)
<1> DEFINE L == Len(cs)
           N == Len(fs)
<1>1. L \in Nat /\ N \in Nat /\ L \in 1 .. L /\ N - 1 \in Nat /\ N \in 1 .. N BY NestedFacts
<1>2. /\ Len(cs2) = L /\ \A i \in 1 .. L - 1 : cs2[i] = cs[i]
      /\ cs2[L] = b
  BY <1>1 DEF Nested
<1>3. \A i \in 1 .. L : cs2[i].entry = cs[i].entry BY <1>1, <1>2
<1>4. AllRight(p, m, fs, cs) BY DEF Nested
<1>5. Len(fs2) = N - 1 /\ \A i \in 1 .. N - 1 : fs2[i] = fs[i]
  OBVIOUS
<1> HIDE DEF L, N
<1>7. ASSUME NEW j \in 1 .. N - 1 PROVE FrameRight(p, m2, fs2, cs2, j)
  <2>1. j \in Nat \ {0} /\ j \in 1 .. N BY <1>1
  <2>2. FrameRight(p, m, fs, cs, j) /\ fs[j].level \in 1 .. L BY <1>4, <2>1, NestedFacts DEF AllRight, N, L
  <2>3. /\ \A i \in 1 .. fs[j].level : cs2[i].entry = cs[i].entry
        /\ \A i \in 1 .. fs[j].level - 1 : cs2[i].ps = cs[i].ps
        /\ \A i \in 1 .. j : fs2[i] = fs[i]
    BY <1>1, <1>2, <1>3, <1>5, <2>1, <2>2
  <2>4. SameAt(m, m2, fs[j].ps) BY <2>1 DEF SameOwned, N
  <2>5. QED BY <1>1, <1>2, <2>1, <2>2, <2>3, <2>4, FrameCarried DEF L
<1>8. ASSUME NEW k \in 1 .. L - 1 PROVE ActRight(p, m2, fs2, cs2, k)
  <2>1. k \in Nat \ {0} /\ k \in 1 .. L /\ \A i \in 1 .. k : i \in 1 .. L - 1 BY <1>1
  <2>2. ActRight(p, m, fs, cs, k) /\ cs[k].inSyscall BY <1>4, <2>1 DEF AllRight, L, Nested
  <2>3. \A i \in 1 .. k : cs2[i] = cs[i] BY <1>2, <2>1
  <2>4. ASSUME NEW n \in 0 .. Len(fs2), Cut(fs2, k, n)
        PROVE  n \in 0 .. Len(fs) /\ Cut(fs, k, n) /\ \A j \in 1 .. n : fs2[j] = fs[j]
    <3>1. n \in 0 .. N - 1 /\ n \in 0 .. N BY <1>1, <1>5
    <3>2. /\ \A j \in 1 .. n : fs2[j] = fs[j]
          /\ \A j \in n + 1 .. N - 1 : j \in n + 1 .. Len(fs2) /\ fs2[j] = fs[j]
          /\ \A j \in n + 1 .. N : j \in n + 1 .. N - 1 \/ j = N
      BY <1>1, <1>5, <3>1
    <3>3. k < fs[N].level BY <1>1 DEF L, N
    <3>4. Cut(fs, k, n) BY <2>4, <3>2, <3>3 DEF Cut, N
    <3>5. QED BY <3>1, <3>2, <3>4 DEF N
  <2>5. SameAt(m, m2, cs[k].ps) /\ SameAt(m, m2, Begin(cs, k)) BY <2>1 DEF SameOwned, L
  <2>6. QED BY <2>1, <2>2, <2>3, <2>4, <2>5, OuterCarried
<1>9. ActRight(p, m2, fs2, cs2, L)
  <2>1. Begin(cs2, L) = Begin(cs, L) BY <1>1, <1>3 DEF Begin
  <2>2. ActRight(p, m, fs, cs, L) /\ SameAt(m, m2, Begin(cs, L)) BY <1>1, <1>4 DEF AllRight, SameOwned, L
  <2>3. Roomy(Begin(cs2, L)) /\ FetchWord(m2, Begin(cs2, L)) = -1 BY <2>1, <2>2 DEF ActRight, SameAt
  <2>4. ASSUME NEW n \in 0 .. Len(fs2), Cut(fs2, L, n) PROVE Active(p, m2, fs2, cs2, L, n)
    <3>1. CASE n = N - 1 BY <3>1 DEF N, L
    <3>2. CASE n # N - 1
      <4>1. n + 1 \in n + 1 .. Len(fs2) /\ n + 1 \in 1 .. N - 1 /\ n + 1 \in 1 .. N
        BY <1>1, <1>5, <3>2
      <4>2. L < fs[n + 1].level BY <1>5, <2>4, <4>1 DEF Cut
      <4>3. fs[n + 1].level \in 1 .. L BY <4>1, NestedFacts DEF L, N
      <4>4. QED BY <1>1, <4>2, <4>3
    <3>3. QED BY <3>1, <3>2
  <2>5. QED BY <2>3, <2>4 DEF ActRight
<1>10. \A k \in 1 .. Len(cs2) : ActRight(p, m2, fs2, cs2, k)
  <2>1. \A k \in 1 .. L : k \in 1 .. L - 1 \/ k = L BY <1>1
  <2>2. QED BY <1>2, <1>8, <1>9, <2>1
<1>11. QED BY <1>5, <1>7, <1>10 DEF AllRight

\* A new activation.
LEMMA VmEntered ==
  ASSUME NEW p, NEW m, NEW fs, NEW cs, Nested(p, m, fs, cs), Len(cs) > 0 => cs[Len(cs)].inSyscall,
         NEW m2, SameOwned(m, m2, fs, cs), Len(cs) > 0 => SameAt(m, m2, cs[Len(cs)].ps),
         NEW b, NEW cs2, cs2 = Append(cs, b),
         Roomy(Begin(cs2, Len(cs) + 1)), FetchWord(m2, Begin(cs2, Len(cs) + 1)) = -1,
         Active(p, m2, fs, cs2, Len(cs) + 1, Len(fs))
  PROVE  AllRight(p, m2, fs, cs2)
<1> DEFINE L == Len(cs)
           N == Len(fs)
<1>1. L \in Nat /\ N \in Nat BY NestedFacts
<1>2. Len(cs2) = L + 1 /\ \A i \in 1 .. L : cs2[i] = cs[i] BY <1>1 DEF Nested
<1>3. AllRight(p, m, fs, cs) BY DEF Nested
<1> HIDE DEF L, N
<1>4. ASSUME NEW j \in 1 .. N PROVE FrameRight(p, m2, fs, cs2, j)
  <2>1. j \in Nat \ {0} /\ fs[j].level \in 1 .. L BY <1>1, NestedFacts DEF L, N
  <2>2. FrameRight(p, m, fs, cs, j) /\ SameAt(m, m2, fs[j].ps) BY <1>3 DEF AllRight, SameOwned, N
  <2>3. /\ \A i \in 1 .. fs[j].level : cs2[i].entry = cs[i].entry
        /\ \A i \in 1 .. fs[j].level - 1 : cs2[i].ps = cs[i].ps
        /\ fs[j].level \in 1 .. Len(cs2) /\ Len(cs2) \in Nat
    BY <1>1, <1>2, <2>1
  <2>4. QED BY <1>1, <2>1, <2>2, <2>3, FrameCarried DEF L
<1>5. ASSUME NEW k \in 1 .. L PROVE ActRight(p, m2, fs, cs2, k)
  <2>1. k \in Nat \ {0} /\ (k \in 1 .. L - 1 \/ (k = L /\ L > 0)) /\ \A i \in 1 .. k : i \in 1 .. L
    BY <1>1
  <2>2. /\ ActRight(p, m, fs, cs, k) /\ SameAt(m, m2, cs[k].ps) /\ SameAt(m, m2, Begin(cs, k))
        /\ cs[k].inSyscall
    BY <1>3, <2>1 DEF AllRight, SameOwned, L, Nested
  <2>3. \A i \in 1 .. k : cs2[i] = cs[i] BY <1>2, <2>1
  <2>4. QED BY <2>1, <2>2, <2>3, OuterCarried
<1>6. ActRight(p, m2, fs, cs2, L + 1)
  <2>1. ASSUME NEW n \in 0 .. Len(fs), Cut(fs, L + 1, n) PROVE n = Len(fs)
    <3>1. CASE n < N
      <4>1. n + 1 \in n + 1 .. Len(fs) /\ n + 1 \in 1 .. Len(fs) BY <1>1, <3>1 DEF N
      <4>2. L + 1 < fs[n + 1].level BY <2>1, <4>1 DEF Cut
      <4>3. fs[n + 1].level \in 1 .. L BY <4>1, NestedFacts DEF L
      <4>4. QED BY <1>1, <4>2, <4>3
    <3>2. QED BY <1>1, <3>1 DEF N
  <2>2. QED BY <2>1 DEF ActRight, L
<1>7. \A k \in 1 .. Len(cs2) : ActRight(p, m2, fs, cs2, k)
  <2>1. \A k \in 1 .. L + 1 : k \in 1 .. L \/ k = L + 1 BY <1>1
  <2>2. QED BY <1>2, <1>5, <1>6, <2>1
<1>8. QED BY <1>4, <1>7 DEF AllRight, N

\* The innermost activation is gone.
LEMMA VmLeft ==
  ASSUME NEW p, NEW m, NEW fs, NEW cs, Nested(p, m, fs, cs), Len(cs) > 0,
         \A j \in 1 .. Len(fs) : fs[j].level < Len(cs),
         NEW m2, SameOwned(m, m2, fs, cs),
         NEW cs2, Len(cs2) = Len(cs) - 1, \A i \in 1 .. Len(cs) - 1 : cs2[i] = cs[i]
  PROVE  AllRight(p, m2, fs, cs2)
<1> DEFINE L == Len(cs)
           N == Len(fs)
<1>1. L \in Nat /\ N \in Nat /\ L - 1 \in Nat BY NestedFacts
<1>2. Len(cs2) = L - 1 /\ \A i \in 1 .. L - 1 : cs2[i] = cs[i]
  OBVIOUS
<1>3. AllRight(p, m, fs, cs) BY DEF Nested
<1> HIDE DEF L, N
<1>5. ASSUME NEW j \in 1 .. N PROVE FrameRight(p, m2, fs, cs2, j)
  <2>1. j \in Nat \ {0} /\ fs[j].level \in 1 .. L /\ fs[j].level < L BY <1>1, NestedFacts DEF L, N
  <2>2. FrameRight(p, m, fs, cs, j) BY <1>3 DEF AllRight, N
  <2>3. /\ \A i \in 1 .. fs[j].level : cs2[i].entry = cs[i].entry
        /\ \A i \in 1 .. fs[j].level - 1 : cs2[i].ps = cs[i].ps
        /\ fs[j].level \in 1 .. Len(cs2) /\ Len(cs2) \in Nat
    BY <1>1, <1>2, <2>1
  <2>4. SameAt(m, m2, fs[j].ps) BY <2>1 DEF SameOwned, N
  <2>5. QED BY <1>1, <2>1, <2>2, <2>3, <2>4, FrameCarried DEF L
<1>6. ASSUME NEW k \in 1 .. L - 1 PROVE ActRight(p, m2, fs, cs2, k)
  <2>1. k \in Nat \ {0} /\ k \in 1 .. L /\ \A i \in 1 .. k : i \in 1 .. L - 1 BY <1>1
  <2>2. ActRight(p, m, fs, cs, k) /\ cs[k].inSyscall BY <1>3, <2>1 DEF AllRight, L, Nested
  <2>3. \A i \in 1 .. k : cs2[i] = cs[i] BY <1>2, <2>1
  <2>4. SameAt(m, m2, cs[k].ps) /\ SameAt(m, m2, Begin(cs, k)) BY <2>1 DEF SameOwned, L
  <2>5. QED BY <2>1, <2>2, <2>3, <2>4, OuterCarried
<1>7. QED BY <1>2, <1>5, <1>6 DEF AllRight, N

-----------------------------------------------------------------------------
(* Where the innermost activation is.                                      *)

Insns == prog.insns
Calls == Len(frames)

\* The states of compiled programs.
Sound == TypeInv /\ InterpInv /\ CompiledInv /\ Conventional /\ status = "ok"

Here(e, i) == RunsAt(prog, image, frames, acts, Level, Calls, e, i)

LEMMA CodeTyped ==
  ASSUME TypeInv
  PROVE  /\ Insns \in Seq(Insn) /\ Len(Insns) \in Nat \ {0} /\ 0 \in Indices(Insns)
         /\ \A i \in Indices(Insns) : Op(Insns, i) \in Opcodes /\ Arg(Insns, i) \in Int
<1>1. Insns \in Seq(Insn) /\ Len(Insns) > 0 BY ProgramsAssumption DEF TypeInv, Insns
<1>2. ASSUME NEW i \in Indices(Insns) PROVE Op(Insns, i) \in Opcodes /\ Arg(Insns, i) \in Int
  <2>1. i + 1 \in 1 .. Len(Insns) BY <1>1 DEF Indices
  <2>2. Insns[i + 1] \in Insn BY <1>1, <2>1
  <2>3. QED BY <2>2 DEF Op, Arg, Insn
<1>3. QED BY <1>1, <1>2 DEF Indices

LEMMA SoundFacts ==
  ASSUME Sound
  PROVE  /\ Nested(prog, image, frames, acts) /\ AllRight(prog, image, frames, acts)
         /\ Level \in Nat /\ Level = Len(acts) /\ Calls \in Nat /\ frames \in Seq(FrameRecord)
         /\ acts \in Seq(ActivationRecord) /\ image \in Memory /\ ReentryNests
         /\ DOMAIN frames = 1 .. Calls /\ DOMAIN acts = 1 .. Level
         /\ WellFormed(Insns, prog.depth) /\ WellBehaved
         /\ StackBottom >= 0 /\ MemSize <= HalfMod
         /\ \A i \in Indices(Insns) : Place(prog, i) \in Word
<1>1. acts \in Seq(ActivationRecord) /\ frames \in Seq(FrameRecord) /\ image \in Memory
  BY Unmoved DEF Sound, TypeInv, TypeOK
<1>2. ReentryNests BY DEF Sound, InterpInv
<1>3. \A k \in 1 .. Len(acts) - 1 : acts[k].inSyscall BY <1>1, <1>2 DEF ReentryNests
<1>4. AllRight(prog, image, frames, acts) BY DEF Sound, CompiledInv
<1>5. /\ WellFormed(Insns, prog.depth) /\ WellBehaved
      /\ StackSize <= MemSize /\ MemSize <= HalfMod
      /\ \A i \in DOMAIN code.pointers : code.pointers[i] \in Word
  BY DEF Sound, Conventional, Insns
<1>6. \A i \in Indices(Insns) : Place(prog, i) \in Word
  <2>1. code = Expanded(Insns) BY DEF Sound, TypeInv, Insns
  <2>2. DOMAIN code.pointers = Indices(Insns) BY <2>1 DEF Expanded
  <2>3. QED BY <1>5, <2>1, <2>2 DEF Place, Insns
<1>7. StackBottom >= 0 BY <1>5, Sizes DEF StackBottom
<1>8. QED BY <1>1, <1>2, <1>3, <1>4, <1>5, <1>6, <1>7 DEF Nested, Level, Calls

\* The words of an instruction are those of the loader.
LEMMA CodeAt ==
  ASSUME TypeInv, NEW i \in Indices(Insns)
  PROVE  /\ Place(prog, i) \in Nat /\ code.pointers[i] = Place(prog, i)
         /\ OpcodeNumbered(code.image[Place(prog, i)]) = Op(Insns, i)
         /\ Op(Insns, i) \in HasOperand \ CondBranch => code.image[Place(prog, i) + 1] = Arg(Insns, i)
         /\ Op(Insns, i) \in CondBranch /\ Arg(Insns, i) \in Indices(Insns) =>
              code.image[Place(prog, i) + 1] = Place(prog, Arg(Insns, i))
         /\ i + 1 \in Indices(Insns) =>
              Place(prog, i + 1) = Place(prog, i) + 1 + OperandWords(Op(Insns, i))
<1> DEFINE W == WordsBefore(Insns)
<1>1. Insns \in Seq(Insn) /\ Len(Insns) \in Nat BY CodeTyped
<1>2. code = Expanded(Insns) BY DEF TypeInv, Insns
<1>3. \A j \in Indices(Insns) : Place(prog, j) = W[j] /\ code.pointers[j] = W[j]
  BY <1>2 DEF Place, Insns, Expanded
<1>4. Laid(code.image, Insns, Len(Insns), Len(Insns)) BY <1>1, <1>2, ExpandedIsLaid
<1>5. /\ OpcodeNumbered(code.image[W[i]]) = Op(Insns, i)
      /\ OperandWords(Op(Insns, i)) = 1 => code.image[W[i] + 1] = OperandLaid(Insns, i, Len(Insns))
  BY <1>4 DEF Laid, Indices
<1>6. W[i] \in Nat /\ W[i + 1] = W[i] + 1 + OperandWords(Op(Insns, i))
  BY <1>1, WordsBeforeStep DEF Indices
<1>7. i < Len(Insns) BY <1>1 DEF Indices
<1>8. Op(Insns, i) \in HasOperand => OperandWords(Op(Insns, i)) = 1 BY DEF OperandWords
<1>9. Op(Insns, i) \in CondBranch => Op(Insns, i) \in HasOperand BY DEF HasOperand, HasI4Operand
<1> HIDE DEF W
<1>10. OperandLaid(Insns, i, Len(Insns)) =
         IF Op(Insns, i) \in CondBranch THEN W[Arg(Insns, i)] ELSE Arg(Insns, i)
  BY <1>7 DEF OperandLaid, W
<1>11. QED BY <1>3, <1>5, <1>6, <1>8, <1>9, <1>10

\* The innermost activation is where the invariant says.
LEMMA SomewhereHere ==
  ASSUME Sound, Running
  PROVE  \E e, i \in Indices(Insns) : Here(e, i)
<1>1. Nested(prog, image, frames, acts) /\ Level > 0 /\ ~ A.inSyscall /\ Level = Len(acts)
  BY SoundFacts DEF Running
<1>2. Cut(frames, Level, Calls) /\ Calls \in 0 .. Len(frames) BY <1>1, NestedFacts, SoundFacts DEF Calls
<1>3. ActRight(prog, image, frames, acts, Level) BY <1>1, SoundFacts DEF AllRight
<1>4. Active(prog, image, frames, acts, Level, Calls) BY <1>2, <1>3 DEF ActRight
<1>5. QED BY <1>1, <1>4 DEF Active, Here, A, Insns

\* The frame of the innermost caller is the lowest of all that is pending.
LEMMA Lowest ==
  ASSUME Sound, Level > 0
  PROVE  LET b == Below(frames, acts, Level, Calls)
         IN  /\ Roomy(b) /\ b \in Int
             /\ \A j \in 1 .. Calls : b <= frames[j].ps
             /\ \A k \in 1 .. Level : b <= Begin(acts, k)
             /\ \A k \in 1 .. Level - 1 : b <= acts[k].ps
<1> DEFINE b == Below(frames, acts, Level, Calls)
           L == Level
           N == Calls
<1>1. /\ Nested(prog, image, frames, acts) /\ AllRight(prog, image, frames, acts)
      /\ L \in Nat /\ L = Len(acts) /\ N \in Nat /\ N = Len(frames) /\ L \in 1 .. L
  BY SoundFacts DEF Calls
<1>2. /\ \A j \in 1 .. N : frames[j].level \in 1 .. L /\ frames[j].level \in Nat /\ frames[j].ps \in Int
      /\ \A k \in 1 .. L : acts[k].ps \in Int /\ acts[k].entry \in Int /\ Begin(acts, k) \in Int
  BY <1>1, NestedFacts
<1>3. /\ \A j \in 1 .. N : FrameRight(prog, image, frames, acts, j)
      /\ \A k \in 1 .. L : ActRight(prog, image, frames, acts, k)
  BY <1>1 DEF AllRight
<1> HIDE DEF L, N
<1>4. CASE N > 0 /\ frames[N].level = L
  <2>1. b = frames[N].ps BY <1>4 DEF Below, L, N
  <2>2. N \in 1 .. N BY <1>1, <1>4
  <2>3. Roomy(b) /\ Under(frames, acts, b, L, N - 1) BY <1>3, <1>4, <2>1, <2>2 DEF FrameRight
  <2>4. b \in Int BY <1>2, <2>1, <2>2
  <2> HIDE DEF b
  <2>5. \A j \in 1 .. N : b <= frames[j].ps
    <3>1. \A j \in 1 .. N : j \in 1 .. N - 1 \/ j = N BY <1>1
    <3>2. \A j \in 1 .. N - 1 : b + 8 <= frames[j].ps /\ j \in 1 .. N BY <2>3, <1>1 DEF Under
    <3>3. QED BY <1>2, <2>1, <2>4, <3>1, <3>2
  <2>6. (\A k \in 1 .. L : b <= Begin(acts, k)) /\ (\A k \in 1 .. L - 1 : b <= acts[k].ps)
    <3>1. \A k \in 1 .. L : b + 8 <= Begin(acts, k) BY <2>3 DEF Under
    <3>2. \A k \in 1 .. L - 1 : b + 8 <= acts[k].ps /\ k \in 1 .. L BY <2>3, <1>1 DEF Under
    <3>3. QED BY <1>2, <2>4, <3>1, <3>2
  <2>7. QED BY <2>3, <2>4, <2>5, <2>6 DEF b, L, N
<1>5. CASE ~ (N > 0 /\ frames[N].level = L)
  <2>1. b = Begin(acts, L) BY <1>5 DEF Below, L, N
  <2>2. Roomy(b) /\ b \in Int BY <1>1, <1>2, <1>3, <2>1 DEF ActRight
  <2>3. \A j \in 1 .. N : frames[j].level \in 1 .. L - 1
    <3>1. SUFFICES ASSUME NEW j \in 1 .. N PROVE frames[j].level \in 1 .. L - 1 OBVIOUS
    <3>2. N \in 1 .. N /\ N > 0 BY <1>1
    <3>3. frames[j].level <= frames[N].level BY <1>3, <3>2 DEF FrameRight
    <3>4. QED BY <1>1, <1>2, <1>5, <3>2, <3>3
  <2>4. CASE L = 1
    <3>1. N = 0
      <4>1. ASSUME N # 0 PROVE FALSE
        <5>1. N \in 1 .. N BY <1>1, <4>1
        <5>2. frames[N].level \in 1 .. 0 BY <2>3, <2>4, <5>1
        <5>3. QED BY <5>2
      <4>2. QED BY <4>1
    <3>2. (\A k \in 1 .. L : k = L) /\ 1 .. L - 1 = {} /\ 1 .. N = {} BY <2>4, <3>1
    <3> HIDE DEF b
    <3>3. QED BY <2>1, <2>2, <3>2 DEF b, L, N
  <2>5. CASE L # 1
    <3> DEFINE o == L - 1
               a == acts[o].ps
    <3>1. o \in 1 .. L /\ o \in Nat /\ o < L /\ N \in 0 .. Len(frames) BY <1>1, <2>5
    <3>2. acts[o].inSyscall /\ acts[L].entry = a - 4
      <4>1. L \in 1 .. Len(acts) /\ o < Len(acts) /\ o \in 1 .. Len(acts) BY <1>1, <3>1
      <4>2. QED BY <2>5, <4>1, SoundFacts DEF ReentryNests
    <3>3. Cut(frames, o, N)
      <4>1. \A j \in 1 .. N : frames[j].level <= o BY <1>1, <2>3
      <4>2. N + 1 .. Len(frames) = {} BY <1>1
      <4>3. QED BY <4>1, <4>2 DEF Cut
    <3>4. Suspended(prog, image, frames, acts, o, N)
      <4>1. ActRight(prog, image, frames, acts, o) BY <1>3, <3>1
      <4>2. QED BY <3>1, <3>2, <3>3, <4>1 DEF ActRight, Active
    <3>5. Under(frames, acts, a, o, N) BY <3>4 DEF Suspended
    <3>6. a \in Int BY <1>2, <3>1
    <3>7. b + 8 <= a
      <4>1. b = (a - 4) - FrameBytes BY <2>1, <3>2 DEF Begin
      <4>2. FrameBytes \in Nat /\ FrameBytes >= 12 BY Sizes DEF FrameBytes
      <4> HIDE DEF a, b
      <4>3. QED BY <3>6, <4>1, <4>2
    <3> HIDE DEF a, b
    <3>8. /\ \A j \in 1 .. N : a + 8 <= frames[j].ps
          /\ \A k \in 1 .. o : a + 8 <= Begin(acts, k)
          /\ \A k \in 1 .. o - 1 : a + 8 <= acts[k].ps
      BY <3>5 DEF Under
    <3>9. /\ \A k \in 1 .. L : k \in 1 .. o \/ k = L
          /\ \A k \in 1 .. L - 1 : (k \in 1 .. o - 1 \/ k = o) /\ k \in 1 .. L
          /\ \A k \in 1 .. o : k \in 1 .. L
      BY <1>1, <3>1
    <3>10. \A j \in 1 .. N : b <= frames[j].ps BY <1>2, <2>2, <3>6, <3>7, <3>8
    <3>11. \A k \in 1 .. L : b <= Begin(acts, k) BY <1>2, <2>1, <2>2, <3>6, <3>7, <3>8, <3>9
    <3>12. \A k \in 1 .. L - 1 : b <= acts[k].ps
      <4>1. acts[o].ps = a BY DEF a
      <4>2. QED BY <1>2, <2>2, <3>6, <3>7, <3>8, <3>9, <4>1
    <3>13. QED BY <2>2, <3>10, <3>11, <3>12 DEF b, L, N
  <2>6. QED BY <2>4, <2>5
<1>6. QED BY <1>4, <1>5

\* Between the calls of activation k and those of the ones nested in it.
LEMMA CutSomewhere ==
  ASSUME Sound, NEW k \in Nat PROVE \E n \in 0 .. Calls : Cut(frames, k, n)
<1> DEFINE S == {0} \cup {j \in 1 .. Calls : frames[j].level <= k}
           n == Max(S)
<1>1. Calls \in Nat /\ Calls = Len(frames) BY SoundFacts DEF Calls
<1>2. \A j \in 1 .. Calls : /\ FrameRight(prog, image, frames, acts, j)
                            /\ frames[j].level \in Nat
  BY SoundFacts, NestedFacts DEF AllRight, Calls
<1>3. S \subseteq 0 .. Calls /\ S # {} BY <1>1
<1>4. n \in S /\ \A x \in S : x <= n
  <2> HIDE DEF S
  <2>1. QED BY <1>1, <1>3, Greatest
<1>5. n \in 0 .. Calls BY <1>3, <1>4
<1> HIDE DEF n
<1>6. ASSUME NEW j \in 1 .. n PROVE frames[j].level <= k
  <2>1. n \in 1 .. Calls /\ n > 0 /\ j \in 1 .. Calls BY <1>1, <1>5
  <2>2. frames[n].level <= k BY <1>4, <2>1
  <2>3. frames[j].level <= frames[n].level BY <1>2, <2>1 DEF FrameRight
  <2>4. QED BY <1>2, <2>1, <2>2, <2>3
<1>7. ASSUME NEW j \in n + 1 .. Len(frames) PROVE k < frames[j].level
  <2>1. j \in 1 .. Calls /\ ~ (j <= n) BY <1>1, <1>5
  <2>2. j \notin S BY <1>4, <2>1
  <2>3. QED BY <1>2, <2>1, <2>2
<1>8. QED BY <1>5, <1>6, <1>7 DEF Cut

\* All that is reserved but for the innermost frame lies in the memory.
LEMMA PlacesInside ==
  ASSUME Sound
  PROVE  /\ \A j \in 1 .. Calls : Roomy(frames[j].ps)
         /\ \A k \in 1 .. Level : /\ Roomy(Begin(acts, k))
                                  /\ acts[k].inSyscall => Roomy(acts[k].ps)
<1>1. AllRight(prog, image, frames, acts) BY SoundFacts
<1>2. \A j \in 1 .. Calls : Roomy(frames[j].ps) BY <1>1 DEF AllRight, FrameRight, Calls
<1>3. ASSUME NEW k \in 1 .. Level
      PROVE  Roomy(Begin(acts, k)) /\ (acts[k].inSyscall => Roomy(acts[k].ps))
  <2>1. ActRight(prog, image, frames, acts, k) /\ k \in Nat BY <1>1, SoundFacts DEF AllRight
  <2>2. PICK n \in 0 .. Calls : Cut(frames, k, n) BY <2>1, CutSomewhere
  <2>3. Active(prog, image, frames, acts, k, n) BY <2>1, <2>2 DEF ActRight, Calls
  <2>4. QED BY <2>1, <2>3 DEF Active, ActRight, Suspended
<1>4. QED BY <1>2, <1>3

\* A store that stays below the caller's frame leaves the pending frames alone.
LEMMA LowerStores ==
  ASSUME Sound, Level > 0, NEW m1, NEW m2,
         \A x \in 0 .. MemSize + 3 : x >= Below(frames, acts, Level, Calls) => m2[x] = m1[x]
  PROVE  SameOwned(m1, m2, frames, acts)
<1> DEFINE b == Below(frames, acts, Level, Calls)
<1>1. /\ \A j \in 1 .. Calls : b <= frames[j].ps /\ Roomy(frames[j].ps)
      /\ \A k \in 1 .. Level : b <= Begin(acts, k) /\ Roomy(Begin(acts, k))
      /\ \A k \in 1 .. Level - 1 : b <= acts[k].ps /\ Roomy(acts[k].ps)
  <2>1. \A k \in 1 .. Level - 1 : k \in 1 .. Level /\ acts[k].inSyscall
    BY SoundFacts DEF Nested
  <2>2. QED BY <2>1, Lowest, PlacesInside
<1>2. ASSUME NEW a, Roomy(a), b <= a PROVE SameAt(m1, m2, a)
  <2>1. a \in Int /\ b \in Int /\ MemSize \in Nat /\ a + 7 <= MemSize + 3 /\ a >= 0
    BY <1>2, Lowest, Sizes DEF Roomy
  <2>2. \A x \in a .. a + 7 : x \in 0 .. MemSize + 3 /\ x >= b
    <3> HIDE DEF b
    <3>1. QED BY <1>2, <2>1
  <2>3. \A x \in a .. a + 7 : m2[x] = m1[x] BY <2>2
  <2>4. QED BY <2>1, <2>3, BytesSame
<1> HIDE DEF b
<1>3. QED BY <1>1, <1>2, SoundFacts DEF SameOwned, Calls

LEMMA LowStores ==
  ASSUME Sound, Level > 0, NEW m2,
         \A x \in 0 .. MemSize + 3 : x >= Below(frames, acts, Level, Calls) => m2[x] = image[x]
  PROVE  SameOwned(image, m2, frames, acts)
<1> DEFINE m1 == image
<1>1. \A x \in 0 .. MemSize + 3 : x >= Below(frames, acts, Level, Calls) => m2[x] = m1[x] OBVIOUS
<1> HIDE DEF m1
<1>2. SameOwned(m1, m2, frames, acts) BY <1>1, LowerStores
<1>3. QED BY <1>2 DEF m1

\* So does a store that stays out of what is reserved.
LEMMA OtherStores ==
  ASSUME Sound, Level > 0, NEW m2,
         \A x \in (0 .. MemSize + 3) \cap Reserved : m2[x] = image[x]
  PROVE  /\ SameOwned(image, m2, frames, acts)
         /\ Inside4(A.ps + 4) /\ A.ps \in Int => Noted(m2, A.ps) = Noted(image, A.ps)
         /\ Roomy(A.ps) => SameAt(image, m2, A.ps)
<1>1. ASSUME NEW a \in Frames, Roomy(a) PROVE SameAt(image, m2, a)
  <2>1. a .. a + 7 \subseteq Reserved BY <1>1 DEF Reserved
  <2>2. a \in Int /\ a .. a + 7 \subseteq 0 .. MemSize + 3 BY <1>1, Sizes DEF Roomy
  <2>3. QED BY <2>1, <2>2, BytesSame
<1>2. Level \in 1 .. Level /\ \A k \in 1 .. Level - 1 : k \in 1 .. Level /\ acts[k].inSyscall
  BY SoundFacts DEF Nested
<1>3. /\ \A j \in 1 .. Calls : frames[j].ps \in Frames
      /\ \A k \in 1 .. Level : acts[k].ps \in Frames /\ Begin(acts, k) \in Frames
  BY SoundFacts DEF Frames, Begin
<1>4. SameOwned(image, m2, frames, acts)
  BY <1>1, <1>2, <1>3, PlacesInside, SoundFacts DEF SameOwned, Calls
<1>5. ASSUME Inside4(A.ps + 4), A.ps \in Int PROVE Noted(m2, A.ps) = Noted(image, A.ps)
  <2> DEFINE a == A.ps
  <2>1. a \in Int /\ a + 4 \in Int /\ (a + 4) .. (a + 4) + 3 \subseteq 0 .. MemSize + 3
        /\ (a + 4) .. (a + 4) + 3 \subseteq a .. a + 7
    BY <1>5, Sizes DEF Inside4
  <2>2. a \in Frames BY <1>2, <1>3 DEF A
  <2>3. a .. a + 7 \subseteq Reserved BY <2>2 DEF Reserved
  <2>4. \A x \in (a + 4) .. (a + 4) + 3 : m2[x] = image[x]
    <3> HIDE DEF a
    <3>1. QED BY <2>1, <2>3
  <2>5. QED BY <2>1, <2>4, SameFetch DEF Noted
<1>6. Roomy(A.ps) => SameAt(image, m2, A.ps) BY <1>1, <1>2, <1>3 DEF A
<1>7. QED BY <1>4, <1>5, <1>6

\* What the invariant says of the instruction that is next.
LEMMA NextInstruction ==
  ASSUME Sound, NEW e \in Indices(Insns), NEW i \in Indices(Insns), Here(e, i), NEW ops, At(ops)
  PROVE  /\ Opcode = Op(Insns, i) /\ Opcode \in ops /\ Opcode \in Opcodes
         /\ InFunction(Insns, e, i) /\ A.pc = Place(prog, i) /\ A.pc \in Nat
         /\ Opcode \in HasOperand \ CondBranch => R2 = Arg(Insns, i)
         /\ Opcode \in CondBranch =>
              /\ Arg(Insns, i) \in Indices(Insns) /\ R2 = Place(prog, Arg(Insns, i))
              /\ SameFunction(Insns, i, Arg(Insns, i)) /\ Op(Insns, Arg(Insns, i)) # "ENTER"
              /\ prog.depth[Arg(Insns, i)] = After(Insns, prog.depth, i)
         /\ prog.depth[i] \in Nat /\ prog.depth[i] >= Pops(Opcode)
         /\ BaseOf(frames, Level, Calls) \in Nat
         /\ A.ofs = BaseOf(frames, Level, Calls) + prog.depth[i]
         /\ A.ofs - Pops(Opcode) + Pushes(Opcode) \in Slots
         /\ Opcode \notin Diverts =>
              /\ i + 1 \in Indices(Insns) /\ InFunction(Insns, e, i + 1)
              /\ Op(Insns, i + 1) # "ENTER" /\ prog.depth[i + 1] = After(Insns, prog.depth, i)
              /\ Place(prog, i + 1) = A.pc + 1 + OperandWords(Opcode)
<1> DEFINE D == prog.depth
<1>1. /\ InFunction(Insns, e, i) /\ A.pc = Place(prog, i)
      /\ A.ofs = BaseOf(frames, Level, Calls) + D[i]
  BY DEF Here, RunsAt, Insns, A
<1>2. Opcode = Op(Insns, i) /\ Opcode \in ops /\ A.pc \in Nat
  BY <1>1, CodeAt DEF At, Opcode, Sound
<1>3. Opcode \in Opcodes BY <1>2, CodeTyped DEF Sound
<1>4. Opcode \in HasOperand \ CondBranch => R2 = Arg(Insns, i)
  BY <1>1, <1>2, CodeAt DEF R2, Sound
<1>5. WellFormed(Insns, D) BY SoundFacts
<1>6. /\ D \in [Indices(Insns) -> Nat] /\ ConsistentDepths(Insns, D, OpSlots)
      /\ Op(Insns, i) \notin Diverts => FallsInto(Insns, i)
      /\ Op(Insns, i) \in CondBranch => Op(Insns, Arg(Insns, i)) # "ENTER"
  BY <1>5 DEF WellFormed
<1>7. /\ D[i] >= Pops(Op(Insns, i))
      /\ FallsInto(Insns, i) => D[i + 1] = After(Insns, D, i)
      /\ Op(Insns, i) \in CondBranch =>
           SameFunction(Insns, i, Arg(Insns, i)) /\ D[Arg(Insns, i)] = After(Insns, D, i)
  BY <1>6 DEF ConsistentDepths
<1>8. ASSUME Opcode \in CondBranch
      PROVE  Arg(Insns, i) \in Indices(Insns) /\ R2 = Place(prog, Arg(Insns, i))
  <2>1. Arg(Insns, i) \in Indices(Insns) BY <1>2, <1>7, <1>8 DEF SameFunction
  <2>2. code.image[Place(prog, i) + 1] = Place(prog, Arg(Insns, i))
    BY <1>2, <1>8, <2>1, CodeAt DEF Sound
  <2>3. QED BY <1>1, <2>1, <2>2 DEF R2
<1>9. BaseOf(frames, Level, Calls) \in Nat
  <2>1. Slots \subseteq Nat BY Sizes DEF Slots
  <2>2. Calls \in 1 .. Calls \/ ~ (Calls > 0) BY SoundFacts
  <2>3. Calls > 0 => frames[Calls] \in FrameRecord BY <2>2, SoundFacts, NestedFacts DEF Calls
  <2>4. Calls > 0 => frames[Calls].base \in Slots BY <2>3 DEF FrameRecord
  <2>5. QED BY <2>1, <2>4 DEF BaseOf
<1>10. A.ofs - Pops(Opcode) + Pushes(Opcode) \in Slots
  <2>1. At(Opcodes) BY <1>3 DEF At
  <2>2. A.ofs - Pops(Opcode) + Pushes(Opcode) < OpSlots BY <2>1, SoundFacts DEF WellBehaved
  <2>3. Pops(Opcode) \in Nat /\ Pushes(Opcode) \in Nat BY DEF Pops, Pushes
  <2>4. D[i] \in Nat BY <1>6
  <2>5. QED BY <1>1, <1>2, <1>7, <1>9, <2>2, <2>3, <2>4, Sizes DEF Slots
<1>11. ASSUME Opcode \notin Diverts
       PROVE  /\ i + 1 \in Indices(Insns) /\ InFunction(Insns, e, i + 1)
              /\ Op(Insns, i + 1) # "ENTER" /\ D[i + 1] = After(Insns, D, i)
              /\ Place(prog, i + 1) = A.pc + 1 + OperandWords(Opcode)
  <2>1. FallsInto(Insns, i) BY <1>2, <1>6, <1>11
  <2>2. i + 1 \in Indices(Insns) /\ Op(Insns, i + 1) # "ENTER" BY <2>1 DEF FallsInto
  <2>3. InFunction(Insns, e, i + 1)
    <3>1. /\ i \in Int /\ e \in 0 .. i /\ Op(Insns, e) = "ENTER"
          /\ \A k \in e + 1 .. i : Op(Insns, k) # "ENTER"
      BY <1>1 DEF InFunction, Indices
    <3>2. e \in 0 .. i + 1 /\ \A k \in e + 1 .. i + 1 : k \in e + 1 .. i \/ k = i + 1 BY <3>1
    <3>3. QED BY <2>2, <3>1, <3>2 DEF InFunction
  <2>4. QED BY <1>1, <1>2, <1>7, <2>1, <2>2, <2>3, CodeAt DEF Sound
<1>12. QED BY <1>1, <1>2, <1>3, <1>4, <1>6, <1>7, <1>8, <1>9, <1>10, <1>11

\* The innermost activation, after a change.
LEMMA Renewed ==
  ASSUME Sound, Level > 0, NEW b, b.entry = A.entry, NEW cs, cs = [acts EXCEPT ![Level] = b],
         NEW fs, NEW n \in Nat, \A j \in 1 .. n : fs[j] = frames[j]
  PROVE  /\ cs[Level] = b
         /\ Below(fs, cs, Level, n) = Below(frames, acts, Level, n)
         /\ BaseOf(fs, Level, n) = BaseOf(frames, Level, n)
         /\ \A a : Under(frames, acts, a, Level, n) => Under(fs, cs, a, Level, n)
<1> DEFINE L == Level
<1>1. L \in Nat /\ L \in 1 .. L /\ DOMAIN acts = 1 .. L BY SoundFacts
<1>2. cs[L] = b /\ \A k \in 1 .. L - 1 : cs[k] = acts[k] BY <1>1, SoundFacts
<1> HIDE DEF L
<1>3. \A k \in 1 .. L : cs[k].entry = acts[k].entry
  <2>1. \A k \in 1 .. L : k \in 1 .. L - 1 \/ k = L BY <1>1
  <2>2. QED BY <1>2, <2>1 DEF A, L
<1>4. n > 0 => fs[n] = frames[n]
  <2>1. n > 0 => n \in 1 .. n OBVIOUS
  <2>2. QED BY <2>1
<1>5. Below(fs, cs, L, n) = Below(frames, acts, L, n) BY <1>1, <1>3, <1>4 DEF Below, Begin
<1>6. BaseOf(fs, L, n) = BaseOf(frames, L, n) BY <1>4 DEF BaseOf
<1>7. ASSUME NEW a, Under(frames, acts, a, L, n) PROVE Under(fs, cs, a, L, n)
  BY <1>1, <1>2, <1>3, <1>7, UnderCarried
<1>8. QED BY <1>2, <1>5, <1>6, <1>7 DEF L

-----------------------------------------------------------------------------
(* Instructions that stay in the function.                                 *)

\* Activation b is a, moved on.
MovedTo(a, b, pc, ps, n) ==
  /\ DOMAIN b = DOMAIN a /\ b.entry = a.entry /\ b.inSyscall = a.inSyscall
  /\ b.pc = pc /\ b.ps = ps /\ b.ofs = n

LEMMA Moved ==
  ASSUME NEW a \in ActivationRecord, NEW pc, NEW ps, NEW n, NEW v, NEW x, NEW y
  PROVE  /\ MovedTo(a, [a EXCEPT !.pc = pc], pc, a.ps, a.ofs)
         /\ MovedTo(a, [a EXCEPT !.pc = pc, !.ps = ps], pc, ps, a.ofs)
         /\ MovedTo(a, [a EXCEPT !.pc = pc, !.ofs = n], pc, a.ps, n)
         /\ MovedTo(a, [[a EXCEPT !.ofs = n] EXCEPT !.pc = pc], pc, a.ps, n)
         /\ MovedTo(a, [a EXCEPT !.pc = pc, !.opStack[x] = v], pc, a.ps, a.ofs)
         /\ MovedTo(a, [a EXCEPT !.pc = pc, !.opStack[x] = v, !.r0 = v], pc, a.ps, a.ofs)
         /\ MovedTo(a, [a EXCEPT !.pc = pc, !.ofs = n, !.opStack[x] = v], pc, a.ps, n)
         /\ MovedTo(a, [a EXCEPT !.pc = pc, !.ofs = n, !.opStack[x] = v, !.r0 = v, !.r1 = y],
                    pc, a.ps, n)
BY DEF MovedTo, ActivationRecord

LEMMA ReloadMoves ==
  ASSUME NEW a \in ActivationRecord, NEW b, NEW pc, NEW ps, NEW n, MovedTo(a, b, pc, ps, n)
  PROVE  MovedTo(a, Reloaded(b), pc, ps, n)
BY DEF MovedTo, ActivationRecord, Reloaded

\* The activation is at instruction j of its function.
LEMMA Stays ==
  ASSUME Sound, Running, NEW e \in Indices(Insns), NEW i \in Indices(Insns), Here(e, i),
         Op(Insns, i) # "ENTER",
         NEW j \in Indices(Insns), InFunction(Insns, e, j), Op(Insns, j) # "ENTER",
         NEW b, MovedTo(A, b, Place(prog, j), A.ps, BaseOf(frames, Level, Calls) + prog.depth[j]),
         acts' = [acts EXCEPT ![Level] = b], prog' = prog, frames' = frames,
         SameOwned(image, image', frames, acts), Noted(image', A.ps) = Noted(image, A.ps)
  PROVE  CompiledInv'
<1> DEFINE L == Level
           cs == [acts EXCEPT ![L] = b]
           m == image'
           N == Calls
<1>1. /\ Nested(prog, image, frames, acts) /\ L \in Nat /\ L = Len(acts) /\ L > 0
      /\ N \in Nat /\ N = Len(frames) /\ ~ A.inSyscall
  BY SoundFacts DEF Calls, Running
<1>2. /\ b.entry = A.entry /\ ~ b.inSyscall /\ b.pc = Place(prog, j) /\ b.ps = A.ps
      /\ b.ofs = BaseOf(frames, L, N) + prog.depth[j]
  BY <1>1 DEF MovedTo
<1>3. /\ cs[L] = b /\ Below(frames, cs, L, N) = Below(frames, acts, L, N)
      /\ \A a : Under(frames, acts, a, L, N) => Under(frames, cs, a, L, N)
  <2>1. \A k \in 1 .. N : frames[k] = frames[k] OBVIOUS
  <2>2. cs = [acts EXCEPT ![Level] = b] OBVIOUS
  <2> HIDE DEF cs, N, L
  <2>3. Level > 0 /\ L = Level BY <1>1 DEF L
  <2>4. cs[L] = b BY <1>1, <1>2, <2>1, <2>2, <2>3, Renewed
  <2>5. \A a : Under(frames, acts, a, Level, N) => Under(frames, cs, a, Level, N)
    BY <1>1, <1>2, <2>1, <2>2, <2>3, Renewed
  <2>6. Below(frames, cs, L, N) = Below(frames, acts, L, N)
    BY <1>2, <2>4 DEF Below, Begin, A, L
  <2>7. QED BY <2>3, <2>4, <2>5, <2>6
<1> HIDE DEF L, N
<1>4. /\ A.ps = Below(frames, acts, L, N) - Arg(Insns, e) /\ Under(frames, acts, A.ps, L, N)
      /\ Inside4(A.ps + 4) /\ Noted(image, A.ps) = Below(frames, acts, L, N)
  BY DEF Here, RunsAt, Insns, A, L, N
<1> HIDE DEF cs, m
<1>5. RunsAt(prog, m, frames, cs, L, N, e, j) BY <1>2, <1>3, <1>4 DEF RunsAt, m, Insns
<1>6. Active(prog, m, frames, cs, L, N) BY <1>2, <1>3, <1>5 DEF Active, Insns
<1>7. AllRight(prog, m, frames, cs)
  <2>1. SameOwned(image, m, frames, acts) BY DEF m
  <2>2. Active(prog, m, frames, cs, Len(acts), Len(frames)) BY <1>1, <1>6
  <2>3. b.entry = acts[Len(acts)].entry /\ cs = [acts EXCEPT ![Len(acts)] = b]
    BY <1>1, <1>2 DEF A, L, cs
  <2>4. Len(acts) > 0 BY <1>1
  <2>5. QED BY <1>1, <2>1, <2>2, <2>3, <2>4, TopChanged
<1>8. QED BY <1>7 DEF CompiledInv, cs, m, L

\* The next instruction is the one behind.
LEMMA FallsThrough ==
  ASSUME Sound, NEW ops, At(ops), ops \cap (Diverts \cup {"ENTER"}) = {},
         NEW b, NEW n, n = A.ofs - Pops(Opcode) + Pushes(Opcode),
         MovedTo(A, b, A.pc + 1 + OperandWords(Opcode), A.ps, n),
         acts' = [acts EXCEPT ![Level] = b], prog' = prog, frames' = frames,
         SameOwned(image, image', frames, acts), Noted(image', A.ps) = Noted(image, A.ps)
  PROVE  CompiledInv'
<1>1. Running BY DEF At
<1>2. PICK e \in Indices(Insns), i \in Indices(Insns) : Here(e, i) BY <1>1, SomewhereHere
<1>3. /\ Opcode = Op(Insns, i) /\ Opcode \in ops
      /\ BaseOf(frames, Level, Calls) \in Nat /\ prog.depth[i] \in Nat
      /\ A.ofs = BaseOf(frames, Level, Calls) + prog.depth[i]
      /\ Opcode \notin Diverts =>
           /\ i + 1 \in Indices(Insns) /\ InFunction(Insns, e, i + 1)
           /\ Op(Insns, i + 1) # "ENTER" /\ prog.depth[i + 1] = After(Insns, prog.depth, i)
           /\ Place(prog, i + 1) = A.pc + 1 + OperandWords(Opcode)
  BY <1>2, NextInstruction
<1>4. Opcode \notin Diverts /\ Op(Insns, i) # "ENTER" BY <1>3
<1> DEFINE j == i + 1
<1>5. /\ j \in Indices(Insns) /\ InFunction(Insns, e, j) /\ Op(Insns, j) # "ENTER"
      /\ prog.depth[j] = After(Insns, prog.depth, i)
      /\ Place(prog, j) = A.pc + 1 + OperandWords(Opcode)
  BY <1>3, <1>4
<1> HIDE DEF j
<1>6. n = BaseOf(frames, Level, Calls) + prog.depth[j]
  <2>1. Pops(Opcode) \in Nat /\ Pushes(Opcode) \in Nat BY DEF Pops, Pushes
  <2>2. QED BY <1>3, <1>5, <2>1 DEF After
<1>7. QED BY <1>1, <1>2, <1>4, <1>5, <1>6, Stays

LEMMA Effects ==
  ASSUME NEW op
  PROVE  /\ op \in {"IGNORE", "BREAK"} => Pops(op) = 0 /\ Pushes(op) = 0 /\ OperandWords(op) = 0
         /\ op \in {"CONST", "LOCAL"} => Pops(op) = 0 /\ Pushes(op) = 1 /\ OperandWords(op) = 1
         /\ op = "PUSH" => Pops(op) = 0 /\ Pushes(op) = 1 /\ OperandWords(op) = 0
         /\ op \in {"POP", "JUMP"} => Pops(op) = 1 /\ Pushes(op) = 0 /\ OperandWords(op) = 0
         /\ op = "CALL" => Pops(op) = 1 /\ Pushes(op) = 1 /\ OperandWords(op) = 0
         /\ op = "ARG" => Pops(op) = 1 /\ Pushes(op) = 0 /\ OperandWords(op) = 1
         /\ op = "ENTER" => Pops(op) = 0 /\ Pushes(op) = 0 /\ OperandWords(op) = 1
         /\ op = "BLOCK_COPY" => Pops(op) = 2 /\ Pushes(op) = 0 /\ OperandWords(op) = 1
         /\ op \in CondBranch => Pops(op) = 2 /\ Pushes(op) = 0 /\ OperandWords(op) = 1
         /\ op \in Load \cup IntUnary \cup FloatUnary =>
              Pops(op) = 1 /\ Pushes(op) = 1 /\ OperandWords(op) = 0
         /\ op \in Store => Pops(op) = 2 /\ Pushes(op) = 0 /\ OperandWords(op) = 0
         /\ op \in IntBinary \cup FloatBinary => Pops(op) = 2 /\ Pushes(op) = 1 /\ OperandWords(op) = 0
BY DEF Pops, Pushes, OperandWords, HasOperand, HasI4Operand, CondBranch, IntBranch, FloatBranch,
       Load, Store, IntUnary, FloatUnary, IntBinary, FloatBinary

LEMMA Unwrapped == ASSUME NEW k \in Slots PROVE Slot(k) = k
BY Sizes DEF Slots, Slot

\* An instruction that goes on with the next one and keeps out of frames.
LEMMA GoesThrough ==
  ASSUME Sound, NEW ops, At(ops), ops \cap (Diverts \cup {"ENTER"}) = {},
         NEW c, Dispatch(c) \/ Dispatch2(c), NEW n, NEW pc, MovedTo(A, c, pc, A.ps, Slot(n)),
         n = A.ofs - Pops(Opcode) + Pushes(Opcode), pc = A.pc + 1 + OperandWords(Opcode),
         prog' = prog, frames' = frames,
         SameOwned(image, image', frames, acts), Noted(image', A.ps) = Noted(image, A.ps)
  PROVE  CompiledInv'
<1>1. Running BY DEF At
<1>2. A \in ActivationRecord BY <1>1, RunningTyped DEF Sound
<1>3. PICK e \in Indices(Insns), i \in Indices(Insns) : Here(e, i) BY <1>1, SomewhereHere
<1>4. Slot(n) = n
  <2>1. A.ofs - Pops(Opcode) + Pushes(Opcode) \in Slots BY <1>3, NextInstruction
  <2>2. QED BY <2>1, Unwrapped
<1>5. PICK b : MovedTo(A, b, pc, A.ps, n) /\ acts' = [acts EXCEPT ![Level] = b]
  <2>1. MovedTo(A, c, pc, A.ps, n) BY <1>4
  <2>2. MovedTo(A, Reloaded(c), pc, A.ps, n) BY <1>2, <2>1, ReloadMoves
  <2>3. QED BY <2>1, <2>2 DEF Dispatch, Dispatch2, Continue
<1>6. QED BY <1>5, FallsThrough

LEMMA MemoryKept ==
  ASSUME image' = image
  PROVE  SameOwned(image, image', frames, acts) /\ Noted(image', A.ps) = Noted(image, A.ps)
BY DEF SameOwned, SameAt

\* Instructions that only compute.
LEMMA ComputingRight ==
  ASSUME Sound, \/ Nothing \/ PushCached \/ LoadValue \/ PushStale \/ Pop \/ Unary \/ Binary
  PROVE  CompiledInv'
<1>1. Running BY DEF Nothing, PushCached, LoadValue, PushStale, Pop, Unary, Binary, At
<1>2. A \in ActivationRecord /\ A.ofs \in Int /\ A.pc \in Int BY <1>1, RunningTyped DEF Sound
<1>3. A.ofs \in Slots BY <1>1, RunningTyped DEF Sound
<1>4. ASSUME NEW ops, At(ops), ops \cap (Diverts \cup {"ENTER"}) = {},
             NEW c, Dispatch(c) \/ Dispatch2(c), NEW n, NEW pc, MovedTo(A, c, pc, A.ps, Slot(n)),
             n = A.ofs - Pops(Opcode) + Pushes(Opcode), pc = A.pc + 1 + OperandWords(Opcode),
             UNCHANGED <<prog, code, image, vm, frames, status, result>>
      PROVE  CompiledInv'
  <2>1. image' = image /\ prog' = prog /\ frames' = frames BY <1>4
  <2>2. SameOwned(image, image', frames, acts) /\ Noted(image', A.ps) = Noted(image, A.ps)
    BY <2>1, MemoryKept
  <2>3. QED BY <1>4, <2>1, <2>2, GoesThrough
<1>5. CASE Nothing
  <2> DEFINE pc == A.pc + 1
             c == [A EXCEPT !.pc = pc]
             ops == {"IGNORE", "BREAK"}
  <2>1. /\ At(ops) /\ Dispatch2(c) /\ UNCHANGED <<prog, code, image, vm, frames, status, result>>
    BY <1>5 DEF Nothing
  <2>2. ops \cap (Diverts \cup {"ENTER"}) = {} BY DEF Diverts
  <2>3. /\ A.ofs = A.ofs - Pops(Opcode) + Pushes(Opcode) /\ pc = A.pc + 1 + OperandWords(Opcode)
    <3>1. Opcode \in ops BY <2>1 DEF At
    <3>2. Pops(Opcode) = 0 /\ Pushes(Opcode) = 0 /\ OperandWords(Opcode) = 0 BY <3>1, Effects
    <3>3. QED BY <1>2, <3>2
  <2> HIDE DEF pc, ops
  <2>4. MovedTo(A, c, pc, A.ps, A.ofs) BY <1>2, Moved
  <2>5. MovedTo(A, c, pc, A.ps, Slot(A.ofs)) BY <1>3, <2>4, Unwrapped
  <2> HIDE DEF c
  <2>6. QED BY <1>4, <2>1, <2>2, <2>3, <2>5
<1>6. CASE PushCached
  <2> DEFINE v == IF Opcode = "CONST" THEN R2 ELSE Signed(R2 + A.ps)
             pc == A.pc + 2
             k == A.ofs + 1
             n == Slot(k)
             c == [A EXCEPT !.pc = pc, !.ofs = n, !.opStack[n] = v, !.r0 = v, !.r1 = A.r0]
             ops == {"CONST", "LOCAL"}
  <2>1. /\ At(ops) /\ Dispatch2(c) /\ UNCHANGED <<prog, code, image, vm, frames, status, result>>
    BY <1>6 DEF PushCached
  <2>2. ops \cap (Diverts \cup {"ENTER"}) = {} BY DEF Diverts
  <2>3. k = A.ofs - Pops(Opcode) + Pushes(Opcode) /\ pc = A.pc + 1 + OperandWords(Opcode)
    <3>1. Opcode \in ops BY <2>1 DEF At
    <3>2. Pops(Opcode) = 0 /\ Pushes(Opcode) = 1 /\ OperandWords(Opcode) = 1 BY <3>1, Effects
    <3>3. QED BY <1>2, <3>2
  <2> HIDE DEF pc, ops, v, k
  <2>4. MovedTo(A, c, pc, A.ps, Slot(k)) BY <1>2, Moved
  <2> HIDE DEF c
  <2>5. QED BY <1>4, <2>1, <2>2, <2>3, <2>4
<1>7. CASE LoadValue
  <2> DEFINE a == Masked(A.r0)
             v == CASE Opcode = "LOAD4" -> FetchWord(image, a)
                    [] Opcode = "LOAD2" -> Fetch2(image, a)
                    [] Opcode = "LOAD1" -> Fetch1(image, a)
             pc == A.pc + 1
             o == A.ofs
             c == [A EXCEPT !.pc = pc, !.opStack[o] = v, !.r0 = v]
  <2>1. At(Load) /\ Dispatch2(c) /\ UNCHANGED <<prog, code, image, vm, frames, status, result>>
    BY <1>7 DEF LoadValue
  <2>2. Load \cap (Diverts \cup {"ENTER"}) = {} BY DEF Diverts, Load
  <2>3. A.ofs = A.ofs - Pops(Opcode) + Pushes(Opcode) /\ pc = A.pc + 1 + OperandWords(Opcode)
    <3>1. Opcode \in Load BY <2>1 DEF At
    <3>2. Pops(Opcode) = 1 /\ Pushes(Opcode) = 1 /\ OperandWords(Opcode) = 0 BY <3>1, Effects
    <3>3. QED BY <1>2, <3>2
  <2> HIDE DEF pc, v, o
  <2>4. MovedTo(A, c, pc, A.ps, A.ofs) BY <1>2, Moved
  <2>5. MovedTo(A, c, pc, A.ps, Slot(A.ofs)) BY <1>3, <2>4, Unwrapped
  <2> HIDE DEF c
  <2>6. QED BY <1>4, <2>1, <2>2, <2>3, <2>5
<1>8. CASE PushStale
  <2> DEFINE pc == A.pc + 1
             k == A.ofs + 1
             n == Slot(k)
             c == [A EXCEPT !.pc = pc, !.ofs = n]
  <2>1. /\ At({"PUSH"}) /\ Dispatch(c)
        /\ UNCHANGED <<prog, code, image, vm, frames, status, result>>
    BY <1>8 DEF PushStale
  <2>2. {"PUSH"} \cap (Diverts \cup {"ENTER"}) = {} BY DEF Diverts
  <2>3. k = A.ofs - Pops(Opcode) + Pushes(Opcode) /\ pc = A.pc + 1 + OperandWords(Opcode)
    <3>1. Opcode = "PUSH" BY <2>1 DEF At
    <3>2. Pops(Opcode) = 0 /\ Pushes(Opcode) = 1 /\ OperandWords(Opcode) = 0 BY <3>1, Effects
    <3>3. QED BY <1>2, <3>2
  <2> HIDE DEF pc, k
  <2>4. MovedTo(A, c, pc, A.ps, Slot(k)) BY <1>2, Moved
  <2> HIDE DEF c
  <2>5. QED BY <1>4, <2>1, <2>2, <2>3, <2>4
<1>9. CASE Pop
  <2> DEFINE pc == A.pc + 1
             k == A.ofs - 1
             n == Slot(k)
             c == [A EXCEPT !.pc = pc, !.ofs = n]
  <2>1. /\ At({"POP"}) /\ Dispatch(c)
        /\ UNCHANGED <<prog, code, image, vm, frames, status, result>>
    BY <1>9 DEF Pop
  <2>2. {"POP"} \cap (Diverts \cup {"ENTER"}) = {} BY DEF Diverts
  <2>3. k = A.ofs - Pops(Opcode) + Pushes(Opcode) /\ pc = A.pc + 1 + OperandWords(Opcode)
    <3>1. Opcode = "POP" BY <2>1 DEF At
    <3>2. Pops(Opcode) = 1 /\ Pushes(Opcode) = 0 /\ OperandWords(Opcode) = 0 BY <3>1, Effects
    <3>3. QED BY <1>2, <3>2
  <2> HIDE DEF pc, k
  <2>4. MovedTo(A, c, pc, A.ps, Slot(k)) BY <1>2, Moved
  <2> HIDE DEF c
  <2>5. QED BY <1>4, <2>1, <2>2, <2>3, <2>4
<1>10. CASE Unary
  <2> DEFINE x == IF Opcode \in {"NEGI", "BCOM"} THEN A.r0 ELSE First
             v == UnaryResult(Opcode, x)
             pc == A.pc + 1
             o == A.ofs
             c == [A EXCEPT !.pc = pc, !.opStack[o] = v]
             ops == IntUnary \cup FloatUnary
  <2>1. At(ops) /\ Dispatch(c) /\ UNCHANGED <<prog, code, image, vm, frames, status, result>>
    BY <1>10 DEF Unary
  <2>2. ops \cap (Diverts \cup {"ENTER"}) = {} BY DEF Diverts, IntUnary, FloatUnary
  <2>3. A.ofs = A.ofs - Pops(Opcode) + Pushes(Opcode) /\ pc = A.pc + 1 + OperandWords(Opcode)
    <3>1. Opcode \in ops BY <2>1 DEF At
    <3>2. Pops(Opcode) = 1 /\ Pushes(Opcode) = 1 /\ OperandWords(Opcode) = 0 BY <3>1, Effects
    <3>3. QED BY <1>2, <3>2
  <2> HIDE DEF pc, v, ops, o
  <2>4. MovedTo(A, c, pc, A.ps, A.ofs) BY <1>2, Moved
  <2>5. MovedTo(A, c, pc, A.ps, Slot(A.ofs)) BY <1>3, <2>4, Unwrapped
  <2> HIDE DEF c
  <2>6. QED BY <1>4, <2>1, <2>2, <2>3, <2>5
<1>11. CASE Binary
  <2> DEFINE x == IF Opcode \in FloatBinary THEN Second ELSE A.r1
             y == IF Opcode \in FloatBinary THEN First ELSE A.r0
             pc == A.pc + 1
             k == A.ofs - 1
             n == Slot(k)
             v == BinaryResult(Opcode, x, y)
             c == [A EXCEPT !.pc = pc, !.ofs = n, !.opStack[n] = v]
             ops == IntBinary \cup FloatBinary
  <2>1. /\ At(ops)
        /\ \/ Halt("trap")
           \/ Dispatch(c) /\ UNCHANGED <<prog, code, image, vm, frames, status, result>>
    BY <1>11 DEF Binary
  <2>2. ops \cap (Diverts \cup {"ENTER"}) = {} BY DEF Diverts, IntBinary, FloatBinary
  <2>3. k = A.ofs - Pops(Opcode) + Pushes(Opcode) /\ pc = A.pc + 1 + OperandWords(Opcode)
    <3>1. Opcode \in ops BY <2>1 DEF At
    <3>2. Pops(Opcode) = 2 /\ Pushes(Opcode) = 1 /\ OperandWords(Opcode) = 0 BY <3>1, Effects
    <3>3. QED BY <1>2, <3>2
  <2>4. CASE Halt("trap") BY <2>4 DEF Halt, CompiledInv
  <2> HIDE DEF pc, v, ops, k
  <2>5. MovedTo(A, c, pc, A.ps, Slot(k)) BY <1>2, Moved
  <2> HIDE DEF c
  <2>6. QED BY <1>4, <2>1, <2>2, <2>3, <2>4, <2>5
<1>12. QED BY <1>5, <1>6, <1>7, <1>8, <1>9, <1>10, <1>11

\* The frame of the running function.
LEMMA FrameHere ==
  ASSUME Sound, Running, NEW e \in Indices(Insns), NEW i \in Indices(Insns), Here(e, i),
         Op(Insns, i) # "ENTER"
  PROVE  LET b == Below(frames, acts, Level, Calls)
         IN  /\ A.ps = b - Arg(Insns, e) /\ Under(frames, acts, A.ps, Level, Calls)
             /\ Inside4(A.ps + 4) /\ Noted(image, A.ps) = b /\ b \in Int /\ A.ps \in Int
             /\ Arg(Insns, e) >= 8 /\ Arg(Insns, e) \in Int
<1>1. Op(Insns, e) = "ENTER" BY DEF Here, RunsAt, Insns, InFunction
<1>2. Arg(Insns, e) >= 8 BY <1>1, SoundFacts DEF WellFormed
<1>3. Level > 0 /\ A.ps \in Int BY RunningTyped DEF Sound
<1>4. Below(frames, acts, Level, Calls) \in Int BY <1>3, Lowest
<1>5. QED BY <1>2, <1>3, <1>4, CodeTyped DEF Here, RunsAt, Insns, A, Sound

LEMMA OutsideWritten ==
  ASSUME Sound, Running, NEW ops, At(ops), ops \cap (Diverts \cup {"ENTER"}) = {},
         \A x \in 0 .. MemSize + 3 : x \notin Written => image'[x] = image[x]
  PROVE  SameOwned(image, image', frames, acts) /\ Noted(image', A.ps) = Noted(image, A.ps)
<1>1. PICK e \in Indices(Insns), i \in Indices(Insns) : Here(e, i) BY SomewhereHere
<1>2. Op(Insns, i) # "ENTER" BY <1>1, NextInstruction
<1>3. Inside4(A.ps + 4) /\ A.ps \in Int /\ Level > 0 BY <1>1, <1>2, FrameHere DEF Running
<1>4. Written \cap Reserved = {} BY SoundFacts DEF WellBehaved
<1> DEFINE m == image'
<1>5. \A x \in (0 .. MemSize + 3) \cap Reserved : m[x] = image[x] BY <1>4
<1> HIDE DEF m
<1>6. SameOwned(image, m, frames, acts) /\ Noted(m, A.ps) = Noted(image, A.ps)
  BY <1>3, <1>5, OtherStores
<1>7. QED BY <1>6 DEF m

\* An argument goes between the two words of the frame and the frame below which it lies.
LEMMA ArgumentPlaced ==
  ASSUME Sound, At({"ARG"})
  PROVE  LET a == R2 + A.ps
             b == Below(frames, acts, Level, Calls)
         IN  /\ Masked(a) = a /\ a \in Int /\ a >= A.ps + 8 /\ a + 4 <= b
             /\ Inside4(A.ps + 4) /\ Level > 0 /\ b \in Int
<1> DEFINE a == R2 + A.ps
           b == Below(frames, acts, Level, Calls)
<1>1. Running /\ ~ FetchFails BY DEF At
<1>2. A.ps \in Int BY <1>1, RunningTyped DEF Sound
<1>3. PICK e \in Indices(Insns), i \in Indices(Insns) : Here(e, i) BY <1>1, SomewhereHere
<1>4. /\ Opcode = "ARG" /\ Opcode = Op(Insns, i) /\ InFunction(Insns, e, i)
      /\ Opcode \in HasOperand \ CondBranch => R2 = Arg(Insns, i)
  BY <1>1, <1>3, NextInstruction
<1>5. /\ A.ps = b - Arg(Insns, e) /\ b \in Int /\ Arg(Insns, e) \in Int
      /\ Inside4(A.ps + 4) /\ Level > 0
  BY <1>1, <1>3, <1>4, FrameHere DEF Running
<1>6. R2 \in 8 .. Arg(Insns, e) - 4
  <2>1. "ARG" \in HasOperand \ CondBranch BY DEF HasOperand, CondBranch, IntBranch, FloatBranch
  <2>2. WellFormed(Insns, prog.depth) BY SoundFacts
  <2>3. QED BY <1>3, <1>4, <2>1, <2>2 DEF WellFormed
<1>7. A.ps > 0 /\ b <= MemSize - 4
  <2>1. A.ps > StackBottom /\ StackBottom >= 0 BY <1>2, <1>1, SoundFacts, Sizes DEF FetchFails, StackBottom
  <2>2. StackBottom \in Int BY Sizes DEF StackBottom
  <2>3. Roomy(b) BY <1>5, Lowest
  <2>4. QED BY <1>2, <1>5, <2>1, <2>2, <2>3, Sizes DEF Roomy
<1>8. Masked(a) = a /\ a \in Int /\ a >= A.ps + 8 /\ a + 4 <= b
  <2>1. a \in 0 .. MemSize - 1 /\ a \in Int /\ a >= A.ps + 8 /\ a + 4 <= b
    <3> HIDE DEF b
    <3>1. QED BY <1>2, <1>5, <1>6, <1>7, Sizes
  <2>2. QED BY <2>1, Sizes DEF Masked
<1>9. QED BY <1>5, <1>8

LEMMA ArgumentApart ==
  ASSUME Sound, Argument
  PROVE  SameOwned(image, image', frames, acts) /\ Noted(image', A.ps) = Noted(image, A.ps)
<1> DEFINE a == R2 + A.ps
           b == Below(frames, acts, Level, Calls)
<1>1. At({"ARG"}) /\ image' = Put(image, Masked(a), 4, A.r0) BY DEF Argument
<1>2. A.ps \in Int BY <1>1, RunningTyped DEF Sound, At
<1>3. image \in Memory /\ DOMAIN image = 0 .. MemSize + 3 BY SoundFacts DEF Memory
<1>4. Level > 0 /\ b \in Int BY <1>1, ArgumentPlaced
<1>5. Masked(a) = a /\ a \in Int /\ a >= A.ps + 8 /\ a + 4 <= b /\ Inside4(A.ps + 4)
  BY <1>1, ArgumentPlaced
<1> HIDE DEF a, b
<1>6. \A x \in 0 .. MemSize + 3 : x < A.ps + 8 \/ x >= b => image'[x] = image[x]
  <2>1. image' = Put(image, a, 4, A.r0) BY <1>1, <1>5
  <2>2. QED BY <1>2, <1>3, <1>4, <1>5, <2>1 DEF Put
<1>7. SameOwned(image, image', frames, acts)
  <2> DEFINE m == image'
  <2>1. \A x \in 0 .. MemSize + 3 : x >= Below(frames, acts, Level, Calls) => m[x] = image[x]
    BY <1>6 DEF b
  <2> HIDE DEF m
  <2>2. SameOwned(image, m, frames, acts) BY <1>4, <2>1, LowStores
  <2>3. QED BY <2>2 DEF m
<1>8. Noted(image', A.ps) = Noted(image, A.ps)
  <2> DEFINE m == image'
             x == A.ps + 4
  <2>1. \A y \in x .. x + 3 : y \in 0 .. MemSize + 3 /\ y < A.ps + 8
    BY <1>2, <1>5, Sizes DEF Inside4
  <2>2. \A y \in x .. x + 3 : m[y] = image[y] BY <1>6, <2>1
  <2>3. x \in Int BY <1>2
  <2> HIDE DEF m, x
  <2>4. FetchWord(m, x) = FetchWord(image, x) BY <2>2, <2>3, SameFetch
  <2>5. QED BY <2>4 DEF Noted, m, x
<1>9. QED BY <1>7, <1>8

\* Instructions that write to variables and arguments.
LEMMA StoringRight ==
  ASSUME Sound, StoreValue \/ Argument \/ BlockCopy
  PROVE  CompiledInv'
<1>1. Running BY DEF StoreValue, Argument, BlockCopy, At
<1>2. /\ A \in ActivationRecord /\ A.ofs \in Int /\ A.pc \in Int /\ A.ps \in Int
      /\ A.r0 \in Int /\ A.r1 \in Int
  BY <1>1, RunningTyped DEF Sound
<1>3. image \in Memory /\ DOMAIN image = 0 .. MemSize + 3 BY SoundFacts DEF Memory
<1>4. CASE StoreValue
  <2> DEFINE pc == A.pc + 1
             k == A.ofs - 2
             n == Slot(k)
             c == [A EXCEPT !.pc = pc, !.ofs = n]
  <2>1. /\ At(Store) /\ Dispatch(c) /\ prog' = prog /\ frames' = frames
        /\ image' = Put(image, Masked(A.r1), StoreBytes[Opcode], A.r0)
    BY <1>4 DEF StoreValue
  <2>2. Store \cap (Diverts \cup {"ENTER"}) = {} BY DEF Diverts, Store
  <2>3. k = A.ofs - Pops(Opcode) + Pushes(Opcode) /\ pc = A.pc + 1 + OperandWords(Opcode)
    <3>1. Opcode \in Store BY <2>1 DEF At
    <3>2. Pops(Opcode) = 2 /\ Pushes(Opcode) = 0 /\ OperandWords(Opcode) = 0 BY <3>1, Effects
    <3>3. QED BY <1>2, <3>2
  <2>4. \A x \in 0 .. MemSize + 3 : x \notin Written => image'[x] = image[x]
    BY <1>3, <2>1 DEF Written, Put
  <2>5. SameOwned(image, image', frames, acts) /\ Noted(image', A.ps) = Noted(image, A.ps)
    BY <1>1, <2>1, <2>2, <2>4, OutsideWritten
  <2> HIDE DEF pc, k
  <2>6. MovedTo(A, c, pc, A.ps, Slot(k)) BY <1>2, Moved
  <2> HIDE DEF c
  <2>7. QED BY <2>1, <2>2, <2>3, <2>5, <2>6, GoesThrough
<1>5. CASE BlockCopy
  <2> DEFINE pc == A.pc + 2
             k == A.ofs - 2
             n == Slot(k)
             c == [A EXCEPT !.pc = pc, !.ofs = n]
             ops == {"BLOCK_COPY"}
  <2>1. CASE Halt("error") \/ Halt("undefined") BY <2>1 DEF Halt, CompiledInv
  <2>2. CASE ~ (Halt("error") \/ Halt("undefined"))
    <3>1. /\ At(ops) /\ Dispatch(c) /\ prog' = prog /\ frames' = frames
          /\ image' = Copied(image, A.r1, A.r0, R2)
      BY <1>5, <2>2 DEF BlockCopy
    <3>2. ops \cap (Diverts \cup {"ENTER"}) = {} BY DEF Diverts
    <3>3. k = A.ofs - Pops(Opcode) + Pushes(Opcode) /\ pc = A.pc + 1 + OperandWords(Opcode)
      <4>1. Opcode = "BLOCK_COPY" BY <3>1 DEF At
      <4>2. Pops(Opcode) = 2 /\ Pushes(Opcode) = 0 /\ OperandWords(Opcode) = 1 BY <4>1, Effects
      <4>3. QED BY <1>2, <4>2
    <3>4. \A x \in 0 .. MemSize + 3 : x \notin Written => image'[x] = image[x]
      <4>1. ~ At(Store) BY <3>1 DEF At, Store
      <4>2. QED BY <1>3, <3>1, <4>1 DEF Written, Copied
    <3>5. SameOwned(image, image', frames, acts) /\ Noted(image', A.ps) = Noted(image, A.ps)
      BY <1>1, <3>1, <3>2, <3>4, OutsideWritten
    <3> HIDE DEF pc, k, ops
    <3>6. MovedTo(A, c, pc, A.ps, Slot(k)) BY <1>2, Moved
    <3> HIDE DEF c
    <3>7. QED BY <3>1, <3>2, <3>3, <3>5, <3>6, GoesThrough
  <2>3. QED BY <2>1, <2>2
<1>6. CASE Argument
  <2> DEFINE pc == A.pc + 2
             k == A.ofs - 1
             n == Slot(k)
             c == [A EXCEPT !.pc = pc, !.ofs = n]
             ops == {"ARG"}
  <2>1. At(ops) /\ Dispatch(c) /\ prog' = prog /\ frames' = frames BY <1>6 DEF Argument
  <2>2. ops \cap (Diverts \cup {"ENTER"}) = {} BY DEF Diverts
  <2>3. k = A.ofs - Pops(Opcode) + Pushes(Opcode) /\ pc = A.pc + 1 + OperandWords(Opcode)
    <3>1. Opcode = "ARG" BY <2>1 DEF At
    <3>2. Pops(Opcode) = 1 /\ Pushes(Opcode) = 0 /\ OperandWords(Opcode) = 1 BY <3>1, Effects
    <3>3. QED BY <1>2, <3>2
  <2>4. SameOwned(image, image', frames, acts) /\ Noted(image', A.ps) = Noted(image, A.ps)
    BY <1>6, ArgumentApart
  <2> HIDE DEF pc, k, ops
  <2>5. MovedTo(A, c, pc, A.ps, Slot(k)) BY <1>2, Moved
  <2> HIDE DEF c
  <2>6. QED BY <2>1, <2>2, <2>3, <2>4, <2>5, GoesThrough
<1>7. QED BY <1>4, <1>5, <1>6

\* Jumps and branches.
LEMMA WithinFunction ==
  ASSUME NEW c, Len(c) \in Nat, NEW e, NEW i, NEW t, InFunction(c, e, i), SameFunction(c, i, t),
         Op(c, t) # "ENTER"
  PROVE  InFunction(c, e, t)
<1>1. /\ i \in Int /\ e \in 0 .. i /\ Op(c, e) = "ENTER"
      /\ \A k \in e + 1 .. i : Op(c, k) # "ENTER"
  BY DEF InFunction, Indices
<1>2. /\ t \in Indices(c) /\ t \in Nat
      /\ \A k \in i + 1 .. t : Op(c, k) # "ENTER"
      /\ \A k \in t + 1 .. i : Op(c, k) # "ENTER"
  BY DEF SameFunction, Indices
<1>3. e <= t
  <2>1. ASSUME t < e PROVE FALSE
    <3>1. e \in t + 1 .. i BY <1>1, <1>2, <2>1
    <3>2. QED BY <1>1, <1>2, <3>1
  <2>2. QED BY <1>1, <1>2, <2>1
<1>4. \A k \in e + 1 .. t : k \in e + 1 .. i \/ k \in i + 1 .. t BY <1>1, <1>2
<1>5. QED BY <1>1, <1>2, <1>3, <1>4 DEF InFunction

LEMMA Goes ==
  ASSUME Sound, Running, NEW e \in Indices(Insns), NEW i \in Indices(Insns), Here(e, i),
         Op(Insns, i) # "ENTER",
         NEW j \in Indices(Insns), InFunction(Insns, e, j), Op(Insns, j) # "ENTER",
         NEW c, Dispatch(c), NEW n, NEW pc, MovedTo(A, c, pc, A.ps, Slot(n)),
         pc = Place(prog, j), n \in Slots, n = BaseOf(frames, Level, Calls) + prog.depth[j],
         UNCHANGED <<prog, code, image, vm, frames, status, result>>
  PROVE  CompiledInv'
<1>1. A \in ActivationRecord BY RunningTyped DEF Sound
<1>2. image' = image /\ prog' = prog /\ frames' = frames OBVIOUS
<1>3. SameOwned(image, image', frames, acts) /\ Noted(image', A.ps) = Noted(image, A.ps)
  BY <1>2, MemoryKept
<1> DEFINE b == Reloaded(c)
<1>4. MovedTo(A, c, pc, A.ps, n) BY Unwrapped
<1>5. MovedTo(A, b, pc, A.ps, n) BY <1>1, <1>4, ReloadMoves
<1>6. acts' = [acts EXCEPT ![Level] = b] BY DEF Dispatch, Continue
<1> HIDE DEF b
<1>7. QED BY <1>2, <1>3, <1>5, <1>6, Stays

LEMMA JumpingRight ==
  ASSUME Sound, Branch \/ Jump
  PROVE  CompiledInv'
<1>1. Running BY DEF Branch, Jump, At
<1>2. /\ A \in ActivationRecord /\ A.ofs \in Int /\ A.pc \in Int /\ A.r0 \in Int
  BY <1>1, RunningTyped DEF Sound
<1>3. PICK e \in Indices(Insns), i \in Indices(Insns) : Here(e, i) BY <1>1, SomewhereHere
<1>4. Len(Insns) \in Nat BY CodeTyped DEF Sound
<1>5. CASE Branch
  <2> DEFINE k == A.ofs - 2
             n == Slot(k)
  <2>1. /\ At(CondBranch) /\ UNCHANGED <<prog, code, image, vm, frames, status, result>>
        /\ \E pc \in {R2, A.pc + 2} : Dispatch([A EXCEPT !.pc = pc, !.ofs = n])
    BY <1>5 DEF Branch
  <2>2. PICK pc \in {R2, A.pc + 2} : Dispatch([A EXCEPT !.pc = pc, !.ofs = n]) BY <2>1
  <2> DEFINE c == [A EXCEPT !.pc = pc, !.ofs = n]
  <2>3. /\ Opcode = Op(Insns, i) /\ Opcode \in CondBranch /\ InFunction(Insns, e, i)
        /\ Opcode \in CondBranch =>
             /\ Arg(Insns, i) \in Indices(Insns) /\ R2 = Place(prog, Arg(Insns, i))
             /\ SameFunction(Insns, i, Arg(Insns, i)) /\ Op(Insns, Arg(Insns, i)) # "ENTER"
             /\ prog.depth[Arg(Insns, i)] = After(Insns, prog.depth, i)
        /\ prog.depth[i] \in Nat /\ BaseOf(frames, Level, Calls) \in Nat
        /\ A.ofs = BaseOf(frames, Level, Calls) + prog.depth[i]
        /\ A.ofs - Pops(Opcode) + Pushes(Opcode) \in Slots
        /\ Opcode \notin Diverts =>
             /\ i + 1 \in Indices(Insns) /\ InFunction(Insns, e, i + 1)
             /\ Op(Insns, i + 1) # "ENTER" /\ prog.depth[i + 1] = After(Insns, prog.depth, i)
             /\ Place(prog, i + 1) = A.pc + 1 + OperandWords(Opcode)
    BY <1>3, <2>1, NextInstruction
  <2>4. Pops(Opcode) = 2 /\ Pushes(Opcode) = 0 /\ OperandWords(Opcode) = 1 BY <2>3, Effects
  <2>5. Opcode \notin Diverts /\ Op(Insns, i) # "ENTER"
    BY <2>3 DEF Diverts, CondBranch, IntBranch, FloatBranch
  <2>6. \E j \in Indices(Insns) :
          /\ InFunction(Insns, e, j) /\ Op(Insns, j) # "ENTER" /\ pc = Place(prog, j)
          /\ prog.depth[j] = After(Insns, prog.depth, i)
    <3>1. CASE pc = R2
      <4>1. InFunction(Insns, e, Arg(Insns, i)) BY <1>4, <2>3, WithinFunction
      <4>2. QED BY <2>3, <3>1, <4>1
    <3>2. CASE pc = A.pc + 2
      <4>1. pc = A.pc + 1 + OperandWords(Opcode) BY <1>2, <2>4, <3>2
      <4>2. QED BY <2>3, <2>5, <4>1
    <3>3. QED BY <2>2, <3>1, <3>2
  <2>7. PICK j \in Indices(Insns) :
          /\ InFunction(Insns, e, j) /\ Op(Insns, j) # "ENTER" /\ pc = Place(prog, j)
          /\ prog.depth[j] = After(Insns, prog.depth, i)
    BY <2>6
  <2>8. k \in Slots /\ k = BaseOf(frames, Level, Calls) + prog.depth[j]
    <3>1. A.ofs - 2 + 0 \in Slots BY <2>3, <2>4
    <3>2. prog.depth[j] = prog.depth[i] - 2 + 0 BY <2>3, <2>4, <2>7 DEF After
    <3>3. QED BY <1>2, <2>3, <3>1, <3>2
  <2> HIDE DEF k
  <2>9. MovedTo(A, c, pc, A.ps, Slot(k)) BY <1>2, Moved
  <2>10. Dispatch(c) BY <2>2
  <2> HIDE DEF c
  <2>11. QED BY <1>1, <1>3, <2>1, <2>5, <2>7, <2>8, <2>9, <2>10, Goes
<1>6. CASE Jump
  <2>1. CASE Halt("error") BY <2>1 DEF Halt, CompiledInv
  <2>2. CASE ~ Halt("error")
    <3> DEFINE j == A.r0
               pc == code.pointers[j]
               k == A.ofs - 1
               n == Slot(k)
               c == [A EXCEPT !.pc = pc, !.ofs = n]
    <3>1. /\ At({"JUMP"}) /\ Dispatch(c) /\ A.r0 \in 0 .. code.count - 1
          /\ UNCHANGED <<prog, code, image, vm, frames, status, result>>
      BY <1>6, <2>2 DEF Jump
    <3>2. j \in Indices(Insns) BY <3>1, CodeFacts DEF Indices, Insns, Sound
    <3>3. /\ Opcode = Op(Insns, i) /\ Opcode \in {"JUMP"} /\ InFunction(Insns, e, i)
          /\ A.pc = Place(prog, i)
          /\ prog.depth[i] \in Nat /\ BaseOf(frames, Level, Calls) \in Nat
          /\ A.ofs = BaseOf(frames, Level, Calls) + prog.depth[i]
          /\ A.ofs - Pops(Opcode) + Pushes(Opcode) \in Slots
      BY <1>3, <3>1, NextInstruction
    <3>4. /\ SameFunction(Insns, i, j) /\ Op(Insns, j) # "ENTER"
          /\ prog.depth[j] = After(Insns, prog.depth, i)
      <4>1. i \in DOMAIN code.pointers /\ code.pointers[i] = A.pc
        <5>1. DOMAIN code.pointers = Indices(Insns) BY CodeFacts DEF Indices, Insns, Sound
        <5>2. QED BY <1>3, <3>3, <5>1, CodeAt DEF Sound
      <4>2. QED BY <3>1, <3>2, <4>1, SoundFacts DEF WellBehaved, Insns
    <3>5. Pops(Opcode) = 1 /\ Pushes(Opcode) = 0 BY <3>3, Effects
    <3>6. InFunction(Insns, e, j)
      <4> HIDE DEF j
      <4>1. QED BY <1>4, <3>3, <3>4, WithinFunction
    <3>7. k \in Slots /\ k = BaseOf(frames, Level, Calls) + prog.depth[j]
      <4>1. A.ofs - 1 + 0 \in Slots BY <3>3, <3>5
      <4>2. prog.depth[j] = prog.depth[i] - 1 + 0 BY <3>3, <3>4, <3>5 DEF After
      <4> HIDE DEF j
      <4>3. QED BY <1>2, <3>3, <4>1, <4>2
    <3>8. pc = Place(prog, j)
      <4> HIDE DEF j
      <4>1. QED BY <3>2, CodeAt DEF Sound
    <3> HIDE DEF k, pc
    <3>9. MovedTo(A, c, pc, A.ps, Slot(k)) BY <1>2, Moved
    <3>10. Op(Insns, i) # "ENTER" BY <3>3
    <3> HIDE DEF c, j
    <3>11. QED BY <1>1, <1>3, <3>1, <3>2, <3>4, <3>6, <3>7, <3>8, <3>9, <3>10, Goes
  <2>3. QED BY <2>1, <2>2
<1>7. QED BY <1>5, <1>6

-----------------------------------------------------------------------------
(* OP_ENTER, OP_CALL and OP_LEAVE.                                         *)

\* A frame of the activation is as wide as its function says, and lies below
\* the frame of the caller.
LEMMA EnteringRight ==
  ASSUME Sound, Enter
  PROVE  CompiledInv'
<1>1. At({"ENTER"}) /\ Running BY DEF Enter, At
<1>2. A \in ActivationRecord /\ A.ofs \in Slots /\ A.pc \in Int /\ A.ps \in Int /\ Level > 0
      /\ ~ A.inSyscall
  BY <1>1, RunningTyped DEF Sound
<1>3. PICK e \in Indices(Insns), i \in Indices(Insns) : Here(e, i) BY <1>1, SomewhereHere
<1> DEFINE L == Level
           N == Calls
           B == Below(frames, acts, L, N)
           j == i + 1
           w == Arg(Insns, e)
<1>4. /\ L \in Nat /\ L = Len(acts) /\ L > 0 /\ N \in Nat /\ N = Len(frames)
      /\ Nested(prog, image, frames, acts)
      /\ image \in Memory /\ DOMAIN image = 0 .. MemSize + 3
  BY <1>2, SoundFacts DEF Calls, Memory
<1>5. /\ Opcode = Op(Insns, i) /\ Opcode \in {"ENTER"} /\ InFunction(Insns, e, i)
      /\ Opcode \in HasOperand \ CondBranch => R2 = Arg(Insns, i)
      /\ prog.depth[i] \in Nat /\ BaseOf(frames, L, N) \in Nat
      /\ A.ofs = BaseOf(frames, L, N) + prog.depth[i]
      /\ Opcode \notin Diverts =>
           /\ j \in Indices(Insns) /\ InFunction(Insns, e, j)
           /\ Op(Insns, j) # "ENTER" /\ prog.depth[j] = After(Insns, prog.depth, i)
           /\ Place(prog, j) = A.pc + 1 + OperandWords(Opcode)
  BY <1>1, <1>3, NextInstruction
<1>6. e = i
  <2>1. e \in 0 .. i /\ i \in Int /\ \A k \in e + 1 .. i : Op(Insns, k) # "ENTER"
    BY <1>5 DEF InFunction, Indices
  <2>2. e # i => i \in e + 1 .. i BY <2>1
  <2>3. QED BY <1>5, <2>1, <2>2
<1>7. R2 = w /\ Opcode \notin Diverts
  <2>1. "ENTER" \in HasOperand \ CondBranch
    BY DEF HasOperand, HasI4Operand, CondBranch, IntBranch, FloatBranch
  <2>2. QED BY <1>5, <1>6, <2>1 DEF Diverts
<1>8. w \in Int /\ w >= 8
  <2>1. w \in Int BY CodeTyped DEF Sound
  <2>2. Op(Insns, e) = "ENTER" BY <1>5, <1>6
  <2>3. QED BY <2>1, <2>2, SoundFacts DEF WellFormed
<1>9. Pops(Opcode) = 0 /\ Pushes(Opcode) = 0 /\ OperandWords(Opcode) = 1 BY <1>5, Effects
<1>10. A.ps = B BY <1>3, <1>5 DEF Here, RunsAt, A, Insns
<1>11. /\ Roomy(B) /\ B \in Int
       /\ \A k \in 1 .. N : B <= frames[k].ps /\ frames[k].ps \in Int
       /\ \A k \in 1 .. L : B <= Begin(acts, k) /\ Begin(acts, k) \in Int
       /\ \A k \in 1 .. L - 1 : B <= acts[k].ps /\ acts[k].ps \in Int
  <2>1. \A k \in 1 .. L - 1 : k \in 1 .. L BY <1>4
  <2>2. QED BY <1>2, <1>4, <2>1, Lowest, NestedFacts
<1>12. CASE Halt("undefined") BY <1>12 DEF Halt, CompiledInv
<1>13. CASE ~ Halt("undefined")
  <2> DEFINE ps == A.ps - R2
             pc == A.pc + 2
             c == [A EXCEPT !.pc = pc, !.ps = ps]
             b == Reloaded(c)
             m == Put(image, FrameNote, 4, A.ps)
             cs == [acts EXCEPT ![Level] = b]
  <2>1. /\ Within(image, FrameNote, 4) /\ image' = m /\ Dispatch(c)
        /\ UNCHANGED <<prog, code, vm, frames, status, result>>
    BY <1>13 DEF Enter
  <2>2. acts' = cs BY <2>1 DEF Dispatch, Continue
  <2>3. ps = B - w /\ ps \in Int /\ FrameNote = ps + 4 /\ ps + 8 <= B
    <3>1. FrameNote = A.ps - R2 + 4 BY DEF FrameNote
    <3> HIDE DEF B, w
    <3>2. QED BY <1>7, <1>8, <1>10, <1>11, <3>1
  <2>4. Inside4(ps + 4) /\ ps + 4 .. (ps + 4) + 3 \subseteq 0 .. MemSize + 3
    <3>1. ps + 4 .. ps + 4 + 3 \subseteq 0 .. MemSize + 3 BY <1>4, <2>1, <2>3 DEF Within
    <3> HIDE DEF ps
    <3>2. ps + 4 \in ps + 4 .. ps + 4 + 3 /\ ps + 7 \in ps + 4 .. ps + 4 + 3 BY <2>3
    <3>3. ps + 4 \in 0 .. MemSize + 3 /\ ps + 7 \in 0 .. MemSize + 3 BY <3>1, <3>2
    <3>4. QED BY <2>3, <3>1, <3>3, Sizes DEF Inside4
  <2>5. Noted(m, ps) = B
    <3>1. A.ps \in Word
      <4>1. HalfMod \in Nat /\ MemSize <= HalfMod /\ MemSize \in Nat BY SoundFacts, WordSizes, Sizes
      <4> HIDE DEF B
      <4>2. QED BY <1>10, <1>11, <4>1 DEF Roomy, Word
    <3> HIDE DEF ps
    <3>2. ps + 4 \in Int /\ image \in [0 .. MemSize + 3 -> Byte] BY <1>4, <2>3 DEF Memory
    <3>3. FetchWord(Put(image, ps + 4, 4, A.ps), ps + 4) = A.ps BY <2>4, <3>1, <3>2, PutThere
    <3>4. QED BY <1>10, <2>3, <3>3 DEF Noted
  <2>6. SameOwned(image, m, frames, acts)
    <3>1. \A x \in 0 .. MemSize + 3 : x >= B => m[x] = image[x]
      <4> HIDE DEF B, ps
      <4>1. QED BY <1>4, <1>11, <2>3 DEF Put
    <3> HIDE DEF m
    <3>2. QED BY <1>2, <3>1, LowStores
  <2>7. Under(frames, acts, ps, L, N)
    <3> HIDE DEF B, ps, L, N
    <3>1. QED BY <1>11, <2>3 DEF Under
  <2>8. MovedTo(A, b, pc, ps, A.ofs)
    <3> HIDE DEF ps, pc
    <3>1. MovedTo(A, c, pc, ps, A.ofs) BY <1>2, Moved
    <3> HIDE DEF c
    <3>2. QED BY <1>2, <3>1, ReloadMoves
  <2> HIDE DEF b, ps, m
  <2>9. b.entry = A.entry /\ ~ b.inSyscall /\ b.pc = pc /\ b.ps = ps /\ b.ofs = A.ofs
    BY <1>2, <2>8 DEF MovedTo
  <2>10. cs[Level] = b /\ Below(frames, cs, L, N) = B /\ Under(frames, cs, ps, Level, N)
    <3>1. \A k \in 1 .. N : frames[k] = frames[k] OBVIOUS
    <3>2. cs = [acts EXCEPT ![Level] = b] OBVIOUS
    <3> HIDE DEF cs, N
    <3>3. cs[Level] = b BY <1>2, <1>4, <2>9, <3>1, <3>2, Renewed
    <3>4. \A a : Under(frames, acts, a, Level, N) => Under(frames, cs, a, Level, N)
      BY <1>2, <1>4, <2>9, <3>1, <3>2, Renewed
    <3>5. Below(frames, cs, Level, N) = Below(frames, acts, Level, N)
      BY <2>9, <3>3 DEF Below, Begin, A
    <3>6. QED BY <2>7, <3>3, <3>4, <3>5
  <2>11. pc = Place(prog, j) /\ A.ofs = BaseOf(frames, L, N) + prog.depth[j]
    <3>1. prog.depth[j] = prog.depth[i] - 0 + 0 BY <1>5, <1>7, <1>9 DEF After
    <3>2. pc = A.pc + 1 + 1 BY <1>2
    <3>3. QED BY <1>5, <1>7, <1>9, <3>1, <3>2
  <2> HIDE DEF cs, pc, j, B
  <2>12. RunsAt(prog, m, frames, cs, L, N, e, j)
    <3>1. InFunction(Insns, e, j) /\ Op(Insns, j) # "ENTER" BY <1>5, <1>7
    <3>2. ps = Below(frames, cs, L, N) - w /\ Noted(m, ps) = Below(frames, cs, L, N)
      BY <2>3, <2>5, <2>10
    <3>3. QED BY <2>4, <2>9, <2>10, <2>11, <3>1, <3>2 DEF RunsAt, Insns
  <2>13. Active(prog, m, frames, cs, L, N)
    <3>1. j \in Indices(Insns) BY <1>5, <1>7
    <3>2. QED BY <2>9, <2>10, <2>12, <3>1 DEF Active, Insns
  <2>14. AllRight(prog, m, frames, cs)
    <3>1. b.entry = acts[Len(acts)].entry /\ cs = [acts EXCEPT ![Len(acts)] = b]
      BY <1>4, <2>9 DEF A, cs
    <3>2. Active(prog, m, frames, cs, Len(acts), Len(frames)) /\ Len(acts) > 0 BY <1>4, <2>13
    <3>3. QED BY <1>4, <2>6, <3>1, <3>2, TopChanged
  <2>15. QED BY <2>1, <2>2, <2>14 DEF CompiledInv
<1>14. QED BY <1>12, <1>13

\* What a caller leaves in its frame and on its operand stack.
LEMMA Calling ==
  ASSUME Sound, At({"CALL"})
  PROVE  LET B == Below(frames, acts, Level, Calls)
             m == SavedPc(image)
         IN  /\ A.pc + 1 \in Word /\ Slot(A.ofs - 1) = A.ofs - 1 /\ A.ofs - 1 \in Slots
             /\ Roomy(A.ps) /\ A.ps + 8 <= B /\ B \in Int
             /\ Under(frames, acts, A.ps, Level, Calls)
             /\ Waits(prog, frames, acts, A.pc + 1, A.ps, A.ofs - 1, Level, Calls)
             /\ m \in Memory /\ FetchWord(m, A.ps) = A.pc + 1 /\ Noted(m, A.ps) = B
             /\ Noted(image, A.ps) = B
             /\ \A x \in 0 .. MemSize + 3 : x >= B => m[x] = image[x]
<1> DEFINE B == Below(frames, acts, Level, Calls)
           m == SavedPc(image)
<1>1. Running /\ ~ FetchFails BY DEF At
<1>2. /\ A \in ActivationRecord /\ A.ofs \in Slots /\ A.ofs \in Int /\ A.pc \in Int /\ A.ps \in Int
      /\ Level > 0
  BY <1>1, RunningTyped DEF Sound
<1>3. PICK e \in Indices(Insns), i \in Indices(Insns) : Here(e, i) BY <1>1, SomewhereHere
<1>4. /\ Opcode = Op(Insns, i) /\ Opcode \in {"CALL"} /\ InFunction(Insns, e, i)
      /\ prog.depth[i] \in Nat /\ prog.depth[i] >= Pops(Opcode)
      /\ BaseOf(frames, Level, Calls) \in Nat
      /\ A.ofs = BaseOf(frames, Level, Calls) + prog.depth[i]
      /\ Opcode \notin Diverts =>
           i + 1 \in Indices(Insns) /\ Place(prog, i + 1) = A.pc + 1 + OperandWords(Opcode)
  BY <1>3, NextInstruction
<1>5. Opcode \notin Diverts /\ Pops(Opcode) = 1 /\ OperandWords(Opcode) = 0
  BY <1>4, Effects DEF Diverts
<1>6. A.pc + 1 = Place(prog, i + 1) /\ i + 1 \in Indices(Insns) BY <1>2, <1>4, <1>5
<1>7. A.pc + 1 \in Word BY <1>6, SoundFacts
<1>8. A.ofs - 1 \in Slots /\ (A.ofs - 1) + 1 <= OpSlots - 1
      /\ (A.ofs - 1) + 1 = BaseOf(frames, Level, Calls) + prog.depth[i]
  BY <1>2, <1>4, <1>5, Sizes DEF Slots
<1>9. /\ A.ps = B - Arg(Insns, e) /\ Under(frames, acts, A.ps, Level, Calls)
      /\ Noted(image, A.ps) = B /\ B \in Int /\ Arg(Insns, e) >= 8 /\ Arg(Insns, e) \in Int
  BY <1>1, <1>3, <1>4, FrameHere
<1>10. Waits(prog, frames, acts, A.pc + 1, A.ps, A.ofs - 1, Level, Calls)
  BY <1>3, <1>4, <1>6, <1>8, <1>9 DEF Waits, Insns
<1>11. Roomy(B) BY <1>2, Lowest
<1> HIDE DEF B
<1>12. A.ps + 8 <= B BY <1>2, <1>9
<1>13. Roomy(A.ps)
  <2>1. A.ps > StackBottom /\ StackBottom >= 0 /\ StackBottom \in Int
    BY <1>1, <1>2, SoundFacts, Sizes DEF FetchFails, StackBottom
  <2>2. QED BY <1>2, <1>9, <1>11, <1>12, <2>1, Sizes DEF Roomy
<1>14. /\ image \in Memory /\ image \in [0 .. MemSize + 3 -> Byte] /\ DOMAIN image = 0 .. MemSize + 3
       /\ 0 .. MemSize + 3 \subseteq Int
  BY SoundFacts, Sizes DEF Memory
<1>15. /\ A.ps .. A.ps + 3 \subseteq 0 .. MemSize + 3
       /\ (A.ps + 4) .. (A.ps + 4) + 3 \subseteq 0 .. MemSize + 3
       /\ A.ps + 4 \in Int /\ A.ps + 4 <= A.ps + 4
  BY <1>2, <1>13, Sizes DEF Roomy
<1>16. m = Put(image, A.ps, 4, A.pc + 1) BY DEF SavedPc
<1> HIDE DEF m
<1>17. m \in Memory BY <1>2, <1>16, PutTyped DEF Sound
<1>18. FetchWord(m, A.ps) = A.pc + 1 BY <1>2, <1>7, <1>14, <1>15, <1>16, PutThere
<1>19. Noted(m, A.ps) = B
  <2> DEFINE x == A.ps + 4
  <2>1. x \in Int BY <1>2
  <2>2. \A y \in x .. x + 3 : m[y] = image[y] BY <1>2, <1>14, <1>15, <1>16 DEF Put
  <2> HIDE DEF x
  <2>3. FetchWord(m, x) = FetchWord(image, x) BY <2>1, <2>2, SameFetch
  <2>4. QED BY <1>9, <2>3 DEF Noted, x
<1>20. \A x \in 0 .. MemSize + 3 : x >= B => m[x] = image[x]
  BY <1>2, <1>9, <1>12, <1>14, <1>16 DEF Put
<1>21. Slot(A.ofs - 1) = A.ofs - 1 BY <1>8, Unwrapped
<1>22. QED BY <1>7, <1>8, <1>9, <1>10, <1>12, <1>13, <1>17, <1>18, <1>19, <1>20, <1>21 DEF B, m

\* All calls are pending: none lies where the next return address goes.
LEMMA AllPending ==
  ASSUME Sound, Level > 0, NEW S,
         S \in SUBSET DOMAIN frames, DOMAIN frames \subseteq S
  PROVE  FramesUpTo(S) = frames
<1>1. frames \in Seq(FrameRecord) /\ Calls \in Nat /\ DOMAIN frames = 1 .. Calls /\ Calls = Len(frames)
  BY SoundFacts DEF Calls
<1> DEFINE T == {0} \cup S
<1>2. T = 0 .. Calls
  <2>1. S = 1 .. Calls BY <1>1
  <2>2. QED BY <1>1, <2>1
<1>3. Max(T) \in T /\ \A x \in T : x <= Max(T)
  <2>1. T \subseteq 0 .. Calls /\ T # {} BY <1>2
  <2> HIDE DEF T
  <2>2. QED BY <1>1, <2>1, Greatest
<1>4. Max(T) = Calls
  <2> HIDE DEF T
  <2>1. Calls \in T BY <1>1, <1>2
  <2>2. QED BY <1>1, <1>2, <1>3, <2>1
<1>5. SubSeq(frames, 1, Calls) = frames BY <1>1
<1>6. QED BY <1>4, <1>5 DEF FramesUpTo

LEMMA NonePast == ASSUME Sound, At({"CALL"}) PROVE Pending = frames
<1> DEFINE S == Outer \cup {k \in DOMAIN frames : frames[k].ps > A.ps}
<1>1. A.ps \in Int /\ Level > 0 BY RunningTyped DEF Sound, At
<1>2. S \in SUBSET DOMAIN frames BY DEF Outer
<1>3. DOMAIN frames = 1 .. Calls /\ Calls = Len(frames) /\ Nested(prog, image, frames, acts)
  BY SoundFacts DEF Calls
<1>4. DOMAIN frames \subseteq S
  <2>1. SUFFICES ASSUME NEW k \in 1 .. Calls PROVE frames[k].ps > A.ps BY <1>3
  <2>2. A.ps + 8 <= frames[k].ps BY Calling DEF Under
  <2>3. frames[k].ps \in Int BY <1>3, NestedFacts
  <2>4. QED BY <1>1, <2>2, <2>3
<1> HIDE DEF S
<1>5. FramesUpTo(S) = frames BY <1>1, <1>2, <1>4, AllPending
<1>6. QED BY <1>5 DEF Pending, S

LEMMA CallingFunction ==
  ASSUME Sound, CallFunction
  PROVE  CompiledInv'
<1>1. At({"CALL"}) /\ Running BY DEF CallFunction, At
<1>2. /\ A \in ActivationRecord /\ A.ofs \in Slots /\ A.ofs \in Int /\ A.pc \in Int /\ A.ps \in Int
      /\ Level > 0 /\ ~ A.inSyscall
  BY <1>1, RunningTyped DEF Sound
<1> DEFINE L == Level
           N == Calls
           B == Below(frames, acts, L, N)
           o == A.ofs - 1
           ret == A.pc + 1
           j == A.r0
           pc == code.pointers[j]
           m == SavedPc(image)
           c == [[A EXCEPT !.ofs = o] EXCEPT !.pc = pc]
           b == Reloaded(c)
           cs == [acts EXCEPT ![Level] = b]
           f == [level |-> L, ret |-> ret, ps |-> A.ps, base |-> o]
           fs == Append(frames, f)
<1>3. /\ ret \in Word /\ Slot(o) = o /\ o \in Slots /\ Roomy(A.ps) /\ A.ps + 8 <= B /\ B \in Int
      /\ Under(frames, acts, A.ps, L, N) /\ Waits(prog, frames, acts, ret, A.ps, o, L, N)
      /\ m \in Memory /\ FetchWord(m, A.ps) = ret /\ Noted(m, A.ps) = B
      /\ \A x \in 0 .. MemSize + 3 : x >= B => m[x] = image[x]
  BY <1>1, Calling
<1>4. /\ L \in Nat /\ L = Len(acts) /\ N \in Nat /\ N = Len(frames) /\ DOMAIN frames = 1 .. N
      /\ Nested(prog, image, frames, acts) /\ frames \in Seq(FrameRecord)
  BY SoundFacts DEF Calls
<1>5. Pending = frames BY <1>1, NonePast
<1>6. Called = [A EXCEPT !.ofs = o] /\ Called.ofs = o
  <2>1. Called = [A EXCEPT !.ofs = o] BY <1>3 DEF Called
  <2>2. QED BY <1>2, <2>1 DEF ActivationRecord
<1>7. /\ j \in 0 .. code.count - 1 /\ image' = m /\ acts' = cs /\ frames' = fs
      /\ prog' = prog /\ status' = status
  <2>1. /\ A.r0 \in 0 .. code.count - 1 /\ image' = SavedPc(image) /\ prog' = prog /\ status' = status
        /\ Dispatch([Called EXCEPT !.pc = code.pointers[A.r0]])
        /\ frames' = Append(Pending, [level |-> Level, ret |-> A.pc + 1, ps |-> A.ps, base |-> Called.ofs])
    BY DEF CallFunction
  <2>2. frames' = fs BY <1>5, <1>6, <2>1
  <2>3. Dispatch(c) BY <1>6, <2>1
  <2>4. acts' = cs BY <2>3 DEF Dispatch, Continue
  <2>5. QED BY <2>1, <2>2, <2>4
<1>8. j \in Indices(Insns) /\ pc = Place(prog, j)
  <2>1. j \in Indices(Insns) BY <1>7, CodeFacts DEF Indices, Insns, Sound
  <2> HIDE DEF j
  <2>2. QED BY <2>1, CodeAt DEF Sound
<1>9. Op(Insns, j) = "ENTER" BY <1>1, <1>8, SoundFacts DEF WellBehaved, Insns
<1>10. InFunction(Insns, j, j)
  <2> HIDE DEF j
  <2>1. j \in 0 .. j /\ j + 1 .. j = {} BY <1>8 DEF Indices
  <2>2. QED BY <1>8, <1>9, <2>1 DEF InFunction
<1>11. prog.depth[j] = 0
  <2> HIDE DEF j
  <2>1. ConsistentDepths(Insns, prog.depth, OpSlots) BY SoundFacts DEF WellFormed
  <2>2. QED BY <1>8, <1>9, <2>1 DEF ConsistentDepths
<1>12. MovedTo(A, b, pc, A.ps, o)
  <2> HIDE DEF o, pc
  <2>1. MovedTo(A, c, pc, A.ps, o) BY <1>2, Moved
  <2> HIDE DEF c
  <2>2. QED BY <1>2, <2>1, ReloadMoves
<1> HIDE DEF b, j, pc, o, ret
<1>13. b.entry = A.entry /\ ~ b.inSyscall /\ b.pc = pc /\ b.ps = A.ps /\ b.ofs = o
  BY <1>2, <1>12 DEF MovedTo
<1>14. f.level = L /\ f.ret = ret /\ f.ps = A.ps /\ f.base = o OBVIOUS
<1> HIDE DEF f
<1>15. Len(fs) = N + 1 /\ fs[N + 1] = f /\ (\A k \in 1 .. N : fs[k] = frames[k])
  BY <1>4
<1>16. SameOwned(image, m, frames, acts)
  <2> HIDE DEF m
  <2>1. QED BY <1>2, <1>3, LowStores
<1> HIDE DEF fs, m
<1>17. cs[Level] = b /\ Below(fs, cs, L, N) = B /\ BaseOf(fs, L, N) = BaseOf(frames, L, N)
       /\ Under(fs, cs, A.ps, L, N)
  <2>1. cs = [acts EXCEPT ![Level] = b] OBVIOUS
  <2>2. N \in Nat /\ \A k \in 1 .. N : fs[k] = frames[k] BY <1>4, <1>15
  <2>3. Level > 0 /\ b.entry = A.entry BY <1>2, <1>13
  <2> HIDE DEF cs, N
  <2>4. cs[Level] = b BY <2>1, <2>2, <2>3, Renewed
  <2>5. \A a : Under(frames, acts, a, Level, N) => Under(fs, cs, a, Level, N)
    BY <2>1, <2>2, <2>3, Renewed
  <2>6. N > 0 => fs[N] = frames[N]
    <3>1. N > 0 => N \in 1 .. N BY <2>2
    <3>2. QED BY <2>2, <3>1
  <2>7. /\ Below(fs, cs, Level, N) = Below(frames, acts, Level, N)
        /\ BaseOf(fs, Level, N) = BaseOf(frames, Level, N)
    BY <2>3, <2>4, <2>6 DEF Below, BaseOf, Begin, A
  <2>8. QED BY <1>3, <2>4, <2>5, <2>7
<1>18. cs = [acts EXCEPT ![Len(acts)] = b] BY <1>4
<1> HIDE DEF cs
<1>19. Waits(prog, fs, cs, ret, A.ps, o, L, N)
  BY <1>3, <1>17 DEF Waits
<1>20. FrameRight(prog, m, fs, cs, N + 1)
  <2>1. f.level \in 1 .. Len(cs) BY <1>2, <1>4, <1>14, <1>18
  <2>2. \A k \in 1 .. N + 1 : fs[k].level <= f.level
    <3>1. \A k \in 1 .. N + 1 : k \in 1 .. N \/ k = N + 1 BY <1>4
    <3>2. \A k \in 1 .. N : frames[k].level \in 1 .. L BY <1>4, NestedFacts
    <3>3. QED BY <1>4, <1>14, <1>15, <3>1, <3>2
  <2>3. (N + 1) - 1 = N BY <1>4
  <2> HIDE DEF L, N, B
  <2>4. QED BY <1>3, <1>14, <1>15, <1>17, <1>19, <2>1, <2>2, <2>3 DEF FrameRight
<1>21. Active(prog, m, fs, cs, L, N + 1)
  <2>1. N + 1 > 0 BY <1>4
  <2>2. Below(fs, cs, L, N + 1) = A.ps /\ BaseOf(fs, L, N + 1) = o
    BY <1>14, <1>15, <2>1 DEF Below, BaseOf
  <2>3. o = o + 0 BY <1>3, Sizes DEF Slots
  <2> HIDE DEF N, L
  <2>4. RunsAt(prog, m, fs, cs, L, N + 1, j, j)
    BY <1>8, <1>9, <1>10, <1>11, <1>13, <1>17, <2>2, <2>3 DEF RunsAt, Insns, L
  <2>5. QED BY <1>8, <1>13, <1>17, <2>4 DEF Active, Insns, L
<1>22. AllRight(prog, m, fs, cs)
  <2>1. b.entry = acts[Len(acts)].entry /\ f.level = Len(acts) /\ fs = Append(frames, f) /\ Len(acts) > 0
    BY <1>2, <1>4, <1>13, <1>14 DEF A, fs
  <2>2. /\ FrameRight(prog, m, fs, cs, Len(frames) + 1)
        /\ Active(prog, m, fs, cs, Len(acts), Len(frames) + 1)
    BY <1>4, <1>20, <1>21
  <2>3. QED BY <1>4, <1>16, <1>18, <2>1, <2>2, CallPushed
<1>23. QED BY <1>7, <1>22 DEF CompiledInv

\* A call is followed by an instruction of its function.
LEMMA BehindCall ==
  ASSUME Sound, NEW e \in Indices(Insns), NEW i \in Indices(Insns), InFunction(Insns, e, i),
         Op(Insns, i) = "CALL"
  PROVE  /\ i + 1 \in Indices(Insns) /\ InFunction(Insns, e, i + 1) /\ Op(Insns, i + 1) # "ENTER"
         /\ prog.depth[i + 1] = prog.depth[i] /\ prog.depth[i] \in Nat
<1>1. Op(Insns, i) \notin Diverts BY DEF Diverts
<1>2. /\ FallsInto(Insns, i) /\ prog.depth[i] \in Nat
      /\ prog.depth[i + 1] = After(Insns, prog.depth, i)
  BY <1>1, SoundFacts DEF WellFormed, ConsistentDepths
<1>3. i + 1 \in Indices(Insns) /\ Op(Insns, i + 1) # "ENTER" BY <1>2 DEF FallsInto
<1>4. prog.depth[i + 1] = prog.depth[i]
  <2>1. Pops(Op(Insns, i)) = 1 /\ Pushes(Op(Insns, i)) = 1 BY Effects
  <2>2. QED BY <1>2, <2>1 DEF After
<1>5. InFunction(Insns, e, i + 1)
  <2>1. /\ i \in Int /\ e \in 0 .. i /\ Op(Insns, e) = "ENTER"
        /\ \A k \in e + 1 .. i : Op(Insns, k) # "ENTER"
    BY DEF InFunction, Indices
  <2>2. e \in 0 .. i + 1 /\ \A k \in e + 1 .. i + 1 : k \in e + 1 .. i \/ k = i + 1 BY <2>1
  <2>3. QED BY <1>3, <2>1, <2>2 DEF InFunction
<1>6. QED BY <1>2, <1>3, <1>4, <1>5

\* The word OP_CALL reserves takes the number of the call.
LEMMA CallingSystem ==
  ASSUME Sound, CallSystem
  PROVE  CompiledInv'
<1>1. At({"CALL"}) /\ Running BY DEF CallSystem, At
<1>2. /\ A \in ActivationRecord /\ A.ofs \in Slots /\ A.ofs \in Int /\ A.pc \in Int /\ A.ps \in Int
      /\ Level > 0 /\ ~ A.inSyscall /\ A.r0 \in Word
  BY <1>1, RunningTyped DEF Sound
<1> DEFINE L == Level
           N == Calls
           B == Below(frames, acts, L, N)
           o == A.ofs - 1
           ret == A.pc + 1
           v == -1 - A.r0
           t == FetchWord(image, A.ps + 4)
           m1 == SavedPc(image)
           m == Put(m1, A.ps + 4, 4, v)
           b == [[A EXCEPT !.ofs = o] EXCEPT !.pc = A.r0, !.inSyscall = TRUE, !.stomped = t]
           cs == [acts EXCEPT ![Level] = b]
<1>3. /\ Slot(o) = o /\ Roomy(A.ps) /\ A.ps + 8 <= B /\ B \in Int
      /\ Under(frames, acts, A.ps, L, N) /\ Waits(prog, frames, acts, ret, A.ps, o, L, N)
      /\ m1 \in Memory /\ FetchWord(m1, A.ps) = ret /\ Noted(image, A.ps) = B
      /\ \A x \in 0 .. MemSize + 3 : x >= B => m1[x] = image[x]
  BY <1>1, Calling
<1>4. /\ L \in Nat /\ L = Len(acts) /\ N \in Nat /\ N = Len(frames)
      /\ Nested(prog, image, frames, acts)
  BY SoundFacts DEF Calls
<1>5. CASE Halt("undefined") BY <1>5 DEF Halt, CompiledInv
<1>6. CASE ~ Halt("undefined")
  <2>1. /\ A.r0 < 0 /\ image' = m /\ acts' = cs
        /\ UNCHANGED <<prog, code, frames, status, result>>
    <3>1. Called = [A EXCEPT !.ofs = o] BY <1>3 DEF Called
    <3>2. QED BY <1>6, <3>1 DEF CallSystem, Continue
  <2>2. /\ b.entry = A.entry /\ b.inSyscall /\ b.ps = A.ps /\ b.ofs = o /\ b.pc = A.r0
        /\ b.stomped = B
    <3>1. t = B BY <1>3 DEF Noted
    <3> HIDE DEF t, o, B
    <3>2. QED BY <1>2, <3>1 DEF ActivationRecord
  <2>3. v \in Word
    <3>1. HalfMod \in Nat BY WordSizes
    <3>2. QED BY <1>2, <2>1, <3>1 DEF Word
  <2> HIDE DEF m1, v, b, t
  <2>4. /\ A.ps \in Int /\ A.ps + 4 \in Int /\ m1 \in [0 .. MemSize + 3 -> Byte]
        /\ DOMAIN m1 = 0 .. MemSize + 3
        /\ A.ps .. A.ps + 3 \subseteq 0 .. MemSize + 3
        /\ (A.ps + 4) .. (A.ps + 4) + 3 \subseteq 0 .. MemSize + 3
    BY <1>2, <1>3, Sizes DEF Roomy, Memory
  <2>5. Noted(m, A.ps) = v BY <2>3, <2>4, PutThere DEF Noted
  <2>6. FetchWord(m, A.ps) = ret
    <3> DEFINE a == A.ps
    <3>1. \A x \in a .. a + 3 : m[x] = m1[x] BY <2>4 DEF Put
    <3>2. a \in Int BY <2>4
    <3> HIDE DEF m, a
    <3>3. FetchWord(m, a) = FetchWord(m1, a) BY <3>1, <3>2, SameFetch
    <3>4. QED BY <1>3, <3>3 DEF a
  <2>7. SameOwned(image, m, frames, acts)
    <3>1. \A x \in 0 .. MemSize + 3 : x >= B => m[x] = image[x]
      <4> HIDE DEF B
      <4>1. QED BY <1>2, <1>3, <2>4 DEF Put
    <3> HIDE DEF m
    <3>2. QED BY <1>2, <3>1, LowStores
  <2> HIDE DEF m, ret, o
  <2>8. /\ cs[Level] = b /\ Below(frames, cs, L, N) = B
        /\ Under(frames, cs, A.ps, L, N)
    <3>1. cs = [acts EXCEPT ![Level] = b] OBVIOUS
    <3>2. N \in Nat /\ \A k \in 1 .. N : frames[k] = frames[k] BY <1>4
    <3>3. Level > 0 /\ b.entry = A.entry BY <1>2, <2>2
    <3> HIDE DEF cs, N
    <3>4. cs[Level] = b BY <3>1, <3>2, <3>3, Renewed
    <3>5. \A a : Under(frames, acts, a, Level, N) => Under(frames, cs, a, Level, N)
      BY <3>1, <3>2, <3>3, Renewed
    <3>6. Below(frames, cs, Level, N) = Below(frames, acts, Level, N)
      BY <3>3, <3>4 DEF Below, Begin, A
    <3>7. QED BY <1>3, <3>4, <3>5, <3>6
  <2> HIDE DEF cs
  <2>9. Waits(prog, frames, cs, ret, A.ps, o, L, N) BY <1>3, <2>8 DEF Waits
  <2>10. Suspended(prog, m, frames, cs, L, N)
    <3> HIDE DEF B, N
    <3>1. Noted(m, A.ps) = -1 - A.r0 BY <2>5 DEF v
    <3>2. QED BY <1>3, <2>2, <2>6, <2>8, <2>9, <3>1 DEF Suspended
  <2>11. Active(prog, m, frames, cs, L, N) BY <2>2, <2>8, <2>10 DEF Active
  <2>12. AllRight(prog, m, frames, cs)
    <3>1. b.entry = acts[Len(acts)].entry /\ cs = [acts EXCEPT ![Len(acts)] = b]
      BY <1>4, <2>2 DEF A, cs
    <3>2. Active(prog, m, frames, cs, Len(acts), Len(frames)) /\ Len(acts) > 0 BY <1>2, <1>4, <2>11
    <3>3. QED BY <1>4, <2>7, <3>1, <3>2, TopChanged
  <2>13. QED BY <2>1, <2>12 DEF CompiledInv
<1>7. QED BY <1>5, <1>6

\* The innermost activation, while the host has control.
LEMMA SuspendedHere ==
  ASSUME Sound, Level > 0, A.inSyscall
  PROVE  Suspended(prog, image, frames, acts, Level, Calls)
<1>1. /\ Level \in Nat /\ Level = Len(acts) /\ Calls \in Nat /\ Calls = Len(frames)
      /\ Nested(prog, image, frames, acts) /\ AllRight(prog, image, frames, acts)
  BY SoundFacts DEF Calls
<1>2. Cut(frames, Level, Calls) BY <1>1, NestedFacts
<1>3. ActRight(prog, image, frames, acts, Level) BY <1>1 DEF AllRight
<1>4. Calls \in 0 .. Len(frames) BY <1>1
<1>5. Active(prog, image, frames, acts, Level, Calls) BY <1>2, <1>3, <1>4 DEF ActRight
<1>6. QED BY <1>5 DEF Active, A

\* The handler's answer; what it stored leaves the frames alone.
LEMMA CallAnswered ==
  ASSUME Sound, NEW v \in HostReplies, NEW w \in HostWrites, SystemCallReturns(v, w)
  PROVE  CompiledInv'
<1> DEFINE L == Level
           N == Calls
           B == Below(frames, acts, L, N)
           n == A.ofs + 1
           m1 == Overwritten(image, w)
           m == Restored(m1)
           pc == FetchWord(m, A.ps)
           c == [A EXCEPT !.inSyscall = FALSE, !.ofs = Slot(n), !.opStack[Slot(n)] = v, !.pc = pc]
           b == Reloaded(c)
           cs == [acts EXCEPT ![Level] = b]
<1>1. InSyscall /\ Level > 0 /\ A.inSyscall BY DEF SystemCallReturns, InSyscall
<1>2. /\ L \in Nat /\ L = Len(acts) /\ N \in Nat /\ N = Len(frames)
      /\ Nested(prog, image, frames, acts) /\ AllRight(prog, image, frames, acts)
      /\ acts \in Seq(ActivationRecord) /\ image \in Memory /\ DOMAIN image = 0 .. MemSize + 3
  BY SoundFacts DEF Calls, Memory
<1>3. A \in ActivationRecord /\ A.ofs \in Slots /\ A.ofs \in Nat /\ A.ps \in Int
  <2>1. A \in ActivationRecord BY <1>1, <1>2 DEF A
  <2>2. QED BY <2>1, Sizes DEF ActivationRecord, Slots
<1>5. Suspended(prog, image, frames, acts, L, N) BY <1>1, SuspendedHere
<1>6. /\ Roomy(A.ps) /\ Under(frames, acts, A.ps, L, N) /\ A.stomped = B
      /\ Waits(prog, frames, acts, FetchWord(image, A.ps), A.ps, A.ofs, L, N)
  BY <1>5 DEF Suspended, A
<1>7. PICK e, i \in Indices(Insns) :
        /\ InFunction(Insns, e, i) /\ Op(Insns, i) = "CALL" /\ FetchWord(image, A.ps) = Place(prog, i + 1)
        /\ A.ps = B - Arg(Insns, e)
        /\ A.ofs + 1 = BaseOf(frames, L, N) + prog.depth[i] /\ A.ofs + 1 <= OpSlots - 1
  BY <1>6 DEF Waits, Insns
<1> DEFINE j == i + 1
<1>8. /\ j \in Indices(Insns) /\ InFunction(Insns, e, j) /\ Op(Insns, j) # "ENTER"
      /\ prog.depth[j] = prog.depth[i]
  BY <1>7, BehindCall
<1>9. /\ B \in Int /\ B \in Word /\ Arg(Insns, e) >= 8 /\ Arg(Insns, e) \in Int /\ A.ps + 8 <= B
  <2>1. Roomy(B) /\ B \in Int BY <1>1, Lowest
  <2>2. HalfMod \in Nat /\ MemSize \in Nat /\ MemSize <= HalfMod BY WordSizes, Sizes, SoundFacts
  <2>3. B \in Word
    <3> HIDE DEF B
    <3>1. QED BY <2>1, <2>2 DEF Roomy, Word
  <2>4. Arg(Insns, e) >= 8 /\ Arg(Insns, e) \in Int
    <3>1. Op(Insns, e) = "ENTER" BY <1>7 DEF InFunction
    <3>2. Arg(Insns, e) >= 8 BY <3>1, SoundFacts DEF WellFormed
    <3>3. QED BY <3>2, CodeTyped DEF Sound
  <2> HIDE DEF B
  <2>5. QED BY <1>3, <1>7, <2>1, <2>3, <2>4
<1>10. n \in Slots /\ Slot(n) = n
  <2>1. n \in Slots BY <1>3, <1>7, Sizes DEF Slots
  <2>2. QED BY <2>1, Unwrapped
<1>11. /\ image' = m /\ acts' = cs /\ UNCHANGED <<prog, code, vm, frames, status, result>>
  BY DEF SystemCallReturns, Dispatch, Continue
<1>12. SameOwned(image, m1, frames, acts) /\ SameAt(image, m1, A.ps) /\ m1 \in Memory
  <2>1. DOMAIN w \cap Reserved = {} BY <1>1, SoundFacts DEF WellBehaved
  <2>2. \A x \in (0 .. MemSize + 3) \cap Reserved : m1[x] = image[x] BY <1>2, <2>1 DEF Overwritten
  <2>3. m1 \in Memory
    <3>1. \A x \in DOMAIN w : w[x] \in Byte BY HostAssumption
    <3>2. QED BY <1>2, <3>1 DEF Overwritten, Memory
  <2> HIDE DEF m1
  <2>4. QED BY <1>1, <1>6, <2>2, <2>3, OtherStores
<1>13. m = Put(m1, A.ps + 4, 4, B) BY <1>6 DEF Restored
<1> HIDE DEF m1, m
<1>14. /\ A.ps + 4 \in Int /\ m1 \in [0 .. MemSize + 3 -> Byte] /\ DOMAIN m1 = 0 .. MemSize + 3
       /\ A.ps .. A.ps + 3 \subseteq 0 .. MemSize + 3
       /\ (A.ps + 4) .. (A.ps + 4) + 3 \subseteq 0 .. MemSize + 3 /\ Inside4(A.ps + 4)
  BY <1>3, <1>6, <1>12, Sizes DEF Roomy, Memory, Inside4
<1>15. Noted(m, A.ps) = B
  <2> HIDE DEF B
  <2>1. QED BY <1>9, <1>13, <1>14, PutThere DEF Noted
<1>16. pc = Place(prog, j)
  <2> DEFINE a == A.ps
  <2>1. \A x \in a .. a + 3 : m[x] = m1[x] BY <1>3, <1>13, <1>14 DEF Put
  <2>2. a \in Int BY <1>3
  <2> HIDE DEF a
  <2>3. FetchWord(m, a) = FetchWord(m1, a) BY <2>1, <2>2, SameFetch
  <2>4. FetchWord(m1, a) = FetchWord(image, a) BY <1>12 DEF SameAt, a
  <2>5. QED BY <1>7, <2>3, <2>4 DEF a
<1>17. SameOwned(image, m, frames, acts)
  <2>1. \A x \in 0 .. MemSize + 3 : x >= B => m[x] = m1[x]
    <3> HIDE DEF B
    <3>1. QED BY <1>3, <1>9, <1>13, <1>14 DEF Put
  <2>2. SameOwned(m1, m, frames, acts) BY <1>1, <2>1, LowerStores
  <2>3. QED BY <1>12, <2>2 DEF SameOwned, SameAt
<1>18. b.entry = A.entry /\ ~ b.inSyscall /\ b.pc = pc /\ b.ps = A.ps /\ b.ofs = n
  <2> HIDE DEF n, pc
  <2>1. c.entry = A.entry /\ ~ c.inSyscall /\ c.pc = pc /\ c.ps = A.ps /\ c.ofs = n /\ DOMAIN c = DOMAIN A
    BY <1>3, <1>10 DEF ActivationRecord
  <2> HIDE DEF c
  <2>2. QED BY <1>3, <2>1 DEF Reloaded, ActivationRecord
<1> HIDE DEF b, pc
<1>19. /\ cs[Level] = b /\ Below(frames, cs, L, N) = B /\ Under(frames, cs, A.ps, L, N)
  <2>1. cs = [acts EXCEPT ![Level] = b] OBVIOUS
  <2>2. N \in Nat /\ \A k \in 1 .. N : frames[k] = frames[k] BY <1>2
  <2>3. Level > 0 /\ b.entry = A.entry BY <1>1, <1>18
  <2> HIDE DEF cs, N
  <2>4. cs[Level] = b BY <2>1, <2>2, <2>3, Renewed
  <2>5. \A a : Under(frames, acts, a, Level, N) => Under(frames, cs, a, Level, N)
    BY <2>1, <2>2, <2>3, Renewed
  <2>6. Below(frames, cs, Level, N) = Below(frames, acts, Level, N)
    BY <2>3, <2>4 DEF Below, Begin, A
  <2>7. QED BY <1>6, <2>4, <2>5, <2>6
<1> HIDE DEF cs
<1>20. RunsAt(prog, m, frames, cs, L, N, e, j)
  <2>1. n = BaseOf(frames, L, N) + prog.depth[j] BY <1>7, <1>8
  <2> HIDE DEF B, N, j, n
  <2>2. QED BY <1>7, <1>8, <1>14, <1>15, <1>16, <1>18, <1>19, <2>1 DEF RunsAt, Insns
<1>21. Active(prog, m, frames, cs, L, N) BY <1>8, <1>18, <1>19, <1>20 DEF Active, Insns
<1>22. AllRight(prog, m, frames, cs)
  <2>1. b.entry = acts[Len(acts)].entry /\ cs = [acts EXCEPT ![Len(acts)] = b]
    BY <1>2, <1>18 DEF A, cs
  <2>2. Active(prog, m, frames, cs, Len(acts), Len(frames)) /\ Len(acts) > 0 BY <1>1, <1>2, <1>21
  <2>3. QED BY <1>2, <1>17, <2>1, <2>2, TopChanged
<1>23. QED BY <1>11, <1>22 DEF CompiledInv

\* OP_LEAVE finds the frame of the caller.
LEMMA Leaving ==
  ASSUME Sound, At({"LEAVE"})
  PROVE  /\ Running /\ CallerPs = Below(frames, acts, Level, Calls)
         /\ A.ofs = BaseOf(frames, Level, Calls) + 1
<1>1. Running BY DEF At
<1>2. PICK e \in Indices(Insns), i \in Indices(Insns) : Here(e, i) BY <1>1, SomewhereHere
<1>3. /\ Opcode = Op(Insns, i) /\ Opcode \in {"LEAVE"} /\ InFunction(Insns, e, i)
      /\ Opcode \in HasOperand \ CondBranch => R2 = Arg(Insns, i)
      /\ A.ofs = BaseOf(frames, Level, Calls) + prog.depth[i]
  BY <1>2, NextInstruction
<1>4. R2 = Arg(Insns, e) /\ prog.depth[i] = 1
  <2>1. "LEAVE" \in HasOperand \ CondBranch
    BY DEF HasOperand, HasI4Operand, CondBranch, IntBranch, FloatBranch
  <2>2. WellFormed(Insns, prog.depth) BY SoundFacts
  <2>3. Arg(Insns, i) = Arg(Insns, e) /\ prog.depth[i] = 1 BY <1>3, <2>2 DEF WellFormed
  <2>4. QED BY <1>3, <2>1, <2>3
<1> DEFINE b == Below(frames, acts, Level, Calls)
<1>5. A.ps = b - Arg(Insns, e) /\ b \in Int /\ Arg(Insns, e) \in Int /\ A.ps \in Int
  BY <1>1, <1>2, <1>3, FrameHere
<1> HIDE DEF b
<1>6. CallerPs = b BY <1>4, <1>5 DEF CallerPs
<1>7. QED BY <1>1, <1>3, <1>4, <1>6 DEF b

\* The last pending call is one of the running activation, or there is the
\* word of VM_Call.
LEMMA ReturnWord ==
  ASSUME Sound, At({"LEAVE"})
  PROVE  IF Calls > 0 /\ frames[Calls].level = Level
         THEN /\ FrameRight(prog, image, frames, acts, Calls) /\ CallerPs = frames[Calls].ps
              /\ SavedReturn = frames[Calls].ret /\ frames[Calls].ret \in Nat
              /\ A.ofs = frames[Calls].base + 1
         ELSE SavedReturn = -1 /\ \A j \in 1 .. Calls : frames[j].level < Level
<1>1. /\ Running /\ CallerPs = Below(frames, acts, Level, Calls)
      /\ A.ofs = BaseOf(frames, Level, Calls) + 1 /\ Level > 0
  BY Leaving DEF Running
<1>2. /\ AllRight(prog, image, frames, acts) /\ Level \in Nat /\ Level = Len(acts)
      /\ Calls \in Nat /\ Calls = Len(frames) /\ Nested(prog, image, frames, acts)
  BY SoundFacts DEF Calls
<1>3. ASSUME Calls > 0, frames[Calls].level = Level
      PROVE  /\ FrameRight(prog, image, frames, acts, Calls) /\ CallerPs = frames[Calls].ps
             /\ SavedReturn = frames[Calls].ret /\ frames[Calls].ret \in Nat
             /\ A.ofs = frames[Calls].base + 1
  <2>1. Calls \in 1 .. Calls BY <1>2, <1>3
  <2>2. FrameRight(prog, image, frames, acts, Calls) BY <1>2, <2>1 DEF AllRight
  <2>3. CallerPs = frames[Calls].ps /\ A.ofs = frames[Calls].base + 1
    BY <1>1, <1>3 DEF Below, BaseOf
  <2>4. /\ FetchWord(image, frames[Calls].ps) = frames[Calls].ret
        /\ \E i \in Indices(Insns) : i + 1 \in Indices(Insns) /\ frames[Calls].ret = Place(prog, i + 1)
    BY <2>2, BehindCall DEF FrameRight, Waits, Insns
  <2>5. frames[Calls].ret \in Nat BY <2>4, CodeAt DEF Sound
  <2>6. QED BY <2>2, <2>3, <2>4, <2>5 DEF SavedReturn
<1>4. ASSUME ~ (Calls > 0 /\ frames[Calls].level = Level)
      PROVE  SavedReturn = -1 /\ \A j \in 1 .. Calls : frames[j].level < Level
  <2>1. Level \in 1 .. Len(acts) BY <1>1, <1>2
  <2>2. CallerPs = Begin(acts, Level) BY <1>1, <1>4 DEF Below
  <2>3. SavedReturn = -1 BY <1>2, <2>1, <2>2 DEF AllRight, ActRight, SavedReturn
  <2>4. ASSUME NEW j \in 1 .. Calls PROVE frames[j].level < Level
    <3>1. Calls > 0 /\ Calls \in 1 .. Calls BY <1>2
    <3>2. frames[j].level <= frames[Calls].level BY <1>2, <3>1 DEF AllRight, FrameRight
    <3>3. /\ frames[Calls].level \in Nat /\ frames[Calls].level \in 1 .. Level
          /\ frames[j].level \in Nat
      BY <1>2, <3>1, NestedFacts
    <3>4. QED BY <1>2, <1>4, <3>1, <3>2, <3>3
  <2>5. QED BY <2>3, <2>4
<1>5. QED BY <1>3, <1>4

\* A return resumes the function that called, with its frame and operands.
LEMMA ReturningRight ==
  ASSUME Sound, Leave
  PROVE  CompiledInv'
<1>1. At({"LEAVE"}) /\ Running BY DEF Leave, At
<1>2. /\ A \in ActivationRecord /\ A.ofs \in Slots /\ A.ofs \in Nat /\ A.pc \in Int /\ A.ps \in Int
      /\ Level > 0 /\ ~ A.inSyscall
  BY <1>1, RunningTyped, Sizes DEF Sound, Slots
<1> DEFINE L == Level
           N == Calls
           n == Calls - 1
           f == frames[N]
           c == [A EXCEPT !.pc = SavedReturn, !.ps = CallerPs]
           b == Reloaded(c)
           cs == [acts EXCEPT ![Level] = b]
           fs == SubSeq(frames, 1, Len(frames) - 1)
<1>3. CASE Halt("error") BY <1>3 DEF Halt, CompiledInv
<1>4. CASE ~ Halt("error")
  <2>1. SavedReturn # -1 BY DEF Leave
  <2>2. /\ N > 0 /\ f.level = L
        /\ FrameRight(prog, image, frames, acts, N) /\ CallerPs = f.ps
        /\ SavedReturn = f.ret /\ A.ofs = f.base + 1
    BY <1>1, <2>1, ReturnWord
  <2>3. /\ L \in Nat /\ L = Len(acts) /\ N \in Nat /\ N = Len(frames)
        /\ Nested(prog, image, frames, acts) /\ AllRight(prog, image, frames, acts)
        /\ frames \in Seq(FrameRecord)
    BY SoundFacts DEF Calls
  <2>4. n \in Nat /\ N = n + 1 /\ N \in 1 .. N /\ f.base \in Nat /\ f.ps \in Int
    <3>1. n \in Nat /\ N = n + 1 /\ N \in 1 .. N BY <2>2, <2>3
    <3>2. f \in FrameRecord BY <2>3, <3>1
    <3>3. QED BY <3>1, <3>2, Sizes DEF FrameRecord, Slots
  <2>5. frames' = fs /\ acts' = cs /\ UNCHANGED <<prog, code, image, vm, status, result>>
    <3>1. frames # <<>> /\ frames[Len(frames)].level = Level BY <2>2, <2>3
    <3>2. QED BY <1>4, <3>1 DEF Leave, Dispatch, Continue
  <2>6. Len(fs) = n /\ \A k \in 1 .. n : fs[k] = frames[k] BY <2>3, <2>4
  <2>7. /\ Roomy(f.ps) /\ Under(frames, acts, f.ps, L, n)
        /\ Noted(image, f.ps) = Below(frames, acts, L, n)
        /\ Waits(prog, frames, acts, f.ret, f.ps, f.base, L, n)
    BY <2>2 DEF FrameRight
  <2>8. PICK e, i \in Indices(Insns) :
          /\ InFunction(Insns, e, i) /\ Op(Insns, i) = "CALL" /\ f.ret = Place(prog, i + 1)
          /\ f.ps = Below(frames, acts, L, n) - Arg(Insns, e)
          /\ f.base + 1 = BaseOf(frames, L, n) + prog.depth[i]
    BY <2>7 DEF Waits, Insns
  <2> DEFINE j == i + 1
  <2>9. /\ j \in Indices(Insns) /\ InFunction(Insns, e, j) /\ Op(Insns, j) # "ENTER"
        /\ prog.depth[j] = prog.depth[i]
    BY <2>8, BehindCall
  <2>10. b.entry = A.entry /\ ~ b.inSyscall /\ b.pc = f.ret /\ b.ps = f.ps /\ b.ofs = A.ofs
    <3> HIDE DEF f
    <3>1. MovedTo(A, c, f.ret, f.ps, A.ofs) BY <1>2, <2>2, Moved
    <3> HIDE DEF c
    <3>2. MovedTo(A, b, f.ret, f.ps, A.ofs) BY <1>2, <3>1, ReloadMoves
    <3> HIDE DEF b
    <3>3. QED BY <1>2, <3>2 DEF MovedTo
  <2> HIDE DEF b, fs, n
  <2>11. /\ cs[Level] = b /\ Below(fs, cs, L, n) = Below(frames, acts, L, n)
         /\ BaseOf(fs, L, n) = BaseOf(frames, L, n) /\ Under(fs, cs, f.ps, L, n)
    <3>1. cs = [acts EXCEPT ![Level] = b] OBVIOUS
    <3>2. n \in Nat /\ \A k \in 1 .. n : fs[k] = frames[k] BY <2>4, <2>6
    <3>3. Level > 0 /\ b.entry = A.entry BY <1>2, <2>10
    <3> HIDE DEF cs
    <3>4. cs[Level] = b BY <3>1, <3>2, <3>3, Renewed
    <3>5. \A a : Under(frames, acts, a, Level, n) => Under(fs, cs, a, Level, n)
      BY <3>1, <3>2, <3>3, Renewed
    <3>6. n > 0 => fs[n] = frames[n]
      <4>1. n > 0 => n \in 1 .. n BY <3>2
      <4>2. QED BY <3>2, <4>1
    <3>7. /\ Below(fs, cs, Level, n) = Below(frames, acts, Level, n)
          /\ BaseOf(fs, Level, n) = BaseOf(frames, Level, n)
      BY <3>3, <3>4, <3>6 DEF Below, BaseOf, Begin, A
    <3>8. QED BY <2>7, <3>4, <3>5, <3>7
  <2> HIDE DEF cs
  <2>12. RunsAt(prog, image, fs, cs, L, n, e, j)
    <3>1. A.ofs = BaseOf(fs, L, n) + prog.depth[j] BY <2>2, <2>8, <2>9, <2>11
    <3>2. Inside4(f.ps + 4) BY <2>4, <2>7, Sizes DEF Roomy, Inside4
    <3> HIDE DEF f, L, j
    <3>3. QED BY <2>7, <2>8, <2>9, <2>10, <2>11, <3>1, <3>2 DEF RunsAt, Insns, L, j
  <2>13. Active(prog, image, fs, cs, L, n) BY <2>9, <2>10, <2>11, <2>12 DEF Active, Insns
  <2>14. AllRight(prog, image, fs, cs)
    <3>1. b.entry = acts[Len(acts)].entry /\ cs = [acts EXCEPT ![Len(acts)] = b]
      BY <2>3, <2>10 DEF A, cs
    <3>2. Active(prog, image, fs, cs, Len(acts), Len(frames) - 1) /\ Len(acts) > 0
      BY <1>2, <2>3, <2>13 DEF n
    <3>3. SameOwned(image, image, frames, acts) BY DEF SameOwned, SameAt
    <3>4. /\ Len(frames) > 0 /\ frames[Len(frames)].level = Len(acts)
          /\ Len(fs) = Len(frames) - 1 /\ \A k \in 1 .. Len(frames) - 1 : fs[k] = frames[k]
      BY <2>2, <2>3, <2>6 DEF n
    <3>5. QED BY <2>3, <3>1, <3>2, <3>3, <3>4, CallPopped
  <2>15. QED BY <2>5, <2>14 DEF CompiledInv
<1>5. QED BY <1>3, <1>4

\* vmMain returns when none of its calls is pending.
LEMMA LeavingVmRight ==
  ASSUME Sound, LeaveVM
  PROVE  CompiledInv'
<1>1. At({"LEAVE"}) /\ SavedReturn = -1 BY DEF LeaveVM
<1>2. /\ Level \in Nat /\ Level = Len(acts) /\ Calls \in Nat /\ Calls = Len(frames) /\ Level > 0
      /\ Nested(prog, image, frames, acts) /\ DOMAIN frames = 1 .. Calls
      /\ acts \in Seq(ActivationRecord)
  BY <1>1, SoundFacts, Leaving DEF Calls, Running
<1>3. \A j \in 1 .. Calls : frames[j].level < Level
  <2>1. frames[Calls].ret \in Nat => frames[Calls].ret # -1 OBVIOUS
  <2>2. QED BY <1>1, <2>1, ReturnWord
<1>4. CASE Halt("error") BY <1>4 DEF Halt, CompiledInv
<1>5. CASE ~ Halt("error")
  <2> DEFINE cs == SubSeq(acts, 1, Level - 1)
  <2>1. /\ acts' = cs /\ frames' = FramesUpTo(Outer) /\ UNCHANGED <<prog, code, image, status>>
    BY <1>5 DEF LeaveVM
  <2>2. FramesUpTo(Outer) = frames
    <3>1. Outer \in SUBSET DOMAIN frames BY DEF Outer
    <3>2. DOMAIN frames \subseteq Outer BY <1>2, <1>3 DEF Outer
    <3>3. QED BY <1>2, <3>1, <3>2, AllPending
  <2>3. Len(cs) = Len(acts) - 1 /\ \A i \in 1 .. Len(acts) - 1 : cs[i] = acts[i] BY <1>2
  <2>4. SameOwned(image, image, frames, acts) BY DEF SameOwned, SameAt
  <2>5. Len(acts) > 0 /\ \A j \in 1 .. Len(frames) : frames[j].level < Len(acts) BY <1>2, <1>3
  <2> HIDE DEF cs
  <2>6. AllRight(prog, image, frames, cs) BY <1>2, <2>3, <2>4, <2>5, VmLeft
  <2>7. QED BY <2>1, <2>2, <2>6 DEF CompiledInv
<1>6. QED BY <1>4, <1>5

\* What is pending when the host calls lies above the frame VM_Call makes.
LEMMA HostCallsBelow ==
  ASSUME Sound, HostMayCall, NEW m2,
         \A x \in 0 .. MemSize + 3 : x >= vm.programStack => m2[x] = image[x]
  PROVE  /\ SameOwned(image, m2, frames, acts)
         /\ Level > 0 => SameAt(image, m2, acts[Level].ps)
         /\ vm.programStack <= MemSize /\ vm.programStack \in Int
<1> DEFINE p == vm.programStack
<1>1. /\ Level \in Nat /\ Level = Len(acts) /\ Calls \in Nat /\ Calls = Len(frames)
      /\ Nested(prog, image, frames, acts) /\ ReentryNests /\ acts \in Seq(ActivationRecord)
  BY SoundFacts DEF Calls
<1>2. ASSUME NEW a, Roomy(a), p <= a, p \in Int PROVE SameAt(image, m2, a)
  <2>1. a \in Int /\ MemSize \in Nat /\ a + 7 <= MemSize + 3 /\ a >= 0 BY <1>2, Sizes DEF Roomy
  <2> HIDE DEF p
  <2>2. \A x \in a .. a + 7 : x \in 0 .. MemSize + 3 /\ x >= p BY <1>2, <2>1
  <2>3. \A x \in a .. a + 7 : m2[x] = image[x] BY <2>2 DEF p
  <2>4. QED BY <2>1, <2>3, BytesSame
<1>3. CASE Level = 0
  <2>1. p = MemSize
    <3>1. acts \in Seq(ActivationRecord) /\ Len(acts) = 0 BY <1>1, <1>3
    <3>2. acts = <<>> BY <3>1, SMT
    <3>3. QED BY <1>1, <3>2 DEF ReentryNests
  <2>2. Calls = 0
    <3>1. ASSUME Calls # 0 PROVE FALSE
      <4>1. Calls \in 1 .. Calls BY <1>1, <3>1
      <4>2. frames[Calls].level \in 1 .. 0 BY <1>1, <1>3, <4>1, NestedFacts
      <4>3. QED BY <4>2
    <3>2. QED BY <3>1
  <2>3. SameOwned(image, m2, frames, acts)
    <3>1. 1 .. Len(frames) = {} /\ 1 .. Len(acts) = {} /\ 1 .. Len(acts) - 1 = {}
      BY <1>1, <1>3, <2>2
    <3>2. QED BY <3>1 DEF SameOwned
  <2>4. QED BY <1>3, <2>1, <2>3, Sizes
<1>4. CASE Level # 0
  <2>1. Level > 0 /\ A.inSyscall /\ Level \in 1 .. Level BY <1>1, <1>4 DEF HostMayCall
  <2>2. Suspended(prog, image, frames, acts, Level, Calls) BY <2>1, SuspendedHere
  <2> DEFINE a == acts[Level].ps
  <2>3. p = a - 4 /\ a \in Int
    <3>1. acts # <<>> BY <1>1, <2>1
    <3>2. acts[Len(acts)].inSyscall BY <1>1, <2>1 DEF A
    <3>3. vm.programStack = acts[Len(acts)].ps - 4 BY <1>1, <3>1, <3>2 DEF ReentryNests
    <3>4. QED BY <1>1, <2>1, <3>3, NestedFacts
  <2>4. Roomy(a) /\ Under(frames, acts, a, Level, Calls) BY <2>2 DEF Suspended
  <2>5. /\ \A j \in 1 .. Calls : frames[j].ps \in Int /\ Roomy(frames[j].ps)
        /\ \A k \in 1 .. Level : Begin(acts, k) \in Int /\ Roomy(Begin(acts, k))
        /\ \A k \in 1 .. Level - 1 : acts[k].ps \in Int /\ Roomy(acts[k].ps)
    <3>1. \A k \in 1 .. Level - 1 : k \in 1 .. Level /\ acts[k].inSyscall BY <1>1 DEF Nested
    <3>2. QED BY <1>1, <3>1, PlacesInside, NestedFacts
  <2> HIDE DEF p, a
  <2>6. /\ \A j \in 1 .. Calls : p <= frames[j].ps
        /\ \A k \in 1 .. Level : p <= Begin(acts, k)
        /\ \A k \in 1 .. Level - 1 : p <= acts[k].ps
        /\ p <= a
    BY <2>3, <2>4, <2>5 DEF Under
  <2>7. p \in Int /\ p <= MemSize BY <2>3, <2>4, Sizes DEF Roomy
  <2>8. SameOwned(image, m2, frames, acts) BY <1>1, <1>2, <2>5, <2>6, <2>7 DEF SameOwned
  <2>9. SameAt(image, m2, a) BY <1>2, <2>4, <2>6, <2>7
  <2>10. QED BY <2>7, <2>8, <2>9 DEF p, a
<1>5. QED BY <1>3, <1>4

\* A new activation begins at vmMain, below all that is pending.
LEMMA EnteringVmRight ==
  ASSUME Sound, NEW args \in HostArgs, NEW garbage \in Garbage, VM_Call(args, garbage)
  PROVE  CompiledInv'
<1>1. CASE Halt("undefined") BY <1>1 DEF Halt, CompiledInv
<1>2. CASE ~ Halt("undefined")
  <2> DEFINE b == Activation(vm.programStack, args[1], garbage)
             ws == <<-1, 0>> \o args
             n == NArgs + 2
             p == vm.programStack
             a == p - FrameBytes
             m == PutWords(image, a, n, ws)
             cs == Append(acts, b)
             L == Level
             N == Calls
             K == Level + 1
  <2>1. b.ps = a /\ b.entry = p /\ b.pc = 0 /\ b.ofs = 0 /\ ~ b.inSyscall
    BY DEF Activation, Reloaded
  <2>2. /\ HostMayCall /\ Within(image, a, FrameBytes) /\ image' = m /\ acts' = cs
        /\ UNCHANGED <<prog, code, frames, status, result>>
    BY <1>2, <2>1 DEF VM_Call
  <2>3. /\ L \in Nat /\ L = Len(acts) /\ N \in Nat /\ N = Len(frames)
        /\ Nested(prog, image, frames, acts) /\ acts \in Seq(ActivationRecord)
        /\ image \in [0 .. MemSize + 3 -> Byte] /\ DOMAIN image = 0 .. MemSize + 3
    BY SoundFacts DEF Calls, Memory
  <2>4. n \in Nat \ {0} /\ FrameBytes \in Nat /\ FrameBytes = 4 * n /\ FrameBytes >= 12
    BY Sizes DEF FrameBytes
  <2>5. p \in Int /\ p <= MemSize
    <3>1. \A x \in 0 .. MemSize + 3 : x >= vm.programStack => image[x] = image[x] OBVIOUS
    <3>2. QED BY <2>2, <3>1, HostCallsBelow
  <2>6. ws[1] = -1 /\ -1 \in Word
    <3>1. HalfMod \in Nat \ {0} BY WordSizes
    <3>2. -1 \in Word BY <3>1 DEF Word
    <3>3. args \in Seq(Word)
      <4>1. args \in [1 .. NArgs -> Word] BY HostAssumption
      <4>2. QED BY <4>1, Sizes
    <3>4. QED BY <3>2, <3>3
  <2> HIDE DEF b, ws, n, p
  <2>7. a \in Int /\ a + FrameBytes = p /\ a + 4 * n = p BY <2>4, <2>5
  <2> HIDE DEF a
  <2>8. Roomy(a) /\ a .. a + 3 \subseteq 0 .. MemSize + 3
    <3>1. a .. a + FrameBytes - 1 \subseteq 0 .. MemSize + 3 BY <2>2, <2>3 DEF Within
    <3>2. a \in a .. a + FrameBytes - 1 BY <2>4, <2>7
    <3>3. a \in 0 .. MemSize + 3 BY <3>1, <3>2
    <3>4. QED BY <2>4, <2>5, <2>7, <3>3, Sizes DEF Roomy
  <2>9. FetchWord(m, a) = -1
    <3> DEFINE S == 0 .. MemSize + 3
    <3>1. image \in [S -> Byte] /\ ws[1] \in Word /\ a .. a + 3 \subseteq S BY <2>3, <2>6, <2>8
    <3> HIDE DEF S
    <3>2. FetchWord(PutWords(image, a, n, ws), a) = ws[1] BY <2>4, <2>7, <3>1, FirstWordPut
    <3>3. QED BY <2>6, <3>2
  <2>10. \A x \in 0 .. MemSize + 3 : x >= p => m[x] = image[x]
    BY <2>3, <2>4, <2>5, <2>7 DEF PutWords
  <2>11. SameOwned(image, m, frames, acts) /\ (Level > 0 => SameAt(image, m, acts[Level].ps))
    <3> HIDE DEF m
    <3>1. QED BY <2>2, <2>10, HostCallsBelow DEF p
  <2>12. cs[K] = b /\ Begin(cs, K) = a
    <3>1. cs[K] = b BY <2>3
    <3>2. QED BY <2>1, <3>1 DEF Begin, a
  <2> HIDE DEF m, cs
  <2>13. Below(frames, cs, K, N) = a /\ BaseOf(frames, K, N) = 0
    <3>1. ~ (N > 0 /\ frames[N].level = K)
      <4>1. ASSUME N > 0, frames[N].level = K PROVE FALSE
        <5>1. N \in 1 .. N BY <2>3, <4>1
        <5>2. frames[N].level \in 1 .. L BY <2>3, <5>1, NestedFacts
        <5>3. QED BY <2>3, <4>1, <5>2
      <4>2. QED BY <4>1
    <3>2. QED BY <2>12, <3>1 DEF Below, BaseOf
  <2>14. RunsAt(prog, m, frames, cs, K, N, 0, 0)
    <3>1. 0 \in Indices(Insns) /\ Len(Insns) \in Nat BY CodeTyped DEF Sound
    <3>2. Op(Insns, 0) = "ENTER" /\ ConsistentDepths(Insns, prog.depth, OpSlots)
      BY SoundFacts DEF WellFormed
    <3>3. InFunction(Insns, 0, 0)
      <4>1. 0 \in 0 .. 0 /\ 0 + 1 .. 0 = {} OBVIOUS
      <4>2. QED BY <3>1, <3>2, <4>1 DEF InFunction
    <3>4. prog.depth[0] = 0 BY <3>1, <3>2 DEF ConsistentDepths
    <3>5. Place(prog, 0) = 0
      <4>1. WordsBefore(Insns)[0] = 0 BY <3>1, WordsBeforeStep
      <4>2. Place(prog, 0) = WordsBefore(Insns)[0] BY <3>1 DEF Place, Insns, Expanded
      <4>3. QED BY <4>1, <4>2
    <3> HIDE DEF K, N
    <3>6. QED BY <2>1, <2>12, <2>13, <3>2, <3>3, <3>4, <3>5 DEF RunsAt, Insns
  <2>15. Active(prog, m, frames, cs, K, N)
    <3>1. 0 \in Indices(Insns) BY CodeTyped DEF Sound
    <3>2. QED BY <2>1, <2>12, <2>14, <3>1 DEF Active, Insns
  <2>16. AllRight(prog, m, frames, cs)
    <3>1. Len(acts) > 0 => acts[Len(acts)].inSyscall BY <2>2, <2>3 DEF HostMayCall, A
    <3>2. Len(acts) > 0 => SameAt(image, m, acts[Len(acts)].ps) BY <2>3, <2>11
    <3>3. Roomy(Begin(cs, Len(acts) + 1)) /\ FetchWord(m, Begin(cs, Len(acts) + 1)) = -1
      BY <2>3, <2>8, <2>9, <2>12
    <3>4. Active(prog, m, frames, cs, Len(acts) + 1, Len(frames)) BY <2>3, <2>15
    <3>5. cs = Append(acts, b) BY DEF cs
    <3>6. QED BY <2>3, <2>11, <3>1, <3>2, <3>3, <3>4, <3>5, VmEntered
  <2>17. QED BY <2>2, <2>16 DEF CompiledInv
<1>3. QED BY <1>1, <1>2

-----------------------------------------------------------------------------
(* The invariant is inductive.                                             *)

LEMMA InitCompiled == Init => CompiledInv
<1> SUFFICES ASSUME Init PROVE CompiledInv OBVIOUS
<1>1. frames = <<>> /\ acts = <<>> BY DEF Init
<1>2. 1 .. Len(frames) = {} /\ 1 .. Len(acts) = {} BY <1>1
<1>3. QED BY <1>2 DEF CompiledInv, AllRight

LEMMA NextCompiled ==
  ASSUME TypeInv, InterpInv, CompiledInv, Conventional, [Next]_vars PROVE CompiledInv'
<1>1. CASE UNCHANGED vars
  BY <1>1 DEF vars, CompiledInv
<1>2. CASE status # "ok"
  <2>1. ~ Running /\ ~ InSyscall /\ ~ HostMayCall BY <1>2 DEF Running, InSyscall, HostMayCall
  <2>2. ~ Instruction
    BY <2>1 DEF Instruction, FetchError, OperandMissing, BadInstruction, Nothing, PushCached,
                LoadMisaligned, LoadValue, StoreValue, Argument, BlockCopy, CallWild, CallFunction,
                CallOutOfRange, CallSystem, PushStale, Pop, Enter, LeaveWild, Leave, LeaveVM,
                Jump, Branch, Unary, Binary, At
  <2>3. ~ HostReturns /\ ~ HostCalls /\ ~ VM_Free
    BY <2>1 DEF HostReturns, HostCalls, VM_Free, SystemCallReturns, VM_Call
  <2>4. QED BY <1>1, <2>2, <2>3 DEF Next
<1>3. CASE status = "ok"
  <2>1. Sound BY <1>3 DEF Sound
  <2>2. CASE Instruction
    <3>1. CASE Nothing \/ PushCached \/ LoadValue \/ PushStale \/ Pop \/ Unary \/ Binary
      BY <2>1, <3>1, ComputingRight
    <3>2. CASE StoreValue \/ Argument \/ BlockCopy BY <2>1, <3>2, StoringRight
    <3>3. CASE Branch \/ Jump BY <2>1, <3>3, JumpingRight
    <3>4. CASE Enter BY <2>1, <3>4, EnteringRight
    <3>5. CASE CallFunction BY <2>1, <3>5, CallingFunction
    <3>6. CASE CallSystem BY <2>1, <3>6, CallingSystem
    <3>7. CASE Leave BY <2>1, <3>7, ReturningRight
    <3>8. CASE LeaveVM BY <2>1, <3>8, LeavingVmRight
    <3>9. CASE FetchError \/ OperandMissing \/ BadInstruction \/ LoadMisaligned
               \/ CallWild \/ CallOutOfRange \/ LeaveWild
      <4>1. Halt("error") \/ Halt("undefined")
        BY <3>9 DEF FetchError, OperandMissing, BadInstruction, LoadMisaligned, CallWild,
                    CallOutOfRange, LeaveWild
      <4>2. QED BY <4>1 DEF Halt, CompiledInv
    <3>10. QED BY <2>2, <3>1, <3>2, <3>3, <3>4, <3>5, <3>6, <3>7, <3>8, <3>9 DEF Instruction
  <2>3. CASE HostReturns BY <2>1, <2>3, CallAnswered DEF HostReturns
  <2>4. CASE HostCalls BY <2>1, <2>4, EnteringVmRight DEF HostCalls
  <2>5. CASE VM_Free BY <2>5 DEF VM_Free, Halt, CompiledInv
  <2>6. QED BY <1>1, <2>2, <2>3, <2>4, <2>5 DEF Next
<1>4. QED BY <1>2, <1>3

LEMMA CompiledInvHolds == Spec /\ []Conventional => [](TypeInv /\ InterpInv /\ CompiledInv /\ Conventional)
<1>1. TypeInv /\ InterpInv /\ [Next]_vars => TypeInv' BY NextTyped
<1>2. TypeInv /\ InterpInv /\ CompiledInv /\ Conventional /\ [Next]_vars => CompiledInv'
  BY NextCompiled
<1>3. QED BY <1>1, <1>2, InitTypeInv, InitCompiled, InterpInvHolds, PTL DEF Spec

-----------------------------------------------------------------------------
(* What follows from it.                                                   *)

LEMMA DisciplineKept == ASSUME Sound PROVE OperandDiscipline
<1> SUFFICES ASSUME Running
             PROVE  \E i \in DOMAIN code.pointers :
                      code.pointers[i] = A.pc /\ A.ofs = Base + prog.depth[i]
  BY DEF OperandDiscipline
<1>1. PICK e \in Indices(Insns), i \in Indices(Insns) : Here(e, i) BY SomewhereHere
<1>2. A.pc = Place(prog, i) /\ A.ofs = BaseOf(frames, Level, Calls) + prog.depth[i]
  BY <1>1 DEF Here, RunsAt, A
<1>3. BaseOf(frames, Level, Calls) = Base
  <2>1. frames \in Seq(FrameRecord) /\ Calls = Len(frames) /\ Calls \in Nat
    BY SoundFacts DEF Calls
  <2>2. frames # <<>> <=> Calls > 0 BY <2>1
  <2>3. QED BY <2>1, <2>2 DEF BaseOf, Base, TopFrame
<1>4. i \in DOMAIN code.pointers /\ code.pointers[i] = Place(prog, i)
  <2>1. DOMAIN code.pointers = Indices(Insns) BY CodeFacts DEF Indices, Insns, Sound
  <2>2. QED BY <2>1, CodeAt DEF Sound
<1>5. QED BY <1>2, <1>3, <1>4

\* The note of a frame of the running activation leads to the frame below
\* which it lies.
LEMMA NotesLead ==
  ASSUME Sound, Running, A.pc \in DOMAIN code.image, Opcode # "ENTER", NEW k \in 0 .. Calls,
         k < Calls => frames[k + 1].level = Level
  PROVE  Noted(image, IF k + 1 \in DOMAIN frames THEN frames[k + 1].ps ELSE A.ps) =
           Below(frames, acts, Level, k)
<1>1. Calls \in Nat /\ DOMAIN frames = 1 .. Calls /\ AllRight(prog, image, frames, acts) /\ Calls = Len(frames)
  BY SoundFacts DEF Calls
<1>2. CASE k < Calls
  <2>1. k + 1 \in 1 .. Calls /\ (k + 1) - 1 = k BY <1>1, <1>2
  <2>2. FrameRight(prog, image, frames, acts, k + 1) BY <1>1, <2>1 DEF AllRight
  <2>3. QED BY <1>1, <1>2, <2>1, <2>2 DEF FrameRight
<1>3. CASE ~ (k < Calls)
  <2>1. k = Calls /\ k + 1 \notin DOMAIN frames
    <3>1. Calls \in Nat /\ k \in 0 .. Calls BY <1>1
    <3>2. k = Calls BY <1>3, <3>1
    <3>3. k + 1 \notin 1 .. Calls BY <3>1, <3>2
    <3>4. QED BY <1>1, <3>2, <3>3
  <2>2. PICK e \in Indices(Insns), i \in Indices(Insns) : Here(e, i) BY SomewhereHere
  <2>3. A.pc = Place(prog, i) BY <2>2 DEF Here, RunsAt, A
  <2>4. Op(Insns, i) # "ENTER" BY <2>3, CodeAt DEF Opcode, Sound
  <2>5. QED BY <2>1, <2>2, <2>4, FrameHere
<1>4. QED BY <1>2, <1>3

LEMMA TraceKept == ASSUME Sound PROVE TraceComplete
<1> DEFINE own     == DOMAIN frames \ Outer
           From(k) == IF k \in DOMAIN frames THEN frames[k].ps ELSE A.ps
           S       == own \cup {Len(frames) + 1}
           first   == Min(S)
<1> SUFFICES ASSUME Running, A.pc \in DOMAIN code.image, Opcode # "ENTER"
             PROVE  /\ \A k \in own : Traced(From(k + 1)) = [pc |-> frames[k].ret, ps |-> frames[k].ps]
                    /\ Traced(From(first)) = [pc |-> -1, ps |-> A.entry - FrameBytes]
  BY DEF TraceComplete
<1>1. /\ Calls \in Nat /\ DOMAIN frames = 1 .. Calls /\ AllRight(prog, image, frames, acts)
      /\ Level \in Nat /\ Calls = Len(frames) /\ Nested(prog, image, frames, acts) /\ Level = Len(acts)
  BY SoundFacts DEF Calls
<1>2. \A k \in 1 .. Calls : /\ frames[k].level \in 1 .. Level
                            /\ FetchWord(image, frames[k].ps) = frames[k].ret
                            /\ \A j \in 1 .. k : frames[j].level <= frames[k].level
  BY <1>1, NestedFacts DEF AllRight, FrameRight
<1>3. own = {k \in 1 .. Calls : frames[k].level = Level} BY <1>1, <1>2 DEF Outer
<1>4. \A k \in 0 .. Calls : (k < Calls => frames[k + 1].level = Level) =>
        Noted(image, From(k + 1)) = Below(frames, acts, Level, k)
  BY NotesLead
<1>5. \A p : Traced(p) = [pc |-> FetchWord(image, Noted(image, p)), ps |-> Noted(image, p)]
  BY DEF Traced, Noted
<1> HIDE DEF own, From
<1>6. ASSUME NEW k \in own
      PROVE  Traced(From(k + 1)) = [pc |-> frames[k].ret, ps |-> frames[k].ps]
  <2>1. k \in 1 .. Calls /\ k \in 0 .. Calls /\ frames[k].level = Level BY <1>3
  <2>2. k < Calls => frames[k + 1].level = Level
    <3>1. ASSUME k < Calls PROVE frames[k + 1].level = Level
      <4>1. k + 1 \in 1 .. Calls /\ k \in 1 .. k + 1 BY <1>1, <2>1, <3>1
      <4>2. frames[k].level <= frames[k + 1].level /\ frames[k + 1].level \in 1 .. Level
        BY <1>2, <4>1
      <4>3. QED BY <1>1, <2>1, <4>2
    <3>2. QED BY <3>1
  <2>3. Noted(image, From(k + 1)) = Below(frames, acts, Level, k) BY <1>4, <2>1, <2>2
  <2>4. Below(frames, acts, Level, k) = frames[k].ps BY <2>1 DEF Below
  <2>5. QED BY <1>2, <1>5, <2>1, <2>3, <2>4
<1>7. first \in S /\ \A x \in S : first <= x
  <2>1. S \subseteq Nat /\ S # {} BY <1>1, <1>3
  <2> HIDE DEF S
  <2>2. QED BY <1>1, <2>1, Least
<1> HIDE DEF first
<1>8. Traced(From(first)) = [pc |-> -1, ps |-> A.entry - FrameBytes]
  <2> DEFINE k == first - 1
  <2>1. first \in 1 .. Calls + 1 /\ k \in 0 .. Calls /\ first = k + 1 BY <1>1, <1>3, <1>7
  <2>2. k < Calls => frames[k + 1].level = Level BY <1>1, <1>3, <1>7, <2>1
  <2>3. ~ (k > 0 /\ frames[k].level = Level)
    <3>1. ASSUME k > 0, frames[k].level = Level PROVE FALSE
      <4>1. k \in S BY <1>3, <2>1, <3>1
      <4>2. QED BY <1>7, <2>1, <4>1
    <3>2. QED BY <3>1
  <2> HIDE DEF k
  <2>4. Noted(image, From(k + 1)) = Below(frames, acts, Level, k) BY <1>4, <2>1, <2>2
  <2>5. Below(frames, acts, Level, k) = Begin(acts, Level) BY <2>3 DEF Below
  <2>6. FetchWord(image, Begin(acts, Level)) = -1
    <3>1. Level \in 1 .. Len(acts) BY <1>1 DEF Running
    <3>2. QED BY <1>1, <3>1 DEF AllRight, ActRight
  <2>7. Begin(acts, Level) = A.entry - FrameBytes BY DEF Begin, A
  <2>8. QED BY <1>5, <2>1, <2>4, <2>5, <2>6, <2>7
<1>9. QED BY <1>6, <1>8

LEMMA PendingKept == ASSUME Sound PROVE PendingIntact
<1>1. AllRight(prog, image, frames, acts) /\ Level = Len(acts) /\ Level \in Nat BY SoundFacts
<1>2. ReturnAddressesIntact BY <1>1 DEF ReturnAddressesIntact, AllRight, FrameRight
<1>3. SyscallNumberIntact
  <2>1. ASSUME NEW k \in 1 .. Len(acts), acts[k].inSyscall
        PROVE  FetchWord(image, acts[k].ps + 4) = -1 - acts[k].pc
    <3>1. k \in Nat /\ ActRight(prog, image, frames, acts, k) BY <1>1 DEF AllRight
    <3>2. PICK n \in 0 .. Calls : Cut(frames, k, n) BY <3>1, CutSomewhere
    <3>3. Suspended(prog, image, frames, acts, k, n)
      BY <2>1, <3>1, <3>2 DEF ActRight, Active, Calls
    <3>4. QED BY <3>3 DEF Suspended, Noted
  <2>2. QED BY <2>1 DEF SyscallNumberIntact
<1>4. QED BY <1>2, <1>3, TraceKept DEF PendingIntact

LEMMA EndedKept ==
  ASSUME status # "ok" PROVE OperandDiscipline /\ PendingIntact
BY DEF OperandDiscipline, PendingIntact, ReturnAddressesIntact, SyscallNumberIntact,
       TraceComplete, Running

(***************************************************************************)
(* What the translator's static analysis rests on: a compiled program in   *)
(* the hands of a host that keeps to its own memory is, before every       *)
(* instruction and at every depth of calls, system calls and calls back,   *)
(* at an instruction of the program and has exactly the operands the       *)
(* analysis counted there, above those of its callers.                     *)
(***************************************************************************)
THEOREM OperandsCounted == Spec /\ []Conventional => []OperandDiscipline
<1>1. TypeInv /\ InterpInv /\ CompiledInv /\ Conventional => OperandDiscipline
  BY DisciplineKept, EndedKept DEF Sound
<1>2. QED BY <1>1, CompiledInvHolds, PTL

(***************************************************************************)
(* Whatever such a program and host do while calls and system calls are    *)
(* pending, guest memory keeps every return address, every number of a     *)
(* system call, and the chain of notes by which VM_StackTrace goes from    *)
(* the innermost frame to vmMain.                                          *)
(***************************************************************************)
THEOREM PendingKeptIntact == Spec /\ []Conventional => []PendingIntact
<1>1. TypeInv /\ InterpInv /\ CompiledInv /\ Conventional => PendingIntact
  BY PendingKept, EndedKept DEF Sound
<1>2. QED BY <1>1, CompiledInvHolds, PTL

-----------------------------------------------------------------------------
(* Nothing but a full program stack stops them.                            *)

\* The code ends at least three bytes behind the words of its last instruction.
LEMMA CodeSpare ==
  ASSUME TypeInv, Op(Insns, 0) = "ENTER", NEW i \in Indices(Insns)
  PROVE  /\ Place(prog, i) \in DOMAIN code.image /\ Place(prog, i) + 1 < code.length
         /\ Op(Insns, i) \in HasOperand => Place(prog, i) + 1 \in DOMAIN code.image
<1> DEFINE W == WordsBefore(Insns)
           B == BytesBefore(Insns)
           n == Len(Insns)
           S == {k \in 0 .. n : k > 0 => B[k] >= W[k] + 3}
<1>1. Insns \in Seq(Insn) /\ n \in Nat \ {0} /\ i \in 0 .. n - 1 BY CodeTyped DEF Indices
<1>2. /\ Place(prog, i) = W[i] /\ DOMAIN code.image = 0 .. W[n] - 1 /\ code.length = B[n]
  BY DEF TypeInv, Expanded, Place, Insns
<1>3. /\ W \in [0 .. n -> Nat] /\ W[0] = 0
      /\ \A k \in 0 .. n - 1 : W[k + 1] = W[k] + 1 + OperandWords(Op(Insns, k))
  BY <1>1, WordsBeforeStep DEF Indices
<1>4. /\ B \in [0 .. n -> Nat] /\ B[0] = 0
      /\ \A k \in 0 .. n - 1 : B[k + 1] = B[k] + 1 + OperandBytes(Op(Insns, k))
  BY <1>1, BytesBeforeStep DEF Indices
<1>5. Ascends(W, n) BY <1>1, WordsAscend
<1>6. OperandWords("ENTER") = 1 /\ OperandBytes("ENTER") = 4
  BY DEF OperandWords, OperandBytes, HasOperand, HasI4Operand
<1> HIDE DEF W, B, n
<1>7. 0 \in S BY <1>1
<1>8. ASSUME NEW k \in 0 .. n - 1, k \in S PROVE k + 1 \in S
  <2>1. /\ OperandWords(Op(Insns, k)) <= OperandBytes(Op(Insns, k))
        /\ OperandWords(Op(Insns, k)) \in Nat /\ OperandBytes(Op(Insns, k)) \in Nat
    BY OperandSizes
  <2>2. k \in 0 .. n /\ k + 1 \in 0 .. n /\ W[k] \in Nat /\ B[k] \in Nat BY <1>1, <1>3, <1>4
  <2>3. CASE k = 0
    <3>1. W[k + 1] = 2 /\ B[k + 1] = 5 BY <1>1, <1>3, <1>4, <1>6, <2>3
    <3>2. QED BY <2>2, <3>1
  <2>4. CASE k # 0
    <3>1. B[k] >= W[k] + 3 BY <1>8, <2>2, <2>4
    <3>2. B[k + 1] >= W[k + 1] + 3 BY <1>3, <1>4, <2>1, <2>2, <3>1
    <3>3. QED BY <2>2, <3>2
  <2>5. QED BY <2>3, <2>4
<1>9. n \in S
  <2> HIDE DEF S
  <2>1. n \in Nat /\ n \in 0 .. n BY <1>1
  <2>2. QED BY <1>7, <1>8, <2>1, InductionTo
<1>10. i \in 0 .. n /\ i + 1 \in 0 .. n /\ n \in 0 .. n /\ i + 1 <= n BY <1>1
<1>11. W[i + 1] <= W[n] BY <1>1, <1>5, <1>10, AscendsFar
<1>12. /\ W[i] \in Nat /\ W[n] \in Nat /\ B[n] \in Nat /\ B[n] >= W[n] + 3
       /\ W[i + 1] = W[i] + 1 + OperandWords(Op(Insns, i))
  BY <1>1, <1>3, <1>4, <1>9, <1>10
<1>13. OperandWords(Op(Insns, i)) \in Nat BY OperandSizes
<1>14. Op(Insns, i) \in HasOperand => OperandWords(Op(Insns, i)) = 1 BY DEF OperandWords
<1>15. QED BY <1>2, <1>11, <1>12, <1>13, <1>14

\* A program stack of whole words, the sentinel in its place, and, in a system
\* call, room for a nested VM_Call and the call's number.
Grounded(a) ==
  /\ a.ps % 4 = 0 /\ a.opStack[0] = Sentinel
  /\ a.inSyscall => a.ps > StackBottom /\ a.pc < 0

StackInv == status = "ok" => \A k \in 1 .. Level : Grounded(acts[k])

Proper == Sound /\ Faultless /\ StackInv
Fine   == OnlyStackOverflow' /\ StackInv'

\* Activation b has the fields of a and is sound.
Rests(a, b) == DOMAIN b = DOMAIN a /\ Grounded(b)

LEMMA RestsMoved ==
  ASSUME NEW a \in ActivationRecord, Grounded(a), ~ a.inSyscall, NEW pc, NEW n, NEW v, NEW y,
         NEW x \in Slots \ {0}, NEW ps, ps % 4 = 0
  PROVE  /\ Rests(a, [a EXCEPT !.pc = pc])
         /\ Rests(a, [a EXCEPT !.pc = pc, !.ps = ps])
         /\ Rests(a, [a EXCEPT !.pc = pc, !.ofs = n])
         /\ Rests(a, [[a EXCEPT !.ofs = n] EXCEPT !.pc = pc])
         /\ Rests(a, [a EXCEPT !.pc = pc, !.opStack[x] = v])
         /\ Rests(a, [a EXCEPT !.pc = pc, !.opStack[x] = v, !.r0 = v])
         /\ Rests(a, [a EXCEPT !.pc = pc, !.ofs = n, !.opStack[x] = v])
         /\ Rests(a, [a EXCEPT !.pc = pc, !.ofs = n, !.opStack[x] = v, !.r0 = v, !.r1 = y])
<1>1. 0 \in Slots /\ x # 0 BY Sizes DEF Slots
<1>2. /\ DOMAIN a = {"command", "pc", "ps", "entry", "opStack", "ofs", "r0", "r1", "inSyscall", "stomped"}
      /\ DOMAIN a.opStack = Slots
  BY DEF ActivationRecord, Slots
<1>3. QED BY <1>1, <1>2 DEF Rests, Grounded

LEMMA RestsReloaded ==
  ASSUME NEW a \in ActivationRecord, NEW b, Rests(a, b) PROVE Rests(a, Reloaded(b))
<1>1. DOMAIN a = {"command", "pc", "ps", "entry", "opStack", "ofs", "r0", "r1", "inSyscall", "stomped"}
  BY DEF ActivationRecord
<1>2. QED BY <1>1 DEF Rests, Grounded, Reloaded

\* The innermost activation moves on.
LEMMA TopFine ==
  ASSUME Proper, Level > 0, NEW b, Grounded(b), acts' = [acts EXCEPT ![Level] = b],
         status' = status
  PROVE  Fine
<1>1. /\ status' = "ok" /\ Level \in Nat /\ DOMAIN acts = 1 .. Level /\ Level = Len(acts)
      /\ acts \in Seq(ActivationRecord)
  BY SoundFacts DEF Proper, Sound
<1>2. Level' = Level
  <2>1. Len(acts') = Len(acts) BY <1>1
  <2>2. QED BY <2>1 DEF Level
<1>3. \A k \in 1 .. Level : acts'[k] = IF k = Level THEN b ELSE acts[k] BY <1>1
<1>4. \A k \in 1 .. Level : Grounded(acts[k]) BY <1>1 DEF Proper, StackInv
<1>5. StackInv' BY <1>2, <1>3, <1>4 DEF StackInv, Grounded
<1>6. QED BY <1>1, <1>5 DEF Fine, OnlyStackOverflow

LEMMA DispatchFine ==
  ASSUME Proper, Running, NEW c, Rests(A, c), Dispatch(c) \/ Dispatch2(c), status' = status
  PROVE  Fine
<1>1. A \in ActivationRecord /\ Level > 0 BY RunningTyped DEF Proper, Sound
<1>2. Grounded(c) /\ Grounded(Reloaded(c)) BY <1>1, RestsReloaded DEF Rests
<1>3. QED BY <1>1, <1>2, TopFine DEF Dispatch, Dispatch2, Continue

\* The operands an instruction takes are its function's own.
LEMMA OffsetsHere ==
  ASSUME Proper, NEW ops, At(ops)
  PROVE  /\ Running /\ A \in ActivationRecord /\ Grounded(A) /\ ~ A.inSyscall /\ Level > 0
         /\ A.ofs \in Slots /\ A.ofs \in Nat /\ A.ps \in Int /\ A.pc \in Int /\ A.r0 \in Int
         /\ A.r1 \in Int
         /\ Opcode \in ops /\ Opcode \in Opcodes /\ A.ofs >= Pops(Opcode)
         /\ A.ofs - Pops(Opcode) + Pushes(Opcode) \in Slots
<1>1. Running /\ Opcode \in ops BY DEF At
<1>2. /\ A \in ActivationRecord /\ ~ A.inSyscall /\ A.ofs \in Slots /\ A.ps \in Int
      /\ A.pc \in Int /\ A.r0 \in Int /\ A.r1 \in Int /\ Level > 0
  BY <1>1, RunningTyped DEF Proper, Sound
<1>3. PICK e \in Indices(Insns), i \in Indices(Insns) : Here(e, i)
  BY <1>1, SomewhereHere DEF Proper
<1>4. /\ Opcode \in Opcodes /\ prog.depth[i] \in Nat /\ prog.depth[i] >= Pops(Opcode)
      /\ BaseOf(frames, Level, Calls) \in Nat /\ A.ofs = BaseOf(frames, Level, Calls) + prog.depth[i]
      /\ A.ofs - Pops(Opcode) + Pushes(Opcode) \in Slots
  BY <1>3, NextInstruction DEF Proper
<1>5. A.ofs \in Nat BY <1>2, Sizes DEF Slots
<1>6. A.ofs >= Pops(Opcode)
  <2>1. Pops(Opcode) \in Nat BY DEF Pops
  <2>2. QED BY <1>4, <2>1
<1>7. Grounded(A)
  <2>1. Level \in 1 .. Level BY <1>2, SoundFacts DEF Proper
  <2>2. QED BY <1>1, <2>1 DEF Proper, StackInv, Running, A
<1>8. QED BY <1>1, <1>2, <1>4, <1>5, <1>6, <1>7

\* The process ends, with its program stack full or not for an error.
LEMMA HaltFine ==
  ASSUME Proper, NEW s, Halt(s), s \notin {"ok", "undefined", "trap"},
         s = "error" => A.ps <= StackBottom \/ A.inSyscall
  PROVE  Fine
<1>1. A' = A BY DEF Halt, A, Level
<1>2. QED BY <1>1 DEF Halt, Fine, OnlyStackOverflow, StackInv

\* What the running activation fetches is inside the code.
LEMMA FetchesInside ==
  ASSUME Proper, Running
  PROVE  /\ A.pc \in DOMAIN code.image /\ A.pc + 1 < code.length /\ A.ps % 4 = 0
         /\ Opcode \in HasOperand => A.pc + 1 \in DOMAIN code.image
         /\ Opcode \notin {"UNDEF", "BAD"}
<1>1. PICK e \in Indices(Insns), i \in Indices(Insns) : Here(e, i) BY SomewhereHere DEF Proper
<1>2. A.pc = Place(prog, i) BY <1>1 DEF Here, RunsAt, A
<1>3. TypeInv /\ Op(Insns, 0) = "ENTER" /\ Level \in 1 .. Level
  BY SoundFacts DEF Proper, Sound, WellFormed, Running
<1>4. Opcode = Op(Insns, i) BY <1>2, <1>3, CodeAt DEF Opcode
<1>5. Op(Insns, i) \in Opcodes /\ Op(Insns, i) # "UNDEF"
  BY <1>3, CodeTyped DEF Proper, Faultless, Insns
<1>6. "BAD" \notin Opcodes
  BY DEF Opcodes, CondBranch, IntBranch, FloatBranch, Load, Store, IntUnary, FloatUnary,
         IntBinary, FloatBinary
<1>7. Grounded(A) BY <1>3 DEF Proper, StackInv, Running, A
<1>8. QED BY <1>2, <1>3, <1>4, <1>5, <1>6, <1>7, CodeSpare DEF Grounded

\* Of what vm.c checks before an instruction only the stack check can fail.
LEMMA StoppingFine ==
  ASSUME Proper, \/ FetchError \/ OperandMissing \/ BadInstruction \/ LoadMisaligned
                 \/ CallWild \/ CallOutOfRange \/ LeaveWild
  PROVE  Fine
<1>1. Running
  BY DEF FetchError, OperandMissing, BadInstruction, LoadMisaligned, CallWild, CallOutOfRange,
         LeaveWild, At
<1>2. /\ A.pc \in DOMAIN code.image /\ A.pc + 1 < code.length /\ A.ps % 4 = 0
      /\ Opcode \in HasOperand => A.pc + 1 \in DOMAIN code.image
      /\ Opcode \notin {"UNDEF", "BAD"}
  BY <1>1, FetchesInside
<1>3. /\ A.r0 \in Int /\ A.pc \in Int /\ A.ps \in Int /\ A.r0 = A.opStack[A.ofs]
      /\ Level > 0 /\ code.count \in Nat /\ code.length \in Int /\ StackBottom \in Int
  <2>1. A.r0 = A.opStack[A.ofs] BY <1>1, InnerFacts DEF Proper, Sound, Coherent
  <2>2. code.length \in Nat
    <3>1. code.length = BytesBefore(Insns)[Len(Insns)] BY DEF Proper, Sound, TypeInv, Expanded, Insns
    <3>2. Insns \in Seq(Insn) /\ Len(Insns) \in Nat BY CodeTyped DEF Proper, Sound
    <3>3. QED BY <3>1, <3>2, BytesBeforeStep
  <2>3. QED BY <1>1, <2>1, <2>2, RunningTyped, CodeFacts, Sizes DEF Proper, Sound, StackBottom
<1>4. CASE FetchError
  <2>1. FetchFails /\ Halt("error") BY <1>2, <1>4 DEF FetchError
  <2>2. A.ps <= StackBottom BY <1>2, <1>3, <2>1 DEF FetchFails
  <2>3. QED BY <2>1, <2>2, HaltFine
<1>5. CASE OperandMissing BY <1>2, <1>5 DEF OperandMissing
<1>6. CASE BadInstruction BY <1>2, <1>6 DEF BadInstruction, At
<1>7. CASE LoadMisaligned
  <2>1. Opcode = "LOAD4" /\ A.r0 % 4 # 0 /\ At(Load) BY <1>3, <1>7 DEF LoadMisaligned, Misaligned
  <2>2. At({"LOAD4"}) BY <2>1 DEF At
  <2>3. QED BY <2>1, <2>2 DEF Proper, Faultless
<1>8. CASE CallWild
  <2>1. At({"CALL"}) /\ ~ Within(image, A.ps, 4) BY <1>8 DEF CallWild, ReturnWordInside
  <2>2. Roomy(A.ps) BY <2>1, Calling DEF Proper
  <2>3. image \in Memory BY SoundFacts DEF Proper
  <2>4. Within(image, A.ps, 4) BY <1>3, <2>2, <2>3, Sizes DEF Within, Memory, Roomy
  <2>5. QED BY <2>1, <2>4
<1>9. CASE CallOutOfRange
  BY <1>3, <1>9 DEF CallOutOfRange, Proper, Faultless
<1>10. CASE LeaveWild
  <2>1. At({"LEAVE"}) /\ ~ Within(image, CallerPs, 4) BY <1>10 DEF LeaveWild
  <2>2. Roomy(CallerPs) /\ CallerPs \in Int BY <1>3, <2>1, Leaving, Lowest DEF Proper
  <2>3. image \in Memory BY SoundFacts DEF Proper
  <2>4. Within(image, CallerPs, 4) BY <2>2, <2>3, Sizes DEF Within, Memory, Roomy
  <2>5. QED BY <2>1, <2>4
<1>11. QED BY <1>4, <1>5, <1>6, <1>7, <1>8, <1>9, <1>10

\* Instructions that only compute keep to operands of their own.
LEMMA ComputingFine ==
  ASSUME Proper, \/ Nothing \/ PushCached \/ LoadValue \/ PushStale \/ Pop \/ Unary \/ Binary
  PROVE  Fine
<1>1. ASSUME NEW ops, At(ops)
      PROVE  /\ Running /\ A \in ActivationRecord /\ Grounded(A) /\ ~ A.inSyscall
             /\ A.ofs \in Slots /\ A.ofs \in Nat
             /\ Opcode \in ops /\ A.ofs >= Pops(Opcode)
             /\ A.ofs - Pops(Opcode) + Pushes(Opcode) \in Slots
  BY <1>1, OffsetsHere
<1>2. CASE Nothing
  <2> DEFINE ops == {"IGNORE", "BREAK"}
             c == [A EXCEPT !.pc = A.pc + 1]
  <2>1. At(ops) /\ Dispatch2(c) /\ status' = status BY <1>2 DEF Nothing
  <2> HIDE DEF ops
  <2>2. Rests(A, c)
    <3>1. 1 \in Slots \ {0} /\ 0 % 4 = 0 BY Sizes DEF Slots
    <3>2. QED BY <1>1, <2>1, <3>1, RestsMoved
  <2>3. QED BY <1>1, <2>1, <2>2, DispatchFine
<1>3. CASE PushCached
  <2> DEFINE ops == {"CONST", "LOCAL"}
             v == IF Opcode = "CONST" THEN R2 ELSE Signed(R2 + A.ps)
             n == Slot(A.ofs + 1)
             pc == A.pc + 2
             c == [A EXCEPT !.pc = pc, !.ofs = n, !.opStack[n] = v, !.r0 = v, !.r1 = A.r0]
  <2>1. At(ops) /\ Dispatch2(c) /\ status' = status BY <1>3 DEF PushCached
  <2>2. Pops(Opcode) = 0 /\ Pushes(Opcode) = 1 BY <1>1, <2>1, Effects
  <2>3. n \in Slots \ {0}
    <3>1. A.ofs - 0 + 1 \in Slots BY <1>1, <2>1, <2>2
    <3>2. A.ofs + 1 \in Slots \ {0} BY <1>1, <2>1, <3>1
    <3>3. QED BY <3>2, Unwrapped
  <2> HIDE DEF ops, v, n, pc
  <2>4. Rests(A, c)
    <3>1. 0 % 4 = 0 OBVIOUS
    <3>2. A \in ActivationRecord /\ Grounded(A) /\ ~ A.inSyscall BY <1>1, <2>1
    <3>3. QED BY <2>3, <3>1, <3>2, RestsMoved
  <2> HIDE DEF c
  <2>5. QED BY <1>1, <2>1, <2>4, DispatchFine
<1>4. CASE LoadValue
  <2> DEFINE a == Masked(A.r0)
             v == CASE Opcode = "LOAD4" -> FetchWord(image, a)
                    [] Opcode = "LOAD2" -> Fetch2(image, a)
                    [] Opcode = "LOAD1" -> Fetch1(image, a)
             n == A.ofs
             pc == A.pc + 1
             c == [A EXCEPT !.pc = pc, !.opStack[n] = v, !.r0 = v]
  <2>1. At(Load) /\ Dispatch2(c) /\ status' = status BY <1>4 DEF LoadValue
  <2>2. Pops(Opcode) = 1 BY <1>1, <2>1, Effects
  <2>3. n \in Slots \ {0} BY <1>1, <2>1, <2>2
  <2> HIDE DEF v, n, pc
  <2>4. Rests(A, c)
    <3>1. 0 % 4 = 0 OBVIOUS
    <3>2. A \in ActivationRecord /\ Grounded(A) /\ ~ A.inSyscall BY <1>1, <2>1
    <3>3. QED BY <2>3, <3>1, <3>2, RestsMoved
  <2> HIDE DEF c
  <2>5. QED BY <1>1, <2>1, <2>4, DispatchFine
<1>5. CASE PushStale \/ Pop
  <2> DEFINE pc == A.pc + 1
  <2>1. PICK op, n :
          At({op}) /\ Dispatch([A EXCEPT !.pc = pc, !.ofs = n]) /\ status' = status
    BY <1>5 DEF PushStale, Pop
  <2> DEFINE c == [A EXCEPT !.pc = pc, !.ofs = n]
  <2> HIDE DEF pc
  <2>2. Rests(A, c)
    <3>1. 1 \in Slots \ {0} /\ 0 % 4 = 0 BY Sizes DEF Slots
    <3>2. A \in ActivationRecord /\ Grounded(A) /\ ~ A.inSyscall BY <1>1, <2>1
    <3>3. QED BY <3>1, <3>2, RestsMoved
  <2>3. Running /\ Dispatch(c) /\ status' = status BY <1>1, <2>1
  <2> HIDE DEF c
  <2>4. QED BY <2>2, <2>3, DispatchFine
<1>6. CASE Unary
  <2> DEFINE ops == IntUnary \cup FloatUnary
             x == IF Opcode \in {"NEGI", "BCOM"} THEN A.r0 ELSE First
             v == UnaryResult(Opcode, x)
             n == A.ofs
             pc == A.pc + 1
             c == [A EXCEPT !.pc = pc, !.opStack[n] = v]
  <2>1. At(ops) /\ Dispatch(c) /\ status' = status BY <1>6 DEF Unary
  <2>2. Pops(Opcode) = 1
    <3>1. Opcode \in ops BY <1>1, <2>1
    <3>2. QED BY <3>1, Effects
  <2> HIDE DEF ops, v, pc
  <2>3. n \in Slots \ {0} BY <1>1, <2>1, <2>2
  <2> HIDE DEF n
  <2>4. Rests(A, c)
    <3>1. 0 % 4 = 0 OBVIOUS
    <3>2. A \in ActivationRecord /\ Grounded(A) /\ ~ A.inSyscall BY <1>1, <2>1
    <3>3. QED BY <2>3, <3>1, <3>2, RestsMoved
  <2> HIDE DEF c
  <2>5. QED BY <1>1, <2>1, <2>4, DispatchFine
<1>7. CASE Binary
  <2> DEFINE ops == IntBinary \cup FloatBinary
             x == IF Opcode \in FloatBinary THEN Second ELSE A.r1
             y == IF Opcode \in FloatBinary THEN First ELSE A.r0
             n == Slot(A.ofs - 1)
             v == BinaryResult(Opcode, x, y)
             pc == A.pc + 1
             c == [A EXCEPT !.pc = pc, !.ofs = n, !.opStack[n] = v]
  <2>1. At(ops) BY <1>7 DEF Binary
  <2>2. ~ Traps(Opcode, x, y)
    <3>1. Opcode \in FloatBinary => ~ Traps(Opcode, x, y) BY DEF FloatBinary, Traps, Division
    <3>2. Opcode \notin FloatBinary => At(IntBinary) BY <2>1 DEF At
    <3>3. QED BY <3>1, <3>2 DEF Proper, Faultless
  <2>3. Dispatch(c) /\ status' = status BY <1>7, <2>2 DEF Binary
  <2>4. Pops(Opcode) = 2 /\ Pushes(Opcode) = 1
    <3>1. Opcode \in ops BY <1>1, <2>1
    <3>2. QED BY <3>1, Effects
  <2> HIDE DEF ops, v, pc
  <2>5. n \in Slots \ {0}
    <3>1. A.ofs \in Slots /\ A.ofs >= 2 /\ A.ofs \in Nat BY <1>1, <2>1, <2>4
    <3>2. A.ofs - 1 \in Slots \ {0} BY <3>1, Sizes DEF Slots
    <3>3. QED BY <3>2, Unwrapped
  <2> HIDE DEF n
  <2>6. Rests(A, c)
    <3>1. 0 % 4 = 0 OBVIOUS
    <3>2. A \in ActivationRecord /\ Grounded(A) /\ ~ A.inSyscall BY <1>1, <2>1
    <3>3. QED BY <2>5, <3>1, <3>2, RestsMoved
  <2> HIDE DEF c
  <2>7. QED BY <1>1, <2>1, <2>3, <2>6, DispatchFine
<1>8. QED BY <1>2, <1>3, <1>4, <1>5, <1>6, <1>7

\* Stores, jumps and branches.
LEMMA MovingFine ==
  ASSUME Proper, StoreValue \/ Argument \/ BlockCopy \/ Jump \/ Branch
  PROVE  Fine
<1>1. ASSUME NEW ops, At(ops)
      PROVE  Running /\ A \in ActivationRecord /\ Grounded(A) /\ ~ A.inSyscall
  BY <1>1, OffsetsHere
<1>2. \E ops, pc, n :
        At(ops) /\ Dispatch([A EXCEPT !.pc = pc, !.ofs = n]) /\ status' = status
  <2>1. CASE StoreValue
    <3>1. At(Store) /\ Dispatch([A EXCEPT !.pc = A.pc + 1, !.ofs = Slot(A.ofs - 2)])
          /\ status' = status
      BY <2>1 DEF StoreValue
    <3>2. QED BY <3>1
  <2>2. CASE Argument
    <3>1. At({"ARG"}) /\ Dispatch([A EXCEPT !.pc = A.pc + 2, !.ofs = Slot(A.ofs - 1)])
          /\ status' = status
      BY <2>2 DEF Argument
    <3>2. QED BY <3>1
  <2>3. CASE BlockCopy
    <3>1. At({"BLOCK_COPY"}) BY <2>3 DEF BlockCopy
    <3>2. CopyInRange(A.r1, A.r0, R2) /\ CopyDefined(A.r1, A.r0, R2)
      BY <3>1 DEF Proper, Faultless
    <3>3. Dispatch([A EXCEPT !.pc = A.pc + 2, !.ofs = Slot(A.ofs - 2)]) /\ status' = status
      BY <2>3, <3>2 DEF BlockCopy
    <3>4. QED BY <3>1, <3>3
  <2>4. CASE Jump
    <3>1. At({"JUMP"}) BY <2>4 DEF Jump
    <3>2. A.r0 \in 0 .. code.count - 1 BY <3>1 DEF Proper, Faultless
    <3>3. Dispatch([A EXCEPT !.pc = code.pointers[A.r0], !.ofs = Slot(A.ofs - 1)])
          /\ status' = status
      BY <2>4, <3>2 DEF Jump
    <3>4. QED BY <3>1, <3>3
  <2>5. CASE Branch
    <3>1. At(CondBranch) /\ status' = status
          /\ \E pc \in {R2, A.pc + 2} : Dispatch([A EXCEPT !.pc = pc, !.ofs = Slot(A.ofs - 2)])
      BY <2>5 DEF Branch
    <3>2. QED BY <3>1
  <2>6. QED BY <2>1, <2>2, <2>3, <2>4, <2>5
<1>3. PICK ops, pc, n :
        At(ops) /\ Dispatch([A EXCEPT !.pc = pc, !.ofs = n]) /\ status' = status
  BY <1>2
<1> DEFINE c == [A EXCEPT !.pc = pc, !.ofs = n]
<1>4. Rests(A, c)
  <2>1. 1 \in Slots \ {0} /\ 0 % 4 = 0 BY Sizes DEF Slots
  <2>2. QED BY <1>1, <1>3, <2>1, RestsMoved
<1>5. Running /\ Dispatch(c) /\ status' = status BY <1>1, <1>3
<1> HIDE DEF c
<1>6. QED BY <1>4, <1>5, DispatchFine

\* A frame is a number of words and fits below the stack check.
LEMMA FrameFits ==
  ASSUME Proper, NEW e \in Indices(Insns), Op(Insns, e) = "ENTER"
  PROVE  LET w == Arg(Insns, e) IN w \in Nat /\ w >= 8 /\ w % 4 = 0 /\ w <= StackBottom
<1>1. Arg(Insns, e) \in Int BY CodeTyped DEF Proper, Sound
<1>2. Arg(Insns, e) >= 8 BY SoundFacts DEF Proper, WellFormed
<1>3. Arg(Insns, e) % 4 = 0 /\ Arg(Insns, e) <= StackBottom BY DEF Proper, Faultless, Sized, Insns
<1>4. QED BY <1>1, <1>2, <1>3

\* Sums and differences of multiples of four are ones too.
LEMMA FoursAdd ==
  ASSUME NEW x \in Int, NEW y \in Int, x % 4 = 0, y % 4 = 0
  PROVE  (x + y) % 4 = 0 /\ (x - y) % 4 = 0
<1>1. x = 4 * (x \div 4) /\ y = 4 * (y \div 4) /\ x \div 4 \in Int /\ y \div 4 \in Int BY SMT
<1> DEFINE q == x \div 4
           r == y \div 4
<1> HIDE DEF q, r
<1>2. q \in Int /\ r \in Int /\ x = 4 * q /\ y = 4 * r BY <1>1 DEF q, r
<1>3. x + y = 4 * (q + r) /\ x - y = 4 * (q - r) BY <1>2
<1>4. \A k \in Int : (4 * k) % 4 = 0 OBVIOUS
<1>5. QED BY <1>2, <1>3, <1>4

LEMMA EnteringFine ==
  ASSUME Proper, Enter
  PROVE  Fine
<1>1. At({"ENTER"}) /\ Running /\ ~ FetchFails BY DEF Enter, At
<1>2. A \in ActivationRecord /\ A.ps \in Int /\ Grounded(A) /\ ~ A.inSyscall /\ Level > 0
  BY <1>1, OffsetsHere
<1>3. PICK e \in Indices(Insns), i \in Indices(Insns) : Here(e, i)
  BY <1>1, SomewhereHere DEF Proper
<1>4. /\ Opcode = Op(Insns, i) /\ Opcode \in {"ENTER"}
      /\ Opcode \in HasOperand \ CondBranch => R2 = Arg(Insns, i)
  BY <1>1, <1>3, NextInstruction DEF Proper
<1>5. "ENTER" \in HasOperand \ CondBranch
  BY DEF HasOperand, HasI4Operand, CondBranch, IntBranch, FloatBranch
<1>6. R2 \in Nat /\ R2 >= 8 /\ R2 % 4 = 0 /\ R2 <= StackBottom BY <1>4, <1>5, FrameFits
<1>7. A.ps = Below(frames, acts, Level, Calls) BY <1>3, <1>4 DEF Here, RunsAt, A, Insns
<1>8. Roomy(A.ps) BY <1>2, <1>7, Lowest DEF Proper
<1>9. A.ps > StackBottom /\ StackBottom \in Int BY <1>1, <1>2, Sizes DEF FetchFails, StackBottom
<1>10. Within(image, FrameNote, 4)
  <2>1. image \in Memory BY SoundFacts DEF Proper
  <2> DEFINE r == R2
  <2>2. FrameNote = A.ps - r + 4 /\ r \in Nat /\ r >= 8 /\ r <= StackBottom BY <1>6 DEF FrameNote
  <2> HIDE DEF r
  <2>3. FrameNote .. FrameNote + 4 - 1 \subseteq 0 .. MemSize + 3
    BY <1>2, <1>8, <1>9, <2>2, Sizes DEF Roomy
  <2>4. QED BY <2>1, <2>3 DEF Within, Memory
<1> DEFINE pc == A.pc + 2
           ps == A.ps - R2
           c == [A EXCEPT !.pc = pc, !.ps = ps]
<1>11. Dispatch(c) /\ status' = status BY <1>10 DEF Enter
<1>12. ps % 4 = 0
  <2> DEFINE r == R2
             s == A.ps
  <2>1. s \in Int /\ s % 4 = 0 /\ r \in Int /\ r % 4 = 0 BY <1>2, <1>6 DEF Grounded
  <2>2. ps = s - r OBVIOUS
  <2> HIDE DEF r, s, ps
  <2>3. QED BY <2>1, <2>2, FoursAdd
<1> HIDE DEF pc, ps
<1>13. Rests(A, c)
  <2>1. 1 \in Slots \ {0} BY Sizes DEF Slots
  <2>2. QED BY <1>2, <1>12, <2>1, RestsMoved
<1> HIDE DEF c
<1>14. QED BY <1>1, <1>11, <1>13, DispatchFine

LEMMA CallingFine ==
  ASSUME Proper, CallFunction \/ CallSystem
  PROVE  Fine
<1>1. At({"CALL"}) /\ Running /\ ~ FetchFails BY DEF CallFunction, CallSystem, At
<1>2. A \in ActivationRecord /\ A.ps \in Int /\ Grounded(A) /\ ~ A.inSyscall /\ Level > 0
  BY <1>1, OffsetsHere
<1> DEFINE n == Slot(A.ofs - 1)
<1>3. Called = [A EXCEPT !.ofs = n] BY DEF Called
<1> HIDE DEF n
<1>4. CASE CallFunction
  <2> DEFINE pc == code.pointers[A.r0]
             c == [[A EXCEPT !.ofs = n] EXCEPT !.pc = pc]
  <2>1. Dispatch(c) /\ status' = status BY <1>3, <1>4 DEF CallFunction
  <2> HIDE DEF pc
  <2>2. Rests(A, c)
    <3>1. 1 \in Slots \ {0} /\ 0 % 4 = 0 BY Sizes DEF Slots
    <3>2. QED BY <1>2, <3>1, RestsMoved
  <2> HIDE DEF c
  <2>3. QED BY <1>1, <2>1, <2>2, DispatchFine
<1>5. CASE CallSystem
  <2>1. Within(image, A.ps + 4, 4 * NSysArgs)
    <3> DEFINE B == Below(frames, acts, Level, Calls)
    <3>1. Roomy(A.ps) /\ A.ps + 8 <= B /\ B \in Int BY <1>1, Calling DEF Proper
    <3>2. B <= Begin(acts, Level) /\ Level \in Nat /\ Level = Len(acts)
      <4>1. Level \in Nat /\ Level \in 1 .. Level BY <1>2, SoundFacts DEF Proper
      <4>2. QED BY <1>2, <4>1, Lowest, SoundFacts DEF Proper
    <3>3. Begin(acts, Level) = A.entry - FrameBytes /\ A.entry \in Int
      BY <1>2 DEF Begin, A, ActivationRecord
    <3>4. A.entry <= MemSize
      <4>1. /\ ReentryNests /\ acts \in Seq(ActivationRecord)
            /\ \A k \in 1 .. Level - 1 : acts[k].ps \in Int /\ Roomy(acts[k].ps)
        <5>1. Nested(prog, image, frames, acts) /\ ReentryNests /\ acts \in Seq(ActivationRecord)
          BY SoundFacts DEF Proper
        <5>2. \A k \in 1 .. Level - 1 : k \in 1 .. Level /\ acts[k].inSyscall
          BY <3>2, <5>1 DEF Nested
        <5>3. QED BY <3>2, <5>1, <5>2, PlacesInside, NestedFacts DEF Proper
      <4>2. A.entry = IF Level = 1 THEN MemSize ELSE acts[Level - 1].ps - 4
        BY <1>2, <3>2, <4>1 DEF ReentryNests, A
      <4>3. CASE Level = 1 BY <4>2, <4>3, Sizes
      <4>4. CASE Level # 1
        <5>1. Level - 1 \in 1 .. Level - 1 BY <1>2, <3>2, <4>4
        <5>2. QED BY <4>1, <4>2, <4>4, <5>1, Sizes DEF Roomy
      <4>5. QED BY <4>3, <4>4
    <3>5. NSysArgs <= NArgs + 4 /\ NSysArgs \in Nat \ {0} /\ NArgs \in Nat /\ MemSize \in Nat
      BY Sizes DEF Proper, Faultless, Sized
    <3>6. image \in Memory BY SoundFacts DEF Proper
    <3> HIDE DEF B
    <3>7. A.ps + 8 + (8 + 4 * NArgs) <= MemSize
      BY <1>2, <3>1, <3>2, <3>3, <3>4, <3>5 DEF FrameBytes
    <3>8. 4 * NSysArgs <= 4 * NArgs + 16 /\ 4 * NSysArgs \in Nat BY <3>5
    <3>9. A.ps + 4 .. (A.ps + 4) + 4 * NSysArgs - 1 \subseteq 0 .. MemSize + 3
      <4> DEFINE x == 4 * NSysArgs
      <4>1. x \in Nat /\ A.ps + 4 >= 0 /\ A.ps + 4 + x - 1 <= MemSize + 3
        BY <1>2, <3>1, <3>5, <3>7, <3>8 DEF Roomy
      <4> HIDE DEF x
      <4>2. QED BY <1>2, <3>5, <4>1 DEF x
    <3>10. QED BY <3>6, <3>9 DEF Within, Memory
  <2> DEFINE pc == A.r0
             v == FetchWord(image, A.ps + 4)
             b == [[A EXCEPT !.ofs = n] EXCEPT !.pc = pc, !.inSyscall = TRUE, !.stomped = v]
  <2>2. acts' = [acts EXCEPT ![Level] = b] /\ status' = status /\ A.r0 < 0
    BY <1>3, <1>5, <2>1 DEF CallSystem, Continue
  <2>3. A.ps > StackBottom BY <1>1, <1>2, Sizes DEF FetchFails, StackBottom
  <2>4. b.ps = A.ps /\ b.opStack = A.opStack /\ b.pc = A.r0 BY <1>2 DEF ActivationRecord
  <2> HIDE DEF b
  <2>5. Grounded(b) BY <1>2, <2>2, <2>3, <2>4 DEF Grounded
  <2>6. QED BY <1>2, <2>2, <2>5, TopFine
<1>6. QED BY <1>4, <1>5

LEMMA ReturningFine ==
  ASSUME Proper, Leave
  PROVE  Fine
<1>1. At({"LEAVE"}) /\ Running /\ SavedReturn # -1 BY DEF Leave, At
<1>2. A \in ActivationRecord /\ A.ps \in Int /\ Grounded(A) /\ ~ A.inSyscall /\ Level > 0
  BY <1>1, OffsetsHere
<1>3. SavedReturn \in 0 .. code.length - 1
  <2>1. /\ FrameRight(prog, image, frames, acts, Calls)
        /\ SavedReturn = frames[Calls].ret /\ frames[Calls].ret \in Nat
    BY <1>1, ReturnWord DEF Proper
  <2>2. PICK e, i \in Indices(Insns) :
          InFunction(Insns, e, i) /\ Op(Insns, i) = "CALL" /\ frames[Calls].ret = Place(prog, i + 1)
    BY <2>1 DEF FrameRight, Waits, Insns
  <2>3. i + 1 \in Indices(Insns) BY <2>2, BehindCall DEF Proper
  <2>4. TypeInv /\ Op(Insns, 0) = "ENTER" BY SoundFacts DEF Proper, Sound, WellFormed
  <2>5. Place(prog, i + 1) + 1 < code.length /\ Place(prog, i + 1) \in Nat
    BY <2>3, <2>4, CodeSpare, CodeAt
  <2>6. code.length \in Nat
    <3>1. code.length = BytesBefore(Insns)[Len(Insns)] BY <2>4 DEF TypeInv, Expanded, Insns
    <3>2. Insns \in Seq(Insn) /\ Len(Insns) \in Nat BY <2>4, CodeTyped
    <3>3. QED BY <3>1, <3>2, BytesBeforeStep
  <2>7. QED BY <2>1, <2>2, <2>5, <2>6
<1>4. R2 \in Nat /\ R2 % 4 = 0
  <2>1. PICK e \in Indices(Insns), i \in Indices(Insns) : Here(e, i)
    BY <1>1, SomewhereHere DEF Proper
  <2>2. /\ Opcode = Op(Insns, i) /\ Opcode \in {"LEAVE"} /\ InFunction(Insns, e, i)
        /\ Opcode \in HasOperand \ CondBranch => R2 = Arg(Insns, i)
    BY <1>1, <2>1, NextInstruction DEF Proper
  <2>3. "LEAVE" \in HasOperand \ CondBranch
    BY DEF HasOperand, HasI4Operand, CondBranch, IntBranch, FloatBranch
  <2>4. WellFormed(Insns, prog.depth) BY SoundFacts DEF Proper
  <2>5. Arg(Insns, i) = Arg(Insns, e) /\ Op(Insns, e) = "ENTER"
    BY <2>2, <2>4 DEF WellFormed, InFunction
  <2>6. QED BY <2>2, <2>3, <2>5, FrameFits
<1> DEFINE pc == SavedReturn
           ps == CallerPs
           c == [A EXCEPT !.pc = pc, !.ps = ps]
<1>5. Dispatch(c) /\ status' = status BY <1>3 DEF Leave
<1>6. ps % 4 = 0
  <2> DEFINE r == R2
             s == A.ps
  <2>1. s \in Int /\ s % 4 = 0 /\ r \in Int /\ r % 4 = 0 BY <1>2, <1>4 DEF Grounded
  <2>2. ps = s + r BY DEF CallerPs
  <2> HIDE DEF r, s, ps
  <2>3. QED BY <2>1, <2>2, FoursAdd
<1> HIDE DEF pc, ps
<1>7. Rests(A, c)
  <2>1. 1 \in Slots \ {0} BY Sizes DEF Slots
  <2>2. QED BY <1>2, <1>6, <2>1, RestsMoved
<1> HIDE DEF c
<1>8. QED BY <1>1, <1>5, <1>7, DispatchFine

\* vmMain leaves one result above the sentinel.
LEMMA LeavingVmFine ==
  ASSUME Proper, LeaveVM
  PROVE  Fine
<1>1. At({"LEAVE"}) /\ Running /\ SavedReturn = -1 BY DEF LeaveVM, At
<1>2. Grounded(A) /\ Level > 0 BY <1>1, OffsetsHere
<1>3. StackClean
  <2>1. A.ofs = BaseOf(frames, Level, Calls) + 1 BY <1>1, Leaving DEF Proper
  <2>2. ~ (Calls > 0 /\ frames[Calls].level = Level)
    <3>1. frames[Calls].ret \in Nat => frames[Calls].ret # -1 OBVIOUS
    <3>2. QED BY <1>1, <3>1, ReturnWord DEF Proper
  <2>3. A.ofs = 1 BY <2>1, <2>2 DEF BaseOf
  <2>4. QED BY <1>2, <2>3 DEF StackClean, Grounded
<1>4. acts' = SubSeq(acts, 1, Level - 1) /\ status' = status BY <1>3 DEF LeaveVM
<1>5. /\ status = "ok" /\ Level \in Nat /\ Level = Len(acts) /\ acts \in Seq(ActivationRecord)
  BY SoundFacts DEF Proper, Sound
<1>6. Len(acts') = Level - 1 /\ \A k \in 1 .. Level - 1 : acts'[k] = acts[k] BY <1>2, <1>4, <1>5
<1>7. \A k \in 1 .. Level - 1 : Grounded(acts[k])
  <2>1. \A k \in 1 .. Level - 1 : k \in 1 .. Level BY <1>5
  <2>2. QED BY <1>5, <2>1 DEF Proper, StackInv
<1>8. Level' = Level - 1 BY <1>6 DEF Level
<1>9. StackInv' BY <1>6, <1>7, <1>8 DEF StackInv, Grounded
<1>10. QED BY <1>4, <1>5, <1>9 DEF Fine, OnlyStackOverflow

LEMMA AnsweredFine ==
  ASSUME Proper, NEW v \in HostReplies, NEW w \in HostWrites, SystemCallReturns(v, w)
  PROVE  Fine
<1>1. InSyscall /\ Level > 0 /\ A.inSyscall BY DEF SystemCallReturns, InSyscall
<1>2. /\ Level \in Nat /\ Level = Len(acts) /\ acts \in Seq(ActivationRecord) /\ status = "ok"
  BY SoundFacts DEF Proper, Sound
<1>3. A \in ActivationRecord /\ A.ofs \in Nat /\ Grounded(A)
  <2>1. A \in ActivationRecord BY <1>1, <1>2 DEF A
  <2>2. Level \in 1 .. Level BY <1>1, <1>2
  <2>3. QED BY <1>2, <2>1, <2>2, Sizes DEF ActivationRecord, Slots, Proper, StackInv, A
<1> DEFINE n == Slot(A.ofs + 1)
           pc == FetchWord(Restored(Overwritten(image, w)), A.ps)
           c == [A EXCEPT !.inSyscall = FALSE, !.ofs = n, !.opStack[n] = v, !.pc = pc]
<1>4. n \in Slots \ {0}
  <2>1. A.ofs + 1 <= OpSlots - 1
    BY <1>1, SuspendedHere DEF Proper, Suspended, Waits, A
  <2>2. A.ofs + 1 \in Slots \ {0} BY <1>3, <2>1, Sizes DEF Slots
  <2>3. QED BY <2>2, Unwrapped
<1>5. Dispatch(c) /\ status' = status BY DEF SystemCallReturns
<1> HIDE DEF n, pc
<1>6. Grounded(c) /\ DOMAIN c = DOMAIN A
  <2>1. 0 \in Slots BY Sizes DEF Slots
  <2>2. DOMAIN A.opStack = Slots BY <1>3 DEF ActivationRecord, Slots
  <2>3. QED BY <1>3, <1>4, <2>1, <2>2 DEF Grounded, ActivationRecord
<1> HIDE DEF c
<1>7. Grounded(Reloaded(c)) BY <1>3, <1>6, RestsReloaded DEF Rests
<1>8. QED BY <1>1, <1>5, <1>7, TopFine DEF Dispatch, Continue

\* A nested VM_Call has room below the stack check.
LEMMA EnteringVmFine ==
  ASSUME Proper, NEW args \in HostArgs, NEW garbage \in Garbage, VM_Call(args, garbage)
  PROVE  Fine
<1> DEFINE p == vm.programStack
           b == Activation(p, args[1], garbage)
<1>1. /\ HostMayCall /\ status = "ok" /\ Level \in Nat /\ Level = Len(acts) /\ ReentryNests
      /\ acts \in Seq(ActivationRecord) /\ image \in Memory
  BY SoundFacts DEF Proper, Sound, VM_Call
<1>2. /\ FrameBytes \in Nat /\ FrameBytes % 4 = 0 /\ FrameBytes <= StackBottom
      /\ MemSize \in Nat /\ MemSize % 4 = 0 /\ StackBottom \in Nat /\ StackBottom <= MemSize
  <2>1. MemSize \in Nat /\ NArgs \in Nat /\ StackSize \in Nat BY Sizes
  <2>2. FrameBytes = 4 * (NArgs + 2) /\ NArgs + 2 \in Nat BY <2>1 DEF FrameBytes
  <2>3. \A k \in Nat : (4 * k) % 4 = 0 OBVIOUS
  <2>4. FrameBytes \in Nat /\ FrameBytes % 4 = 0 BY <2>2, <2>3
  <2>5. MemSize % 4 = 0 /\ FrameBytes <= StackBottom BY DEF Proper, Faultless, Sized
  <2>6. StackBottom >= 0 BY SoundFacts DEF Proper
  <2>7. QED BY <2>1, <2>4, <2>5, <2>6 DEF StackBottom
<1>3. p \in Int /\ p <= MemSize
  <2>1. \A x \in 0 .. MemSize + 3 : x >= p => image[x] = image[x] OBVIOUS
  <2>2. QED BY <1>1, <2>1, HostCallsBelow DEF Proper
<1>4. p % 4 = 0 /\ p >= StackBottom - 3
  <2>1. CASE Level = 0
    <3>1. acts \in Seq(ActivationRecord) /\ Len(acts) = 0 BY <1>1, <2>1
    <3>2. acts = <<>> BY <3>1, SMT
    <3>3. p = MemSize BY <1>1, <3>2 DEF ReentryNests
    <3> HIDE DEF p
    <3>4. QED BY <1>2, <3>3
  <2>2. CASE Level # 0
    <3>1. Level \in 1 .. Level /\ A.inSyscall /\ acts # <<>> BY <1>1, <2>2 DEF HostMayCall
    <3>2. Grounded(A) /\ A \in ActivationRecord BY <1>1, <3>1 DEF Proper, StackInv, A
    <3> DEFINE s == A.ps
    <3>3. p = s - 4 BY <1>1, <3>1 DEF ReentryNests, A
    <3>4. s \in Int /\ s % 4 = 0 /\ s > StackBottom
      BY <3>1, <3>2 DEF Grounded, ActivationRecord
    <3> HIDE DEF p, s
    <3>5. 4 % 4 = 0 OBVIOUS
    <3>6. p % 4 = 0 BY <3>3, <3>4, <3>5, FoursAdd
    <3>7. QED BY <1>2, <3>3, <3>4, <3>6
  <2>3. QED BY <2>1, <2>2
<1>5. /\ b.ps = p - FrameBytes /\ b.opStack[0] = Sentinel /\ ~ b.inSyscall
  <2>1. 0 \in 0 .. OpSlots - 1 BY Sizes
  <2> HIDE DEF p
  <2>2. QED BY <2>1 DEF Activation, Reloaded
<1>6. (p - FrameBytes) % 4 = 0 /\ p - FrameBytes >= 0
  <2> HIDE DEF p
  <2> DEFINE f == FrameBytes
             x == p - f
  <2>1. x % 4 = 0 BY <1>2, <1>3, <1>4, FoursAdd
  <2>2. x \in Int /\ x >= -3 BY <1>2, <1>3, <1>4
  <2> HIDE DEF x
  <2>3. x >= 0 BY <2>1, <2>2
  <2>4. QED BY <2>1, <2>3 DEF x
<1>7. Within(image, b.ps, FrameBytes)
  <2> HIDE DEF p
  <2>1. p - FrameBytes .. (p - FrameBytes) + FrameBytes - 1 \subseteq 0 .. MemSize + 3
    BY <1>2, <1>3, <1>6
  <2>2. QED BY <1>1, <1>5, <2>1 DEF Within, Memory
<1>8. acts' = Append(acts, b) /\ status' = status BY <1>7 DEF VM_Call
<1>9. Grounded(b) BY <1>5, <1>6 DEF Grounded
<1> HIDE DEF b
<1>10. Level' = Level + 1 /\ \A k \in 1 .. Level + 1 : acts'[k] = IF k = Level + 1 THEN b ELSE acts[k]
  <2>1. Len(acts') = Level + 1 BY <1>1, <1>8
  <2>2. Level' = Level + 1 BY <2>1 DEF Level
  <2>3. QED BY <1>1, <1>8, <2>2
<1>11. \A k \in 1 .. Level + 1 : Grounded(acts'[k])
  <2>1. \A k \in 1 .. Level + 1 : k = Level + 1 \/ k \in 1 .. Level BY <1>1
  <2>2. \A k \in 1 .. Level : Grounded(acts[k]) BY <1>1 DEF Proper, StackInv
  <2>3. QED BY <1>1, <1>9, <1>10, <2>1, <2>2
<1>12. StackInv' BY <1>10, <1>11 DEF StackInv, Grounded
<1>13. QED BY <1>1, <1>8, <1>12 DEF Fine, OnlyStackOverflow

LEMMA FreeingFine ==
  ASSUME Proper, VM_Free
  PROVE  Fine
<1>1. HostMayCall /\ ReentryNests /\ Level \in Nat /\ Level = Len(acts)
  BY SoundFacts DEF Proper, VM_Free
<1>2. CASE Halt("error") /\ vm.callLevel # 0
  <2>1. A.inSyscall BY <1>1, <1>2 DEF HostMayCall, ReentryNests
  <2>2. QED BY <1>2, <2>1, HaltFine
<1>3. CASE Halt("freed") BY <1>3, HaltFine
<1>4. QED BY <1>2, <1>3 DEF VM_Free

LEMMA InitFine == Init => OnlyStackOverflow /\ StackInv
<1> SUFFICES ASSUME Init PROVE OnlyStackOverflow /\ StackInv OBVIOUS
<1>1. status = "ok" /\ Level = 0 BY DEF Init, Level
<1>2. 1 .. Level = {} BY <1>1
<1>3. QED BY <1>1, <1>2 DEF OnlyStackOverflow, StackInv

LEMMA NextFine ==
  ASSUME TypeInv, InterpInv, CompiledInv, Conventional, Faultless, OnlyStackOverflow, StackInv,
         [Next]_vars
  PROVE  Fine
<1>1. CASE UNCHANGED vars
  <2>1. A' = A /\ Level' = Level /\ acts' = acts /\ status' = status BY <1>1 DEF vars, A, Level
  <2>2. OnlyStackOverflow' BY <2>1 DEF OnlyStackOverflow
  <2>3. StackInv' BY <2>1 DEF StackInv, Grounded
  <2>4. QED BY <2>2, <2>3 DEF Fine
<1>2. CASE status # "ok"
  <2>1. ~ Running /\ ~ InSyscall /\ ~ HostMayCall BY <1>2 DEF Running, InSyscall, HostMayCall
  <2>2. ~ Instruction
    BY <2>1 DEF Instruction, FetchError, OperandMissing, BadInstruction, Nothing, PushCached,
                LoadMisaligned, LoadValue, StoreValue, Argument, BlockCopy, CallWild, CallFunction,
                CallOutOfRange, CallSystem, PushStale, Pop, Enter, LeaveWild, Leave, LeaveVM,
                Jump, Branch, Unary, Binary, At
  <2>3. ~ HostReturns /\ ~ HostCalls /\ ~ VM_Free
    BY <2>1 DEF HostReturns, HostCalls, VM_Free, SystemCallReturns, VM_Call
  <2>4. QED BY <1>1, <2>2, <2>3 DEF Next
<1>3. CASE status = "ok"
  <2>1. Proper BY <1>3 DEF Proper, Sound
  <2>2. CASE Instruction
    <3>1. CASE FetchError \/ OperandMissing \/ BadInstruction \/ LoadMisaligned
               \/ CallWild \/ CallOutOfRange \/ LeaveWild
      BY <2>1, <3>1, StoppingFine
    <3>2. CASE Nothing \/ PushCached \/ LoadValue \/ PushStale \/ Pop \/ Unary \/ Binary
      BY <2>1, <3>2, ComputingFine
    <3>3. CASE StoreValue \/ Argument \/ BlockCopy \/ Jump \/ Branch BY <2>1, <3>3, MovingFine
    <3>4. CASE Enter BY <2>1, <3>4, EnteringFine
    <3>5. CASE CallFunction \/ CallSystem BY <2>1, <3>5, CallingFine
    <3>6. CASE Leave BY <2>1, <3>6, ReturningFine
    <3>7. CASE LeaveVM BY <2>1, <3>7, LeavingVmFine
    <3>8. QED BY <2>2, <3>1, <3>2, <3>3, <3>4, <3>5, <3>6, <3>7 DEF Instruction
  <2>3. CASE HostReturns BY <2>1, <2>3, AnsweredFine DEF HostReturns
  <2>4. CASE HostCalls BY <2>1, <2>4, EnteringVmFine DEF HostCalls
  <2>5. CASE VM_Free BY <2>1, <2>5, FreeingFine
  <2>6. QED BY <1>1, <2>2, <2>3, <2>4, <2>5 DEF Next
<1>4. QED BY <1>2, <1>3

LEMMA StackInvHolds == Spec /\ [](Conventional /\ Faultless) => [](OnlyStackOverflow /\ StackInv)
<1>1. /\ TypeInv /\ InterpInv /\ CompiledInv /\ Conventional /\ Faultless
      /\ OnlyStackOverflow /\ StackInv /\ [Next]_vars
      => OnlyStackOverflow' /\ StackInv'
  BY NextFine DEF Fine
<1>2. QED BY <1>1, InitFine, CompiledInvHolds, PTL DEF Spec

(***************************************************************************)
(* A compiled program that does not itself ask for what vm.c refuses, in   *)
(* the hands of a host that keeps to its memory, runs clean: whatever the  *)
(* depth of calls, system calls and calls back, no instruction, system     *)
(* call or VM_Call touches memory, code or operand stack outside its       *)
(* allocation, the return address OP_LEAVE fetches is one, VM_Call finds   *)
(* its sentinel, and Com_Error is called only for a full program stack or  *)
(* a VM_Free inside a call.  That the program is Specified is not needed.  *)
(***************************************************************************)
THEOREM NothingElseStops ==
  Spec /\ [](Conventional /\ Faultless) => [](OnlyStackOverflow /\ (Specified => CompiledRunsClean))
<1>1. Conventional /\ Faultless /\ OnlyStackOverflow
      => OnlyStackOverflow /\ (Specified => CompiledRunsClean)
  BY DEF CompiledRunsClean
<1>2. QED BY <1>1, StackInvHolds, PTL
=============================================================================
