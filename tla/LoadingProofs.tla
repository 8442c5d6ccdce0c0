---------------------------- MODULE LoadingProofs ---------------------------
(***************************************************************************)
(* Proofs about the two decoders, for every file.                          *)
(***************************************************************************)
EXTENDS Loading, Lemmas

USE DEF Indices

(***************************************************************************)
(* The program a code segment C spells, without reference to either        *)
(* decoder: instruction k begins where instruction k - 1 ends.             *)
(***************************************************************************)
ByteAt(C, n) ==
  LET b[k \in 0 .. n] == IF k = 0 THEN 0 ELSE b[k - 1] + 1 + OperandBytes(OpcodeNumbered(C[b[k - 1]]))
  IN  b

OperandAt(C, b) ==
  LET op == OpcodeNumbered(C[b])
  IN  IF op \in HasI4Operand THEN FetchWord(C, b + 1)
      ELSE IF op = "ARG" THEN C[b + 1] ELSE 0

InsnAt(C, b) == [op |-> OpcodeNumbered(C[b]), arg |-> OperandAt(C, b)]

ProgramIn(C, n) == [k \in 1 .. n |-> InsnAt(C, ByteAt(C, n)[k - 1])]

LEMMA ByteAtStep ==
  ASSUME NEW C, NEW n \in Nat, NEW B, B = ByteAt(C, n)
  PROVE  /\ B \in [0 .. n -> Nat] /\ B[0] = 0
         /\ \A k \in 0 .. n - 1 : B[k + 1] = B[k] + 1 + OperandBytes(OpcodeNumbered(C[B[k]]))
<1> DEFINE Step(x) == x + 1 + OperandBytes(OpcodeNumbered(C[x]))
           F == [k \in Nat |-> [x \in Nat |-> Step(x)]]
<1>1. \A x \in Nat : Step(x) \in Nat BY OperandSizes
<1> HIDE DEF Step
<1>2. F \in [Nat -> [Nat -> Nat]] BY <1>1
<1> HIDE DEF F
<1>3. PICK w \in [0 .. n -> Nat] :
        w = [k \in 0 .. n |-> IF k = 0 THEN 0 ELSE F[k - 1][w[k - 1]]]
  BY <1>2, Recursion
<1>4. \A k \in 0 .. n : k # 0 => F[k - 1][w[k - 1]] = Step(w[k - 1])
  <2> SUFFICES ASSUME NEW k \in 0 .. n, k # 0 PROVE F[k - 1][w[k - 1]] = Step(w[k - 1])
    OBVIOUS
  <2>1. k - 1 \in Nat /\ k - 1 \in 0 .. n OBVIOUS
  <2>2. w[k - 1] \in Nat BY <2>1
  <2>3. QED BY <2>1, <2>2 DEF F
<1>5. w = [k \in 0 .. n |-> IF k = 0 THEN 0 ELSE Step(w[k - 1])] BY <1>3, <1>4
<1>6. B = [k \in 0 .. n |-> IF k = 0 THEN 0 ELSE Step(B[k - 1])]
  BY <1>5 DEF ByteAt, Step
<1>7. ASSUME NEW k \in 0 .. n PROVE B[k] \in Nat
  <2> DEFINE S == {j \in 0 .. n : B[j] \in Nat}
  <2>1. 0 \in S BY <1>6
  <2>2. ASSUME NEW j \in 0 .. n - 1, j \in S PROVE j + 1 \in S
    <3>1. j + 1 \in 0 .. n /\ j + 1 # 0 /\ (j + 1) - 1 = j OBVIOUS
    <3>2. B[j + 1] = Step(B[j]) BY <1>6, <3>1
    <3>3. QED BY <1>1, <2>2, <3>1, <3>2
  <2> HIDE DEF S
  <2>3. k \in S BY <2>1, <2>2, InductionTo
  <2>4. QED BY <2>3 DEF S
<1>8. ASSUME NEW k \in 0 .. n - 1 PROVE B[k + 1] = Step(B[k])
  <2>1. k + 1 \in 0 .. n /\ k + 1 # 0 /\ (k + 1) - 1 = k OBVIOUS
  <2>2. QED BY <1>6, <2>1
<1>9. B \in [0 .. n -> Nat] BY <1>6, <1>7
<1>10. B[0] = 0 BY <1>6
<1>11. QED BY <1>8, <1>9, <1>10 DEF Step

-----------------------------------------------------------------------------
(* What a file says, and where its parts lie.                              *)

CodeOf(f)    == FromCode(f)
CountOf(f)   == f.header.instructionCount
ProgramOf(f) == ProgramIn(CodeOf(f), CountOf(f))
BytePos(f)   == ByteAt(CodeOf(f), CountOf(f))
WordPos(f)   == WordsBefore(ProgramOf(f))
Insns(f)     == 0 .. CountOf(f) - 1
Room(f)      == 0 .. f.header.codeLength - 1

\* The loader finds instruction k and has room for it; it does not stop there.
Inside(f, k) ==
  /\ BytePos(f)[k] \in DOMAIN CodeOf(f) /\ WordPos(f)[k] \in Room(f)
  /\ OperandWords(Op(ProgramOf(f), k)) = 1 =>
       /\ BytePos(f)[k] + 1 .. BytePos(f)[k] + OperandBytes(Op(ProgramOf(f), k)) \subseteq DOMAIN CodeOf(f)
       /\ WordPos(f)[k] + 1 \in Room(f)

Passes(f, k) ==
  BytePos(f)[k] <= f.header.codeLength /\ Op(ProgramOf(f), k) # "BAD"

Branches(f, k) == Op(ProgramOf(f), k) \in CondBranch
Target(f, k)   == Arg(ProgramOf(f), k)

\* The translator reads instruction k.
Readable(f, k) ==
  /\ BytePos(f)[k] < f.header.codeLength /\ Op(ProgramOf(f), k) # "BAD"
  /\ BytePos(f)[k + 1] <= f.header.codeLength

-----------------------------------------------------------------------------
(* The inductive invariants.                                               *)

Live == phase \in {"pointers", "code", "expand", "translate", "ready"}

\* How many instructions are expanded, and how many branches translated.
Expansions   == IF phase \in {"translate", "ready"} THEN CountOf(file) ELSE insn
Translations == IF phase = "ready" THEN CountOf(file) ELSE IF phase = "translate" THEN insn ELSE 0

LoaderInv ==
  /\ phase = "create" => /\ codeBase = <<>> /\ pointers = <<>>
                         /\ bytePc = 0 /\ intPc = 0 /\ insn = 0
  /\ Live =>
       /\ HeaderOk(file) /\ insn \in 0 .. CountOf(file)
       /\ phase \in {"pointers", "code"} => insn = 0
       /\ bytePc = BytePos(file)[Expansions]
       /\ intPc = WordPos(file)[insn]
       /\ Laid(codeBase, ProgramOf(file), Expansions, Translations)
       /\ pointers = [k \in 0 .. Expansions - 1 |-> WordPos(file)[k]]
       /\ \A k \in 0 .. Expansions - 1 : Inside(file, k) /\ Passes(file, k)
       /\ \A k \in 0 .. Translations - 1 : Branches(file, k) => Target(file, k) \in Insns(file)

\* Why the loader stopped.
StopInv ==
  /\ phase = "error" =>
       \/ ~ HeaderOk(file)
       \/ \E k \in Insns(file) :
            ~ Passes(file, k) \/ (Branches(file, k) /\ Target(file, k) \notin Insns(file))
  /\ phase = "undefined" =>
       \E k \in Insns(file) :
         ~ Inside(file, k) \/ (Branches(file, k) /\ Target(file, k) \notin Insns(file))

DecoderInv ==
  /\ pass # "header" => L!Stopped
  /\ pass = "header" => insns = <<>> /\ pc = 0
  /\ pass \in {"alloc", "expand", "decoded"} =>
       /\ HeaderOk(file) /\ Len(insns) \in 0 .. CountOf(file)
       /\ insns = [k \in 1 .. Len(insns) |-> ProgramOf(file)[k]]
       /\ pc = BytePos(file)[Len(insns)]
       /\ \A k \in 0 .. Len(insns) - 1 : Readable(file, k)
       /\ pass = "decoded" => Len(insns) = CountOf(file)
  /\ pass = "failed" => ~ HeaderOk(file) \/ \E k \in Insns(file) : ~ Readable(file, k)

\* The memory VM_LoadQVM makes of a file.
Loaded(f) ==
  [a \in 0 .. RoundedData(f.header) + 3 |->
     IF a < f.header.dataLength + f.header.litLength
     THEN f.bytes[f.header.dataOffset + a + 1] ELSE 0]

\* The two memories, as functions of the file.
DataInv ==
  /\ Live => /\ HeaderOk(file)
             /\ dataBase = Loaded(file)
  /\ pass \in {"alloc", "expand", "decoded"} =>
       totalMem = IF RoundedData(file.header) < ProgramStack
                  THEN ProgramStack ELSE RoundedData(file.header)

LoadingInv == file \in Files /\ file \in File /\ LoaderInv /\ StopInv /\ DecoderInv /\ DataInv

-----------------------------------------------------------------------------
(* Facts about a file.                                                     *)

LEMMA FileFacts ==
  ASSUME NEW f, CountOf(f) \in Nat
  PROVE  /\ Len(ProgramOf(f)) = CountOf(f)
         /\ ProgramOf(f) = [k \in 1 .. CountOf(f) |-> ProgramOf(f)[k]]
         /\ \A k \in Insns(f) :
              /\ ProgramOf(f)[k + 1] = InsnAt(CodeOf(f), BytePos(f)[k])
              /\ Op(ProgramOf(f), k) = OpcodeNumbered(CodeOf(f)[BytePos(f)[k]])
              /\ Arg(ProgramOf(f), k) = OperandAt(CodeOf(f), BytePos(f)[k])
         /\ BytePos(f) \in [0 .. CountOf(f) -> Nat] /\ BytePos(f)[0] = 0
         /\ \A k \in Insns(f) :
              BytePos(f)[k + 1] = BytePos(f)[k] + 1 + OperandBytes(Op(ProgramOf(f), k))
         /\ WordPos(f) \in [0 .. CountOf(f) -> Nat] /\ WordPos(f)[0] = 0
         /\ \A k \in Insns(f) :
              WordPos(f)[k + 1] = WordPos(f)[k] + 1 + OperandWords(Op(ProgramOf(f), k))
<1> DEFINE n == CountOf(f)
<1>1. ProgramOf(f) = [k \in 1 .. n |-> InsnAt(CodeOf(f), BytePos(f)[k - 1])]
  BY DEF ProgramOf, ProgramIn, BytePos
<1>2. Len(ProgramOf(f)) = n BY <1>1
<1>3. ASSUME NEW k \in Insns(f)
      PROVE  /\ ProgramOf(f)[k + 1] = InsnAt(CodeOf(f), BytePos(f)[k])
             /\ Op(ProgramOf(f), k) = OpcodeNumbered(CodeOf(f)[BytePos(f)[k]])
             /\ Arg(ProgramOf(f), k) = OperandAt(CodeOf(f), BytePos(f)[k])
  <2>1. k + 1 \in 1 .. n /\ (k + 1) - 1 = k BY DEF Insns
  <2>2. ProgramOf(f)[k + 1] = InsnAt(CodeOf(f), BytePos(f)[k]) BY <1>1, <2>1
  <2>3. QED BY <2>2 DEF Op, Arg, InsnAt
<1>4. /\ BytePos(f) \in [0 .. n -> Nat] /\ BytePos(f)[0] = 0
      /\ \A k \in 0 .. n - 1 :
           BytePos(f)[k + 1] = BytePos(f)[k] + 1
                                 + OperandBytes(OpcodeNumbered(CodeOf(f)[BytePos(f)[k]]))
  BY ByteAtStep DEF BytePos
<1>5. /\ WordPos(f) \in [0 .. n -> Nat] /\ WordPos(f)[0] = 0
      /\ \A k \in 0 .. n - 1 :
           WordPos(f)[k + 1] = WordPos(f)[k] + 1 + OperandWords(Op(ProgramOf(f), k))
  BY <1>2, WordsBeforeStep DEF WordPos
<1>6. Insns(f) = 0 .. n - 1 BY DEF Insns
<1>7. ProgramOf(f) = [k \in 1 .. n |-> ProgramOf(f)[k]] BY <1>1
<1> HIDE DEF n
<1>8. \A k \in Insns(f) :
        BytePos(f)[k + 1] = BytePos(f)[k] + 1 + OperandBytes(Op(ProgramOf(f), k))
  BY <1>3, <1>4, <1>6
<1>9. QED BY <1>2, <1>3, <1>4, <1>5, <1>6, <1>7, <1>8 DEF n

LEMMA FileAscends ==
  ASSUME NEW f, CountOf(f) \in Nat
  PROVE  Ascends(BytePos(f), CountOf(f)) /\ Ascends(WordPos(f), CountOf(f))
<1>1. ASSUME NEW k \in 0 .. CountOf(f) - 1
      PROVE  BytePos(f)[k] < BytePos(f)[k + 1] /\ WordPos(f)[k] < WordPos(f)[k + 1]
  <2>1. k \in Insns(f) /\ k \in 0 .. CountOf(f) BY DEF Insns
  <2>2. BytePos(f)[k] \in Nat /\ WordPos(f)[k] \in Nat BY <2>1, FileFacts
  <2>3. /\ BytePos(f)[k + 1] = BytePos(f)[k] + 1 + OperandBytes(Op(ProgramOf(f), k))
        /\ WordPos(f)[k + 1] = WordPos(f)[k] + 1 + OperandWords(Op(ProgramOf(f), k))
    BY <2>1, FileFacts
  <2>4. QED BY <2>2, <2>3, OperandSizes
<1>2. QED BY <1>1, FileFacts DEF Ascends

\* No instruction takes more words than bytes.
LEMMA WordsBelowBytes ==
  ASSUME NEW f, CountOf(f) \in Nat, NEW k \in 0 .. CountOf(f)
  PROVE  WordPos(f)[k] <= BytePos(f)[k]
<1> DEFINE S == {j \in 0 .. CountOf(f) : WordPos(f)[j] <= BytePos(f)[j]}
<1>1. 0 \in S BY FileFacts
<1>2. ASSUME NEW j \in 0 .. CountOf(f) - 1, j \in S PROVE j + 1 \in S
  <2>1. /\ j \in Insns(f) /\ j \in 0 .. CountOf(f) /\ j + 1 \in 0 .. CountOf(f)
    BY DEF Insns
  <2>2. BytePos(f)[j] \in Nat /\ WordPos(f)[j] \in Nat BY <2>1, FileFacts
  <2>3. WordPos(f)[j] <= BytePos(f)[j] BY <1>2
  <2>4. /\ BytePos(f)[j + 1] = BytePos(f)[j] + 1 + OperandBytes(Op(ProgramOf(f), j))
        /\ WordPos(f)[j + 1] = WordPos(f)[j] + 1 + OperandWords(Op(ProgramOf(f), j))
    BY <2>1, FileFacts
  <2>5. WordPos(f)[j + 1] <= BytePos(f)[j + 1] BY <2>2, <2>3, <2>4, OperandSizes
  <2>6. QED BY <2>1, <2>5
<1> HIDE DEF S
<1>3. k \in S BY <1>1, <1>2, InductionTo
<1>4. QED BY <1>3 DEF S

-----------------------------------------------------------------------------
(* Facts about images.                                                     *)

\* The words from x to y - 1 lie before a and before e.
LEMMA Joined ==
  ASSUME NEW a \in Nat, NEW l \in Nat, NEW e, e = a + l
  PROVE  (0 .. a - 1) \cup (a .. a + l - 1) = 0 .. e - 1
OBVIOUS

LEMMA Before ==
  ASSUME NEW x \in Nat, NEW v \in 0 .. 1, NEW y, y = x + 1 + v,
         NEW a \in Nat, NEW e \in Nat, y <= a, a <= e
  PROVE  /\ x \in 0 .. e - 1 /\ x < a
         /\ v = 1 => x + 1 \in 0 .. e - 1 /\ x + 1 < a
OBVIOUS

\* Image m with the words of an instruction written from word a on.
Grown(m, a, ws) ==
  [x \in DOMAIN m \cup (a .. a + Len(ws) - 1) |-> IF x < a THEN m[x] ELSE ws[x - a + 1]]

WordsOf(p, n, c) == IF OperandWords(Op(p, n)) = 1 THEN <<c, Arg(p, n)>> ELSE <<c>>

\* One more instruction of one or two words.
LEMMA LaidGrows ==
  ASSUME NEW p, Len(p) \in Nat, NEW n \in Indices(p), NEW m, Laid(m, p, n, 0),
         NEW c \in 0 .. OP_MAX - 1, OpcodeNumbered(c) = Op(p, n),
         NEW ws, ws = WordsOf(p, n, c),
         NEW a, a = WordsBefore(p)[n],
         NEW m2, m2 = Grown(m, a, ws)
  PROVE  Laid(m2, p, n + 1, 0) /\ a + Len(ws) = WordsBefore(p)[n + 1]
<1> DEFINE at == WordsBefore(p)
<1>1. /\ at \in [0 .. Len(p) -> Nat]
      /\ \A k \in Indices(p) : at[k + 1] = at[k] + 1 + OperandWords(Op(p, k))
  BY WordsBeforeStep
<1>2. Ascends(at, Len(p)) BY WordsAscend
<1> HIDE DEF at
<1>3. a = at[n] /\ a \in Nat BY <1>1 DEF at
<1>4. /\ Len(ws) = 1 + OperandWords(Op(p, n)) /\ OperandWords(Op(p, n)) \in 0 .. 1
      /\ Len(ws) \in 1 .. 2
  BY OperandSizes DEF WordsOf
<1>5. a + Len(ws) = at[n + 1] /\ at[n + 1] \in Nat /\ at[n + 1] > a
  <2>1. at[n + 1] = at[n] + 1 + OperandWords(Op(p, n)) BY <1>1
  <2>2. QED BY <1>3, <1>4, <2>1
<1>6. DOMAIN m = 0 .. a - 1 BY <1>3 DEF Laid, at
<1>7. DOMAIN m \cup (a .. a + Len(ws) - 1) = 0 .. at[n + 1] - 1
  <2> DEFINE e == at[n + 1]
             l == Len(ws)
  <2>1. a + l = e /\ a \in Nat /\ l \in Nat BY <1>3, <1>4, <1>5
  <2> HIDE DEF e, l
  <2>2. (0 .. a - 1) \cup (a .. a + l - 1) = 0 .. e - 1 BY <2>1, Joined
  <2>3. QED BY <1>6, <2>2, Zenon DEF e, l
<1>8. m2 = [x \in 0 .. at[n + 1] - 1 |-> IF x < a THEN m[x] ELSE ws[x - a + 1]]
  BY <1>7 DEF Grown
<1>9. ASSUME NEW k \in 0 .. n
      PROVE  /\ OpcodeNumbered(m2[at[k]]) = Op(p, k) /\ m2[at[k]] \in 0 .. OP_MAX - 1
             /\ OperandWords(Op(p, k)) = 1 => m2[at[k] + 1] = OperandLaid(p, k, 0)
  <2>1. k \in Indices(p) /\ k \in 0 .. Len(p) OBVIOUS
  <2>2. at[k] \in Nat BY <1>1, <2>1
  <2>3. OperandLaid(p, k, 0) = Arg(p, k) BY <2>1 DEF OperandLaid
  <2>4. CASE k = n
    <3>1. at[k] = a BY <1>3, <2>4
    <3>2. m2[a] = c
      <4>1. a \in 0 .. at[n + 1] - 1 BY <1>3, <1>5
      <4>2. m2[a] = IF a < a THEN m[a] ELSE ws[a - a + 1] BY <1>8, <4>1, Zenon
      <4>3. a - a + 1 = 1 /\ ~ (a < a) BY <1>3
      <4>4. m2[a] = ws[1] BY <4>2, <4>3
      <4>5. QED BY <4>4 DEF WordsOf
    <3>3. ASSUME OperandWords(Op(p, n)) = 1 PROVE m2[a + 1] = Arg(p, n)
      <4>1. a + 1 \in 0 .. at[n + 1] - 1 BY <1>3, <1>4, <1>5, <3>3
      <4>2. m2[a + 1] = IF a + 1 < a THEN m[a + 1] ELSE ws[(a + 1) - a + 1]
        BY <1>8, <4>1, Zenon
      <4>3. QED BY <1>3, <3>3, <4>2 DEF WordsOf
    <3>4. QED BY <2>3, <2>4, <3>1, <3>2, <3>3
  <2>5. CASE k # n
    <3>1. k \in 0 .. n - 1 /\ k + 1 \in 0 .. Len(p) /\ n \in 0 .. Len(p) /\ k + 1 <= n
      BY <2>5
    <3>2. at[k + 1] <= a BY <1>2, <1>3, <3>1, AscendsFar
    <3>3. at[k + 1] = at[k] + 1 + OperandWords(Op(p, k)) /\ OperandWords(Op(p, k)) \in 0 .. 1
      BY <1>1, <2>1, OperandSizes
    <3>4. a <= at[n + 1] BY <1>3, <1>5
    <3>5. /\ at[k] \in 0 .. at[n + 1] - 1 /\ at[k] < a
          /\ OperandWords(Op(p, k)) = 1 =>
               at[k] + 1 \in 0 .. at[n + 1] - 1 /\ at[k] + 1 < a
      BY <1>3, <1>5, <2>2, <3>2, <3>3, <3>4, Before
    <3>6. m2[at[k]] = m[at[k]] BY <1>8, <3>5
    <3>7. OperandWords(Op(p, k)) = 1 => m2[at[k] + 1] = m[at[k] + 1] BY <1>8, <3>5
    <3>8. QED BY <3>1, <3>6, <3>7 DEF Laid, at
  <2>6. QED BY <2>4, <2>5
<1>10. m2 = [x \in 0 .. at[n + 1] - 1 |-> m2[x]] BY <1>8
<1>11. (n + 1) - 1 = n OBVIOUS
<1>12. QED BY <1>5, <1>9, <1>10, <1>11 DEF Laid, at

\* One more instruction is looked at for translation.
LEMMA LaidTranslates ==
  ASSUME NEW p, Len(p) \in Nat, NEW d \in Indices(p), NEW m, Laid(m, p, Len(p), d),
         NEW m2,
         \/ /\ Op(p, d) \in CondBranch
            /\ m2 = [m EXCEPT ![WordsBefore(p)[d] + 1] = WordsBefore(p)[Arg(p, d)]]
         \/ Op(p, d) \notin CondBranch /\ m2 = m
  PROVE  Laid(m2, p, Len(p), d + 1)
<1> DEFINE at == WordsBefore(p)
           n == Len(p)
           Good(mm, k, e) ==
             /\ OpcodeNumbered(mm[at[k]]) = Op(p, k) /\ mm[at[k]] \in 0 .. OP_MAX - 1
             /\ OperandWords(Op(p, k)) = 1 => mm[at[k] + 1] = OperandLaid(p, k, e)
<1>1. /\ at \in [0 .. n -> Nat]
      /\ \A k \in 0 .. n - 1 : at[k + 1] = at[k] + 1 + OperandWords(Op(p, k))
  BY WordsBeforeStep
<1>2. Ascends(at, n) BY WordsAscend
<1>3. m = [x \in 0 .. at[n] - 1 |-> m[x]] BY DEF Laid
<1>4. \A k \in 0 .. n - 1 : Good(m, k, d) BY DEF Laid
<1>5. \A k \in 0 .. n - 1 : k # d => OperandLaid(p, k, d + 1) = OperandLaid(p, k, d)
  BY DEF OperandLaid
<1>6. d \in 0 .. n - 1 /\ n \in Nat OBVIOUS
<1> HIDE DEF at, n, Good
<1>7. CASE Op(p, d) \notin CondBranch
  <2>1. m2 = m BY <1>7
  <2>2. OperandLaid(p, d, d + 1) = OperandLaid(p, d, d) BY <1>7 DEF OperandLaid
  <2>3. \A k \in 0 .. n - 1 : OperandLaid(p, k, d + 1) = OperandLaid(p, k, d) BY <1>5, <2>2
  <2>4. \A k \in 0 .. n - 1 : Good(m, k, d + 1) BY <1>4, <2>3 DEF Good
  <2>5. QED BY <1>3, <2>1, <2>4 DEF Laid, at, n, Good
<1>8. CASE Op(p, d) \in CondBranch
  <2> DEFINE x == at[d] + 1
  <2>1. m2 = [m EXCEPT ![x] = at[Arg(p, d)]] BY <1>8 DEF at
  <2>2. OperandWords(Op(p, d)) = 1 /\ x = at[d + 1] - 1
    BY <1>1, <1>6, <1>8, OperandSizes
  <2>3. /\ x \in 0 .. at[n] - 1
        /\ \A k \in 0 .. n - 1 : at[k] # x /\ (k # d => at[k] + 1 # x)
    <3>1. \A k \in 0 .. n : at[k] \in Nat BY <1>1
    <3>2. /\ d \in 0 .. n /\ d + 1 \in 0 .. n /\ n \in 0 .. n
          /\ \A k \in 0 .. n - 1 : k \in 0 .. n /\ k + 1 \in 0 .. n
      BY <1>6
    <3>3. at[d + 1] <= at[n] BY <1>2, <1>6, <3>2, AscendsFar
    <3>4. x \in 0 .. at[n] - 1 BY <2>2, <3>1, <3>2, <3>3
    <3>5. ASSUME NEW k \in 0 .. n - 1 PROVE at[k] # x /\ (k # d => at[k] + 1 # x)
      <4>1. at[k] \in Nat /\ at[d] \in Nat /\ at[d + 1] \in Nat BY <3>1, <3>2
      <4>2. CASE k < d
        <5>1. at[k + 1] <= at[d] BY <1>2, <1>6, <3>2, <4>2, AscendsFar
        <5>2. at[k] < at[k + 1] /\ at[k + 1] \in Nat BY <1>2, <3>1, <3>2 DEF Ascends
        <5>3. QED BY <4>1, <5>1, <5>2
      <4>3. CASE k = d BY <4>1, <4>3
      <4>4. CASE k > d
        <5>1. at[d + 1] <= at[k] BY <1>2, <1>6, <3>2, <4>4, AscendsFar
        <5>2. QED BY <2>2, <4>1, <5>1
      <4>5. QED BY <1>6, <4>2, <4>3, <4>4
    <3>6. QED BY <3>4, <3>5
  <2>4. ASSUME NEW k \in 0 .. n - 1 PROVE Good(m2, k, d + 1)
    <3>1. \A k2 \in 0 .. n - 1 : Good(m, k2, d) BY <1>4
    <3>2. DOMAIN m = 0 .. at[n] - 1 BY <1>3
    <3>3. k \in 0 .. n /\ k + 1 \in 0 .. n /\ d \in 0 .. n /\ n \in 0 .. n BY <1>6
    <3>4. at[k] \in Nat /\ at[k + 1] \in Nat /\ at[n] \in Nat BY <1>1, <3>3
    <3>5. at[k + 1] = at[k] + 1 + OperandWords(Op(p, k)) /\ OperandWords(Op(p, k)) \in 0 .. 1
      BY <1>1, OperandSizes
    <3>6. at[k + 1] <= at[n] BY <1>2, <1>6, <3>3, AscendsFar
    <3>7. /\ at[k] \in DOMAIN m
          /\ OperandWords(Op(p, k)) = 1 => at[k] + 1 \in DOMAIN m
      <4> DEFINE a == at[k]
                 b == at[k + 1]
                 e == at[n]
                 v == OperandWords(Op(p, k))
      <4>1. /\ a \in Nat /\ b \in Nat /\ e \in Nat
            /\ b = a + 1 + v /\ v \in 0 .. 1 /\ b <= e
        BY <3>4, <3>5, <3>6
      <4> HIDE DEF a, b, e, v
      <4>2. a \in 0 .. e - 1 /\ (v = 1 => a + 1 \in 0 .. e - 1) BY <4>1
      <4>3. DOMAIN m = 0 .. e - 1 BY <3>2 DEF e
      <4>4. QED BY <4>2, <4>3 DEF a, v
    <3>8. m2[at[k]] = m[at[k]] BY <2>1, <2>3, <3>7
    <3>9. CASE k = d
      <4>1. m2[at[k] + 1] = at[Arg(p, d)] BY <2>1, <2>3, <3>2, <3>9
      <4>2. OperandLaid(p, d, d + 1) = at[Arg(p, d)] BY <1>6, <1>8 DEF OperandLaid, at
      <4>3. QED BY <3>1, <3>8, <3>9, <4>1, <4>2 DEF Good
    <3>10. CASE k # d
      <4>1. OperandWords(Op(p, k)) = 1 => m2[at[k] + 1] = m[at[k] + 1]
        BY <2>1, <2>3, <3>7, <3>10
      <4>2. OperandLaid(p, k, d + 1) = OperandLaid(p, k, d) BY <1>5, <3>10
      <4>3. QED BY <3>1, <3>8, <4>1, <4>2 DEF Good
    <3>11. QED BY <3>9, <3>10
  <2>5. m2 = [y \in 0 .. at[n] - 1 |-> m2[y]] BY <1>3, <2>1
  <2>6. QED BY <2>4, <2>5 DEF Laid, at, n, Good
<1>9. QED BY <1>7, <1>8

-----------------------------------------------------------------------------
(* L and T bring their own instances of QvmImage, with the same constants. *)

LEMMA LoaderReads ==
  /\ L!CondBranch = CondBranch /\ L!HasI4Operand = HasI4Operand
  /\ \A op : L!OperandWords(op) = OperandWords(op) /\ L!OperandBytes(op) = OperandBytes(op)
  /\ \A c : L!OpcodeNumbered(c) = OpcodeNumbered(c)
  /\ \A m, a : L!FetchWord(m, a) = FetchWord(m, a)
  /\ \A f : (L!HeaderOk(f) <=> HeaderOk(f)) /\ L!FromCode(f) = FromCode(f)
  /\ \A h : L!RoundedData(h) = RoundedData(h)
<1>1. L!CondBranch = CondBranch
  BY DEF L!CondBranch, CondBranch, L!IntBranch, IntBranch, L!FloatBranch, FloatBranch
<1>2. L!HasI4Operand = HasI4Operand BY <1>1 DEF L!HasI4Operand, HasI4Operand
<1>3. \A op : L!OperandWords(op) = OperandWords(op) /\ L!OperandBytes(op) = OperandBytes(op)
  BY <1>2 DEF L!OperandWords, OperandWords, L!OperandBytes, OperandBytes,
              L!HasOperand, HasOperand
<1>4. \A c : L!OpcodeNumbered(c) = OpcodeNumbered(c)
  BY Zenon DEF L!OpcodeNumbered, OpcodeNumbered, L!OP_MAX, OP_MAX, L!OpcodeTable, OpcodeTable
<1>5. L!WordBits = WordBits /\ L!WordMod = WordMod /\ L!HalfMod = HalfMod /\ L!ByteMod = ByteMod
  BY Zenon DEF L!WordBits, WordBits, L!WordMod, WordMod, L!HalfMod, HalfMod, L!ByteMod, ByteMod
<1>6. \A x : L!Signed(x) = Signed(x) BY <1>5, Zenon DEF L!Signed, Signed
<1>7. \A m, a : L!Fetch2(m, a) = Fetch2(m, a) BY <1>5, Zenon DEF L!Fetch2, Fetch2
<1>8. \A m, a : L!FetchWord(m, a) = FetchWord(m, a)
  BY <1>5, <1>6, <1>7, Zenon DEF L!FetchWord, FetchWord
<1>9. \A f : L!HeaderOk(f) <=> HeaderOk(f) BY <1>6, Zenon DEF L!HeaderOk, HeaderOk
<1>10. \A f : L!FromCode(f) = FromCode(f) BY Zenon DEF L!FromCode, FromCode
<1>11. \A h : L!RoundedData(h) = RoundedData(h)
  BY <1>5, Zenon DEF L!RoundedData, RoundedData
<1>12. QED BY <1>1, <1>2, <1>3, <1>4, <1>8, <1>9, <1>10, <1>11

LEMMA DecoderReads ==
  /\ T!CondBranch = CondBranch /\ T!HasI4Operand = HasI4Operand
  /\ \A op : T!OperandWords(op) = OperandWords(op) /\ T!OperandBytes(op) = OperandBytes(op)
  /\ \A c : T!OpcodeNumbered(c) = OpcodeNumbered(c)
  /\ \A m, a : T!FetchWord(m, a) = FetchWord(m, a)
  /\ \A f : (T!HeaderOk(f) <=> HeaderOk(f)) /\ T!FromCode(f) = FromCode(f)
  /\ \A h : T!RoundedData(h) = RoundedData(h)
<1>1. T!CondBranch = CondBranch
  BY DEF T!CondBranch, CondBranch, T!IntBranch, IntBranch, T!FloatBranch, FloatBranch
<1>2. T!HasI4Operand = HasI4Operand BY <1>1 DEF T!HasI4Operand, HasI4Operand
<1>3. \A op : T!OperandWords(op) = OperandWords(op) /\ T!OperandBytes(op) = OperandBytes(op)
  BY <1>2 DEF T!OperandWords, OperandWords, T!OperandBytes, OperandBytes,
              T!HasOperand, HasOperand
<1>4. \A c : T!OpcodeNumbered(c) = OpcodeNumbered(c)
  BY Zenon DEF T!OpcodeNumbered, OpcodeNumbered, T!OP_MAX, OP_MAX, T!OpcodeTable, OpcodeTable
<1>5. T!WordBits = WordBits /\ T!WordMod = WordMod /\ T!HalfMod = HalfMod /\ T!ByteMod = ByteMod
  BY Zenon DEF T!WordBits, WordBits, T!WordMod, WordMod, T!HalfMod, HalfMod, T!ByteMod, ByteMod
<1>6. \A x : T!Signed(x) = Signed(x) BY <1>5, Zenon DEF T!Signed, Signed
<1>7. \A m, a : T!Fetch2(m, a) = Fetch2(m, a) BY <1>5, Zenon DEF T!Fetch2, Fetch2
<1>8. \A m, a : T!FetchWord(m, a) = FetchWord(m, a)
  BY <1>5, <1>6, <1>7, Zenon DEF T!FetchWord, FetchWord
<1>9. \A f : T!HeaderOk(f) <=> HeaderOk(f) BY <1>6, Zenon DEF T!HeaderOk, HeaderOk
<1>10. \A f : T!FromCode(f) = FromCode(f) BY Zenon DEF T!FromCode, FromCode
<1>11. \A h : T!RoundedData(h) = RoundedData(h)
  BY <1>5, Zenon DEF T!RoundedData, RoundedData
<1>12. QED BY <1>1, <1>2, <1>3, <1>4, <1>8, <1>9, <1>10, <1>11

-----------------------------------------------------------------------------
(* The loader.                                                             *)

LEMMA HeaderFacts ==
  ASSUME NEW f \in File, HeaderOk(f)
  PROVE  /\ CountOf(f) \in Nat \ {0} /\ f.header.codeLength \in Nat \ {0}
         /\ f.header.codeOffset \in Nat /\ Len(f.bytes) \in Nat
         /\ f.header.dataOffset \in Nat /\ f.header.dataLength \in Nat
         /\ f.header.litLength \in Nat /\ f.header.bssLength \in Nat
<1>1. f.header \in Header /\ f.bytes \in Seq(Byte) BY DEF File
<1>2. /\ f.header.instructionCount \in Int /\ f.header.codeLength \in Int
      /\ f.header.codeOffset \in Int /\ f.header.dataOffset \in Int
      /\ f.header.dataLength \in Int /\ f.header.litLength \in Int
      /\ f.header.bssLength \in Int
  BY <1>1 DEF Header, Word
<1>3. Len(f.bytes) \in Nat BY <1>1
<1>4. /\ f.header.bssLength >= 0 /\ f.header.dataLength >= 0 /\ f.header.litLength >= 0
      /\ f.header.codeLength > 0 /\ f.header.codeOffset >= 0 /\ f.header.dataOffset >= 0
      /\ f.header.instructionCount > 0
  BY Zenon DEF HeaderOk
<1>5. QED BY <1>2, <1>3, <1>4 DEF CountOf

LEMMA InitLoadingInv == Init => LoadingInv
<1> SUFFICES ASSUME Init PROVE LoadingInv OBVIOUS
<1>1. file \in Files /\ file \in File BY FilesAssumption DEF Init
<1>2. /\ phase = "create" /\ codeBase = <<>> /\ pointers = <<>>
      /\ bytePc = 0 /\ intPc = 0 /\ insn = 0
      /\ pass = "header" /\ insns = <<>> /\ pc = 0
  BY DEF Init, L!LoaderInit, T!ExpandInit
<1>3. LoaderInv BY <1>2 DEF LoaderInv, Live
<1>4. StopInv BY <1>2 DEF StopInv
<1>5. DecoderInv BY <1>2 DEF DecoderInv
<1>6. DataInv BY <1>2 DEF DataInv, Live
<1>7. QED BY <1>1, <1>3, <1>4, <1>5, <1>6 DEF LoadingInv

\* The loader runs first, so its steps find the decoder at its beginning.
LEMMA LoaderFirst ==
  ASSUME LoadingInv, L!LoaderNext, UNCHANGED expandVars
  PROVE  /\ ~ L!Stopped /\ file' = file /\ DecoderInv'
         /\ pass' = "header"
<1>1. ~ L!Stopped /\ file' = file
  BY DEF L!LoaderNext, L!BadHeader, L!OutOfMemory, L!VM_LoadQVM, L!AllocPointers, L!AllocCode,
         L!ExpandInsn, L!RejectInsn, L!ExpandWild, L!EndExpand, L!TranslateInsn, L!RejectTarget,
         L!TargetWild, L!EndTranslate, L!Stopped, L!Expanding, L!Translating, L!Stop
<1>2. pass = "header" BY <1>1 DEF LoadingInv, DecoderInv
<1>3. pass' = "header" /\ insns' = insns /\ pc' = pc BY <1>2 DEF expandVars
<1>4. DecoderInv' BY <1>2, <1>3 DEF LoadingInv, DecoderInv
<1>5. QED BY <1>1, <1>3, <1>4

\* What the loader works with, spelled out.
LEMMA LoaderState ==
  ASSUME LoadingInv, Live
  PROVE  /\ file \in File /\ HeaderOk(file) /\ CountOf(file) \in Nat \ {0}
         /\ Len(ProgramOf(file)) = CountOf(file)
         /\ insn \in 0 .. CountOf(file) /\ insn \in Nat
         /\ WordsBefore(ProgramOf(file)) = WordPos(file)
<1>1. file \in File /\ HeaderOk(file) BY DEF LoadingInv, LoaderInv
<1>2. CountOf(file) \in Nat \ {0} BY <1>1, HeaderFacts
<1>3. Len(ProgramOf(file)) = CountOf(file) BY <1>2, FileFacts
<1>4. insn \in 0 .. CountOf(file) BY DEF LoadingInv, LoaderInv
<1>5. QED BY <1>1, <1>2, <1>3, <1>4 DEF WordPos

LEMMA StopKeeps ==
  ASSUME LoadingInv, L!LoaderNext, UNCHANGED expandVars,
         phase' \in {"error", "nomemory", "undefined"}, StopInv'
  PROVE  LoadingInv'
<1>1. file' = file /\ pass' = "header" /\ DecoderInv' BY LoaderFirst
<1>2. LoaderInv' BY DEF LoaderInv, Live
<1>3. DataInv' BY <1>1 DEF DataInv, Live
<1>4. QED BY <1>1, <1>2, <1>3 DEF LoadingInv

LEMMA LoadKeeps ==
  ASSUME LoadingInv, L!VM_LoadQVM, UNCHANGED expandVars PROVE LoadingInv'
<1>1. file' = file /\ pass' = "header" /\ DecoderInv' BY LoaderFirst DEF L!LoaderNext
<1>2. /\ phase = "create" /\ phase' = "pointers" /\ HeaderOk(file)
      /\ UNCHANGED <<codeBase, pointers, bytePc, intPc, insn>>
      /\ dataBase' = Loaded(file)
  <2>1. /\ phase = "create" /\ phase' = "pointers" /\ L!HeaderOk(file)
        /\ UNCHANGED <<codeBase, pointers, bytePc, intPc, insn>>
    BY Zenon DEF L!VM_LoadQVM
  <2>2. dataBase' = [a \in 0 .. L!RoundedData(file.header) + 3 |->
                       IF a < file.header.dataLength + file.header.litLength
                       THEN file.bytes[file.header.dataOffset + a + 1] ELSE 0]
    BY Zenon DEF L!VM_LoadQVM
  <2>3. L!RoundedData(file.header) = RoundedData(file.header) BY LoaderReads
  <2>4. dataBase' = Loaded(file) BY <2>2, <2>3, Zenon DEF Loaded
  <2>5. QED BY <2>1, <2>4, LoaderReads
<1>3. codeBase = <<>> /\ pointers = <<>> /\ bytePc = 0 /\ intPc = 0 /\ insn = 0
  BY <1>2 DEF LoadingInv, LoaderInv
<1>4. CountOf(file) \in Nat \ {0} BY <1>2, HeaderFacts DEF LoadingInv
<1>5. BytePos(file)[0] = 0 /\ WordPos(file)[0] = 0 BY <1>4, FileFacts
<1>6. Laid(<<>>, ProgramOf(file), 0, 0)
  <2>1. <<>> = [x \in 0 .. 0 - 1 |-> <<>>[x]] OBVIOUS
  <2>2. QED BY <1>5, <2>1 DEF Laid, WordPos
<1>7. <<>> = [k \in 0 .. 0 - 1 |-> WordPos(file)[k]] OBVIOUS
<1>8. LoaderInv'
  <2>1. Expansions' = 0 /\ Translations' = 0 BY <1>2, <1>3 DEF Expansions, Translations
  <2>2. 0 \in 0 .. CountOf(file) BY <1>4
  <2>3. QED
    BY <1>1, <1>2, <1>3, <1>5, <1>6, <1>7, <2>1, <2>2 DEF LoaderInv
<1>9. StopInv' BY <1>2 DEF StopInv
<1>10. DataInv' BY <1>1, <1>2 DEF DataInv
<1>11. QED BY <1>1, <1>8, <1>9, <1>10 DEF LoadingInv

\* Allocations and the ends of the two loops.
LEMMA AllocKeeps ==
  ASSUME LoadingInv, L!AllocPointers \/ L!AllocCode, UNCHANGED expandVars
  PROVE  LoadingInv'
<1>1. file' = file /\ pass' = "header" /\ DecoderInv' BY LoaderFirst DEF L!LoaderNext
<1>2. /\ phase \in {"pointers", "code"} /\ phase' \in {"code", "expand"}
      /\ UNCHANGED <<dataBase, codeBase, pointers, bytePc, intPc, insn>>
  BY DEF L!AllocPointers, L!AllocCode
<1>3. /\ Expansions' = Expansions /\ Translations' = Translations
      /\ Live /\ Live'
  BY <1>2 DEF Expansions, Translations, Live
<1>4. LoaderInv' BY <1>1, <1>2, <1>3 DEF LoadingInv, LoaderInv
<1>5. StopInv' BY <1>2 DEF StopInv
<1>6. DataInv' BY <1>1, <1>2, <1>3 DEF LoadingInv, DataInv
<1>7. QED BY <1>1, <1>4, <1>5, <1>6 DEF LoadingInv

LEMMA EndExpandKeeps ==
  ASSUME LoadingInv, L!EndExpand, UNCHANGED expandVars PROVE LoadingInv'
<1>1. file' = file /\ pass' = "header" /\ DecoderInv' BY LoaderFirst DEF L!LoaderNext
<1>2. /\ phase = "expand" /\ phase' = "translate" /\ insn = CountOf(file)
      /\ intPc' = 0 /\ insn' = 0
      /\ UNCHANGED <<dataBase, codeBase, pointers, bytePc>>
  BY DEF L!EndExpand, L!Count, CountOf
<1>3. /\ Expansions = CountOf(file) /\ Expansions' = CountOf(file)
      /\ Translations = 0 /\ Translations' = 0 /\ Live /\ Live'
  BY <1>1, <1>2 DEF Expansions, Translations, Live
<1>4. CountOf(file) \in Nat \ {0} /\ WordPos(file)[0] = 0 BY <1>3, LoaderState, FileFacts
<1>5. LoaderInv' BY <1>1, <1>2, <1>3, <1>4 DEF LoadingInv, LoaderInv
<1>6. StopInv' BY <1>2 DEF StopInv
<1>7. DataInv' BY <1>1, <1>2, <1>3 DEF LoadingInv, DataInv
<1>8. QED BY <1>1, <1>5, <1>6, <1>7 DEF LoadingInv

LEMMA EndTranslateKeeps ==
  ASSUME LoadingInv, L!EndTranslate, UNCHANGED expandVars PROVE LoadingInv'
<1>1. file' = file /\ pass' = "header" /\ DecoderInv' BY LoaderFirst DEF L!LoaderNext
<1>2. /\ phase = "translate" /\ phase' = "ready" /\ insn = CountOf(file)
      /\ UNCHANGED <<dataBase, codeBase, pointers, bytePc, intPc, insn>>
  BY DEF L!EndTranslate, L!Stop, L!Count, CountOf
<1>3. /\ Expansions = CountOf(file) /\ Expansions' = CountOf(file)
      /\ Translations = CountOf(file) /\ Translations' = CountOf(file) /\ Live /\ Live'
  BY <1>1, <1>2 DEF Expansions, Translations, Live
<1>4. LoaderInv' BY <1>1, <1>2, <1>3 DEF LoadingInv, LoaderInv
<1>5. StopInv' BY <1>2 DEF StopInv
<1>6. DataInv' BY <1>1, <1>2, <1>3 DEF LoadingInv, DataInv
<1>7. QED BY <1>1, <1>4, <1>5, <1>6 DEF LoadingInv

-----------------------------------------------------------------------------
(* The loop that expands the code.                                         *)

LEMMA Expanding ==
  ASSUME LoadingInv, L!Expanding
  PROVE  /\ phase = "expand" /\ insn \in Insns(file) /\ insn \in Indices(ProgramOf(file))
         /\ Expansions = insn /\ Translations = 0
         /\ bytePc = BytePos(file)[insn] /\ intPc = WordPos(file)[insn]
         /\ bytePc \in Nat /\ intPc \in Nat
         /\ L!Code = CodeOf(file) /\ L!Allocated = Room(file)
         /\ L!Number = CodeOf(file)[BytePos(file)[insn]]
         /\ L!Opcode = OpcodeNumbered(L!Number) /\ L!Opcode = Op(ProgramOf(file), insn)
         /\ OperandWords(L!Opcode) = 1 => L!Operand = Arg(ProgramOf(file), insn)
         /\ Laid(codeBase, ProgramOf(file), insn, 0)
         /\ pointers = [k \in 0 .. insn - 1 |-> WordPos(file)[k]]
         /\ \A k \in 0 .. insn - 1 : Inside(file, k) /\ Passes(file, k)
<1>1. phase = "expand" /\ insn < CountOf(file) BY DEF L!Expanding, L!Count, CountOf
<1>2. Live BY <1>1 DEF Live
<1>3. insn \in Insns(file) /\ insn \in Indices(ProgramOf(file))
  BY <1>1, <1>2, LoaderState DEF Insns
<1>4. Expansions = insn /\ Translations = 0 BY <1>1 DEF Expansions, Translations
<1>5. /\ bytePc = BytePos(file)[insn] /\ intPc = WordPos(file)[insn]
      /\ Laid(codeBase, ProgramOf(file), insn, 0)
      /\ pointers = [k \in 0 .. insn - 1 |-> WordPos(file)[k]]
      /\ \A k \in 0 .. insn - 1 : Inside(file, k) /\ Passes(file, k)
  BY <1>2, <1>4 DEF LoadingInv, LoaderInv
<1>6. insn \in 0 .. CountOf(file) BY <1>2, LoaderState
<1>7. bytePc \in Nat /\ intPc \in Nat BY <1>2, <1>5, <1>6, LoaderState, FileFacts
<1>8. L!Code = CodeOf(file) BY LoaderReads DEF L!Code, CodeOf
<1>9. L!Number = CodeOf(file)[BytePos(file)[insn]] BY <1>5, <1>8 DEF L!Number
<1>10. /\ Op(ProgramOf(file), insn) = OpcodeNumbered(CodeOf(file)[BytePos(file)[insn]])
       /\ Arg(ProgramOf(file), insn) = OperandAt(CodeOf(file), BytePos(file)[insn])
  BY <1>2, <1>3, LoaderState, FileFacts
<1>11. L!Opcode = OpcodeNumbered(L!Number) /\ L!Opcode = Op(ProgramOf(file), insn)
  BY <1>9, <1>10, LoaderReads DEF L!Opcode
<1>12. OperandWords(L!Opcode) = 1 => L!Operand = Arg(ProgramOf(file), insn)
  <2>1. "ARG" \notin HasI4Operand BY DEF HasI4Operand, CondBranch, IntBranch, FloatBranch
  <2>2. OperandWords(L!Opcode) = 1 => L!Opcode \in HasI4Operand \/ L!Opcode = "ARG"
    BY DEF OperandWords, HasOperand
  <2>3. Arg(ProgramOf(file), insn) =
          IF L!Opcode \in HasI4Operand THEN FetchWord(CodeOf(file), bytePc + 1)
          ELSE IF L!Opcode = "ARG" THEN CodeOf(file)[bytePc + 1] ELSE 0
    BY <1>5, <1>10, <1>11 DEF OperandAt
  <2>4. L!Operand = IF L!Opcode = "ARG" THEN CodeOf(file)[bytePc + 1]
                    ELSE FetchWord(CodeOf(file), bytePc + 1)
    BY <1>8, LoaderReads DEF L!Operand
  <2>5. QED BY <2>1, <2>2, <2>3, <2>4
<1>13. L!Allocated = Room(file) BY DEF L!Allocated, Room
<1>14. QED BY <1>1, <1>3, <1>4, <1>5, <1>7, <1>8, <1>9, <1>11, <1>12, <1>13

\* The checks of one iteration, as conditions on the file.
LEMMA ExpandingChecks ==
  ASSUME LoadingInv, L!Expanding
  PROVE  /\ L!OpcodeInside /\ L!OperandInside <=> Inside(file, insn)
         /\ ~ L!PastEnd /\ L!Opcode # "BAD" <=> Passes(file, insn)
<1>1. /\ bytePc = BytePos(file)[insn] /\ intPc = WordPos(file)[insn]
      /\ L!Code = CodeOf(file) /\ L!Allocated = Room(file)
      /\ L!Opcode = Op(ProgramOf(file), insn)
      /\ bytePc \in Nat
  BY Expanding
<1>2. L!OpcodeInside /\ L!OperandInside <=> Inside(file, insn)
  BY <1>1, LoaderReads DEF L!OpcodeInside, L!OperandInside, Inside
<1>3. Live BY Expanding DEF Live
<1>4. file.header.codeLength \in Nat BY <1>3, LoaderState, HeaderFacts
<1>5. L!PastEnd <=> ~ (BytePos(file)[insn] <= file.header.codeLength)
  BY <1>1, <1>4 DEF L!PastEnd
<1>6. QED BY <1>1, <1>2, <1>5 DEF Passes

LEMMA ExpandKeeps ==
  ASSUME LoadingInv, L!ExpandInsn, UNCHANGED expandVars PROVE LoadingInv'
<1> DEFINE p == ProgramOf(file)
<1>1. file' = file /\ pass' = "header" /\ DecoderInv' BY LoaderFirst DEF L!LoaderNext
<1>2. /\ L!Expanding /\ L!OpcodeInside /\ ~ L!PastEnd /\ L!Opcode # "BAD" /\ L!OperandInside
      /\ phase' = phase /\ dataBase' = dataBase
      /\ pointers' = [k \in 0 .. insn |-> IF k = insn THEN intPc ELSE pointers[k]]
      /\ bytePc' = bytePc + 1 + OperandBytes(L!Opcode)
      /\ insn' = insn + 1
  BY LoaderReads DEF L!ExpandInsn
<1>3. /\ phase = "expand" /\ insn \in Insns(file) /\ insn \in Indices(p)
      /\ bytePc = BytePos(file)[insn] /\ intPc = WordPos(file)[insn]
      /\ L!Opcode = OpcodeNumbered(L!Number) /\ L!Opcode = Op(p, insn)
      /\ OperandWords(L!Opcode) = 1 => L!Operand = Arg(p, insn)
      /\ Laid(codeBase, p, insn, 0)
      /\ pointers = [k \in 0 .. insn - 1 |-> WordPos(file)[k]]
      /\ \A k \in 0 .. insn - 1 : Inside(file, k) /\ Passes(file, k)
  BY <1>2, Expanding
<1>4. Live /\ Live' BY <1>2, <1>3 DEF Live
<1>5. /\ file \in File /\ HeaderOk(file) /\ CountOf(file) \in Nat \ {0}
      /\ Len(p) = CountOf(file) /\ insn \in Nat /\ WordsBefore(p) = WordPos(file)
  BY <1>4, LoaderState
<1> DEFINE ws == IF OperandWords(L!Opcode) = 1 THEN <<L!Number, L!Operand>> ELSE <<L!Number>>
<1>6. codeBase' = Grown(codeBase, intPc, ws) /\ intPc' = intPc + Len(ws)
  <2>1. L!OperandWords(L!Opcode) = OperandWords(L!Opcode) BY LoaderReads
  <2>2. QED BY <2>1, Zenon DEF L!ExpandInsn, ws, Grown
<1>7. L!Number \in 0 .. OP_MAX - 1 BY <1>2, <1>3, NumbersDiffer
<1>8. ws = WordsOf(p, insn, L!Number) BY <1>3 DEF WordsOf
<1> HIDE DEF ws, p
<1>9. Laid(codeBase', p, insn + 1, 0) /\ intPc' = WordPos(file)[insn + 1]
  <2>1. intPc = WordsBefore(p)[insn] /\ Len(p) \in Nat BY <1>3, <1>5
  <2>2. OpcodeNumbered(L!Number) = Op(p, insn) BY <1>3
  <2>3. Laid(codeBase', p, insn + 1, 0) /\ intPc + Len(ws) = WordsBefore(p)[insn + 1]
    <3>1. insn \in Indices(p) /\ Laid(codeBase, p, insn, 0) BY <1>3
    <3>2. codeBase' = Grown(codeBase, intPc, ws) BY <1>6
    <3>3. QED BY <1>7, <1>8, <2>1, <2>2, <3>1, <3>2, LaidGrows
  <2>4. QED BY <1>5, <1>6, <2>3
<1>10. pointers' = [k \in 0 .. (insn + 1) - 1 |-> WordPos(file)[k]]
  <2>1. (insn + 1) - 1 = insn /\ \A k \in 0 .. insn : k # insn => k \in 0 .. insn - 1
    BY <1>5
  <2>2. \A k \in 0 .. insn : (IF k = insn THEN intPc ELSE pointers[k]) = WordPos(file)[k]
    BY <1>3, <2>1
  <2>3. QED BY <1>2, <2>1, <2>2
<1>11. bytePc' = BytePos(file)[insn + 1]
  BY <1>2, <1>3, <1>5, FileFacts DEF p
<1>12. \A k \in 0 .. (insn + 1) - 1 : Inside(file, k) /\ Passes(file, k)
  <2>1. Inside(file, insn) /\ Passes(file, insn) BY <1>2, ExpandingChecks
  <2>2. \A k \in 0 .. (insn + 1) - 1 : k = insn \/ k \in 0 .. insn - 1 BY <1>5
  <2>3. QED BY <1>3, <2>1, <2>2
<1>13. /\ Expansions' = insn + 1 /\ Translations' = 0 /\ insn' \in 0 .. CountOf(file)
  BY <1>1, <1>2, <1>3, <1>5 DEF Expansions, Translations, Insns
<1>14. LoaderInv'
  BY <1>1, <1>2, <1>3, <1>5, <1>9, <1>10, <1>11, <1>12, <1>13 DEF LoaderInv, p
<1>15. StopInv' BY <1>2, <1>3 DEF StopInv
<1>16. DataInv' BY <1>1, <1>2, <1>4 DEF LoadingInv, DataInv
<1>17. QED BY <1>1, <1>14, <1>15, <1>16 DEF LoadingInv

-----------------------------------------------------------------------------
(* The loop that translates branch targets.                                *)

LEMMA Translating ==
  ASSUME LoadingInv, L!Translating
  PROVE  /\ phase = "translate" /\ insn \in Insns(file) /\ insn \in Indices(ProgramOf(file))
         /\ Expansions = CountOf(file) /\ Translations = insn
         /\ intPc = WordPos(file)[insn]
         /\ L!WordOpcode = Op(ProgramOf(file), insn)
         /\ Branches(file, insn) => L!Target = Target(file, insn)
         /\ Laid(codeBase, ProgramOf(file), CountOf(file), insn)
         /\ pointers = [k \in Insns(file) |-> WordPos(file)[k]]
         /\ \A k \in 0 .. insn - 1 : Branches(file, k) => Target(file, k) \in Insns(file)
<1> DEFINE p == ProgramOf(file)
<1>1. phase = "translate" /\ insn < CountOf(file) BY DEF L!Translating, L!Count, CountOf
<1>2. Live BY <1>1 DEF Live
<1>3. insn \in Insns(file) /\ insn \in Indices(p)
  BY <1>1, <1>2, LoaderState DEF Insns
<1>4. Expansions = CountOf(file) /\ Translations = insn
  BY <1>1 DEF Expansions, Translations
<1>5. /\ intPc = WordPos(file)[insn]
      /\ Laid(codeBase, p, CountOf(file), insn)
      /\ pointers = [k \in Insns(file) |-> WordPos(file)[k]]
      /\ \A k \in 0 .. insn - 1 : Branches(file, k) => Target(file, k) \in Insns(file)
  BY <1>2, <1>4 DEF LoadingInv, LoaderInv, Insns
<1>6. /\ OpcodeNumbered(codeBase[intPc]) = Op(p, insn)
      /\ OperandWords(Op(p, insn)) = 1 => codeBase[intPc + 1] = OperandLaid(p, insn, insn)
  <2>1. WordsBefore(p) = WordPos(file) BY <1>2, LoaderState
  <2>2. insn \in 0 .. CountOf(file) - 1 BY <1>3 DEF Insns
  <2>3. QED BY <1>5, <2>1, <2>2 DEF Laid
<1>7. OperandLaid(p, insn, insn) = Arg(p, insn)
  <2>1. ~ (insn < insn) BY <1>2, LoaderState
  <2>2. QED BY <2>1 DEF OperandLaid
<1>8. L!WordOpcode = Op(p, insn) BY <1>6, LoaderReads DEF L!WordOpcode
<1>9. Branches(file, insn) => L!Target = Target(file, insn)
  BY <1>6, <1>7, OperandSizes DEF Branches, Target, L!Target
<1>10. QED BY <1>1, <1>3, <1>4, <1>5, <1>8, <1>9

LEMMA TranslateKeeps ==
  ASSUME LoadingInv, L!TranslateInsn, UNCHANGED expandVars PROVE LoadingInv'
<1> DEFINE p == ProgramOf(file)
<1>1. file' = file /\ pass' = "header" /\ DecoderInv' BY LoaderFirst DEF L!LoaderNext
<1>2. /\ L!Translating /\ phase' = phase /\ dataBase' = dataBase
      /\ pointers' = pointers /\ bytePc' = bytePc
      /\ intPc' = intPc + 1 + OperandWords(L!WordOpcode)
      /\ insn' = insn + 1
      /\ \/ /\ L!WordOpcode \in CondBranch /\ L!Target \in 0 .. L!Count - 1
            /\ codeBase' = [codeBase EXCEPT ![intPc + 1] = pointers[L!Target]]
         \/ L!WordOpcode \notin CondBranch /\ codeBase' = codeBase
  BY LoaderReads DEF L!TranslateInsn, L!Translated
<1>3. /\ phase = "translate" /\ insn \in Insns(file) /\ insn \in Indices(p)
      /\ Expansions = CountOf(file)
      /\ intPc = WordPos(file)[insn]
      /\ L!WordOpcode = Op(p, insn)
      /\ Branches(file, insn) => L!Target = Target(file, insn)
      /\ Laid(codeBase, p, CountOf(file), insn)
      /\ pointers = [k \in Insns(file) |-> WordPos(file)[k]]
      /\ \A k \in 0 .. insn - 1 : Branches(file, k) => Target(file, k) \in Insns(file)
  BY <1>2, Translating
<1>4. Live /\ Live' BY <1>2, <1>3 DEF Live
<1>5. /\ file \in File /\ HeaderOk(file) /\ CountOf(file) \in Nat \ {0}
      /\ Len(p) = CountOf(file) /\ insn \in Nat /\ WordsBefore(p) = WordPos(file)
  BY <1>4, LoaderState
<1>6. L!WordOpcode \in CondBranch => Arg(p, insn) \in Insns(file) /\ L!Target = Arg(p, insn)
  BY <1>2, <1>3 DEF Branches, Target, L!Count, CountOf, Insns
<1> HIDE DEF p
<1>7. \/ /\ Op(p, insn) \in CondBranch
         /\ codeBase' = [codeBase EXCEPT ![WordsBefore(p)[insn] + 1]
                                           = WordsBefore(p)[Arg(p, insn)]]
      \/ Op(p, insn) \notin CondBranch /\ codeBase' = codeBase
  <2>1. ASSUME L!WordOpcode \in CondBranch
        PROVE  pointers[L!Target] = WordsBefore(p)[Arg(p, insn)]
    BY <1>3, <1>5, <1>6, <2>1
  <2>2. QED BY <1>2, <1>3, <1>5, <2>1
<1>8. Laid(codeBase', p, CountOf(file), insn + 1)
  <2>1. Laid(codeBase, p, Len(p), insn) /\ Len(p) \in Nat BY <1>3, <1>5
  <2>2. Laid(codeBase', p, Len(p), insn + 1) BY <1>3, <1>7, <2>1, LaidTranslates
  <2>3. QED BY <1>5, <2>2
<1>9. intPc' = WordPos(file)[insn + 1] BY <1>2, <1>3, <1>5, FileFacts DEF p
<1>10. \A k \in 0 .. (insn + 1) - 1 : Branches(file, k) => Target(file, k) \in Insns(file)
  <2>1. Branches(file, insn) => Target(file, insn) \in Insns(file)
    BY <1>3, <1>6 DEF Branches, Target, p
  <2>2. \A k \in 0 .. (insn + 1) - 1 : k = insn \/ k \in 0 .. insn - 1 BY <1>5
  <2>3. QED BY <1>3, <2>1, <2>2
<1>11. /\ Expansions' = CountOf(file) /\ Translations' = insn + 1
       /\ insn' \in 0 .. CountOf(file)
  BY <1>1, <1>2, <1>3, <1>5 DEF Expansions, Translations, Insns
<1>12. LoaderInv'
  <2>1. /\ bytePc = BytePos(file)[CountOf(file)]
        /\ pointers = [k \in 0 .. CountOf(file) - 1 |-> WordPos(file)[k]]
        /\ \A k \in 0 .. CountOf(file) - 1 : Inside(file, k) /\ Passes(file, k)
    BY <1>3, <1>4 DEF LoadingInv, LoaderInv
  <2>2. QED
    BY <1>1, <1>2, <1>3, <1>5, <1>8, <1>9, <1>10, <1>11, <2>1 DEF LoaderInv, p
<1>13. StopInv' BY <1>2, <1>3 DEF StopInv
<1>14. DataInv' BY <1>1, <1>2, <1>4 DEF LoadingInv, DataInv
<1>15. QED BY <1>1, <1>12, <1>13, <1>14 DEF LoadingInv

-----------------------------------------------------------------------------
(* Where the loader stops.                                                 *)

LEMMA StopsKeep ==
  ASSUME LoadingInv, UNCHANGED expandVars,
         \/ L!BadHeader \/ L!OutOfMemory \/ L!RejectInsn \/ L!ExpandWild
         \/ L!RejectTarget \/ L!TargetWild
  PROVE  LoadingInv'
<1>1. L!LoaderNext BY DEF L!LoaderNext
<1>2. file' = file BY <1>1, LoaderFirst
<1>3. CASE L!BadHeader
  <2>1. phase' = "error" /\ ~ HeaderOk(file) BY <1>3, LoaderReads DEF L!BadHeader, L!Stop
  <2>2. StopInv' BY <1>2, <2>1 DEF StopInv
  <2>3. QED BY <1>1, <2>1, <2>2, StopKeeps
<1>4. CASE L!OutOfMemory
  <2>1. phase' = "nomemory" BY <1>4 DEF L!OutOfMemory, L!Stop
  <2>2. StopInv' BY <2>1 DEF StopInv
  <2>3. QED BY <1>1, <2>1, <2>2, StopKeeps
<1>5. CASE L!RejectInsn
  <2>1. /\ phase' = "error" /\ L!Expanding
        /\ L!PastEnd \/ L!Opcode = "BAD"
    BY <1>5 DEF L!RejectInsn, L!Stop
  <2>2. insn \in Insns(file) /\ ~ Passes(file, insn) BY <2>1, Expanding, ExpandingChecks
  <2>3. StopInv' BY <1>2, <2>1, <2>2 DEF StopInv
  <2>4. QED BY <1>1, <2>1, <2>3, StopKeeps
<1>6. CASE L!ExpandWild
  <2>1. /\ phase' = "undefined" /\ L!Expanding
        /\ ~ (L!OpcodeInside /\ L!OperandInside)
    BY <1>6 DEF L!ExpandWild, L!Stop
  <2>2. insn \in Insns(file) /\ ~ Inside(file, insn) BY <2>1, Expanding, ExpandingChecks
  <2>3. StopInv' BY <1>2, <2>1, <2>2 DEF StopInv
  <2>4. QED BY <1>1, <2>1, <2>3, StopKeeps
<1>7. CASE L!RejectTarget \/ L!TargetWild
  <2>1. /\ phase' \in {"error", "undefined"} /\ L!Translating
        /\ L!WordOpcode \in CondBranch
        /\ L!Target \notin 0 .. L!Count \/ L!Target = L!Count
    BY <1>7, LoaderReads DEF L!RejectTarget, L!TargetWild, L!Stop
  <2>2. /\ insn \in Insns(file) /\ Branches(file, insn) /\ Target(file, insn) = L!Target
    BY <2>1, Translating DEF Branches
  <2>3. L!Count = CountOf(file) /\ L!Target \notin 0 .. CountOf(file) - 1
    <3>1. phase = "translate" BY <2>1 DEF L!Translating
    <3>2. CountOf(file) \in Nat BY <3>1, LoaderState DEF Live
    <3>3. QED BY <2>1, <3>2 DEF L!Count, CountOf
  <2>4. Target(file, insn) \notin Insns(file) BY <2>2, <2>3 DEF Insns
  <2>5. StopInv' BY <1>2, <2>1, <2>2, <2>4 DEF StopInv
  <2>6. QED BY <1>1, <2>1, <2>5, StopKeeps
<1>8. QED BY <1>3, <1>4, <1>5, <1>6, <1>7

-----------------------------------------------------------------------------
(* The decoder of the translator.                                          *)

\* The loader has stopped; only the decoder's variables change.
LEMMA DecoderAlone ==
  ASSUME LoadingInv, DecodeStep
  PROVE  /\ L!Stopped /\ L!Stopped' /\ file' = file /\ LoaderInv' /\ StopInv'
         /\ (Live <=> Live') /\ dataBase' = dataBase
<1>1. file' = file
  BY DEF DecodeStep, T!ExpandNext, T!BadImage, T!ReadHeader, T!AllocInsns, T!NoMemory,
         T!DecodeInsn, T!RejectCode, T!EndDecode, T!Fail
<1>2. L!Stopped /\ UNCHANGED <<phase, dataBase, codeBase, pointers, bytePc, intPc, insn>>
  BY DEF DecodeStep, loaderVars
<1>3. /\ Expansions' = Expansions /\ Translations' = Translations /\ L!Stopped'
      /\ Live <=> Live'
  BY <1>1, <1>2 DEF Expansions, Translations, L!Stopped, Live
<1>4. LoaderInv' BY <1>1, <1>2, <1>3 DEF LoadingInv, LoaderInv
<1>5. StopInv' BY <1>1, <1>2 DEF LoadingInv, StopInv
<1>6. QED BY <1>1, <1>2, <1>3, <1>4, <1>5

\* What the decoder works with, spelled out.
LEMMA Decoding ==
  ASSUME LoadingInv, T!Decoding
  PROVE  /\ pass = "expand" /\ HeaderOk(file) /\ CountOf(file) \in Nat \ {0}
         /\ Len(insns) \in Insns(file) /\ Len(insns) \in Nat
         /\ Len(ProgramOf(file)) = CountOf(file)
         /\ insns = [k \in 1 .. Len(insns) |-> ProgramOf(file)[k]]
         /\ pc = BytePos(file)[Len(insns)] /\ pc \in Nat
         /\ T!Opcode = Op(ProgramOf(file), Len(insns))
         /\ ProgramOf(file)[Len(insns) + 1] = [op |-> T!Opcode, arg |-> T!Decoded]
         /\ \A k \in 0 .. Len(insns) - 1 : Readable(file, k)
         /\ T!Readable <=> Readable(file, Len(insns))
<1>1. pass = "expand" /\ Len(insns) < CountOf(file) BY DEF T!Decoding, CountOf
<1>2. /\ HeaderOk(file) /\ Len(insns) \in 0 .. CountOf(file)
      /\ insns = [k \in 1 .. Len(insns) |-> ProgramOf(file)[k]]
      /\ pc = BytePos(file)[Len(insns)]
      /\ \A k \in 0 .. Len(insns) - 1 : Readable(file, k)
  BY <1>1 DEF LoadingInv, DecoderInv
<1>3. file \in File /\ CountOf(file) \in Nat \ {0} BY <1>2, HeaderFacts DEF LoadingInv
<1>4. Len(insns) \in Insns(file) /\ Len(insns) \in Nat BY <1>1, <1>2, <1>3 DEF Insns
<1> DEFINE n == Len(insns)
           b == BytePos(file)[n]
<1>5. /\ Len(ProgramOf(file)) = CountOf(file)
      /\ ProgramOf(file)[n + 1] = InsnAt(CodeOf(file), b)
      /\ Op(ProgramOf(file), n) = OpcodeNumbered(CodeOf(file)[b])
      /\ BytePos(file)[n + 1] = b + 1 + OperandBytes(Op(ProgramOf(file), n))
      /\ b \in Nat
  BY <1>2, <1>3, <1>4, FileFacts
<1>6. T!Opcode = Op(ProgramOf(file), n)
  BY <1>2, <1>5, DecoderReads DEF T!Opcode, T!Code, CodeOf
<1>7. ProgramOf(file)[n + 1] = [op |-> T!Opcode, arg |-> T!Decoded]
  <2>1. /\ T!Code = CodeOf(file) /\ T!HasI4Operand = HasI4Operand
        /\ \A m, a : T!FetchWord(m, a) = FetchWord(m, a)
    BY DecoderReads DEF T!Code, CodeOf
  <2>2. OperandAt(CodeOf(file), b) = T!Decoded
    BY <1>2, <1>5, <1>6, <2>1 DEF OperandAt, T!Decoded
  <2>3. QED BY <1>5, <1>6, <2>2 DEF InsnAt
<1>8. T!Readable <=> Readable(file, n)
  <2>1. file.header.codeLength \in Nat BY <1>2, <1>3, HeaderFacts
  <2>2. OperandBytes(T!Opcode) \in 0 .. 4 BY OperandSizes
  <2>3. pc = b BY <1>2
  <2> HIDE DEF b, n
  <2>4. T!Readable <=>
          /\ ~ (b >= file.header.codeLength)
          /\ ~ (T!Opcode # "BAD" /\ b + 1 + OperandBytes(T!Opcode) > file.header.codeLength)
          /\ T!Opcode # "BAD"
    BY <2>3, DecoderReads DEF T!Readable, T!Truncated, T!Length
  <2>5. Readable(file, n) <=>
          /\ b < file.header.codeLength /\ T!Opcode # "BAD"
          /\ b + 1 + OperandBytes(T!Opcode) <= file.header.codeLength
    BY <1>5, <1>6 DEF Readable, b
  <2>6. b \in Nat BY <1>5
  <2>7. QED BY <2>1, <2>2, <2>4, <2>5, <2>6
<1>9. QED BY <1>1, <1>2, <1>3, <1>4, <1>5, <1>6, <1>7, <1>8

LEMMA DecodeKeeps ==
  ASSUME LoadingInv, DecodeStep PROVE LoadingInv'
<1>1. /\ L!Stopped /\ L!Stopped' /\ file' = file /\ LoaderInv' /\ StopInv'
      /\ (Live <=> Live') /\ dataBase' = dataBase
  BY DecoderAlone
<1>2. file \in Files /\ file \in File BY DEF LoadingInv
<1>3. SUFFICES DecoderInv' /\ DataInv' BY <1>1, <1>2 DEF LoadingInv
<1>4. CASE T!BadImage
  <2>1. pass' = "failed" /\ ~ HeaderOk(file) BY <1>4, DecoderReads DEF T!BadImage, T!Fail
  <2>2. QED BY <1>1, <2>1 DEF LoadingInv, DecoderInv, DataInv
<1>5. CASE T!ReadHeader
  <2>1. /\ pass = "header" /\ HeaderOk(file) /\ pass' = "alloc"
        /\ pc' = pc /\ insns' = insns
        /\ totalMem' = IF RoundedData(file.header) < ProgramStack THEN ProgramStack
                       ELSE RoundedData(file.header)
    BY <1>5, DecoderReads DEF T!ReadHeader
  <2>2. insns = <<>> /\ pc = 0 BY <2>1 DEF LoadingInv, DecoderInv
  <2>3. CountOf(file) \in Nat \ {0} BY <1>2, <2>1, HeaderFacts
  <2>4. BytePos(file)[0] = 0 BY <2>3, FileFacts
  <2>5. Len(<<>>) = 0 /\ <<>> = [k \in 1 .. 0 |-> ProgramOf(file)[k]] OBVIOUS
  <2>6. DecoderInv' BY <1>1, <2>1, <2>2, <2>3, <2>4, <2>5 DEF DecoderInv
  <2>7. DataInv' BY <1>1, <2>1 DEF LoadingInv, DataInv
  <2>8. QED BY <2>6, <2>7
<1>6. CASE T!AllocInsns
  <2>1. /\ pass = "alloc" /\ pass' = "expand"
        /\ pc' = pc /\ insns' = insns /\ totalMem' = totalMem
    BY <1>6 DEF T!AllocInsns
  <2>2. QED BY <1>1, <2>1 DEF LoadingInv, DecoderInv, DataInv
<1>7. CASE T!NoMemory
  <2>1. pass' = "nomemory" BY <1>7 DEF T!NoMemory, T!Fail
  <2>2. QED BY <1>1, <2>1 DEF LoadingInv, DecoderInv, DataInv
<1>8. CASE T!DecodeInsn
  <2> DEFINE n == Len(insns)
  <2>1. /\ T!Decoding /\ T!Readable /\ pass' = pass /\ totalMem' = totalMem
        /\ insns' = Append(insns, [op |-> T!Opcode, arg |-> T!Decoded])
        /\ pc' = pc + 1 + OperandBytes(T!Opcode)
    BY <1>8, DecoderReads DEF T!DecodeInsn
  <2>2. /\ pass = "expand" /\ HeaderOk(file) /\ CountOf(file) \in Nat \ {0}
        /\ n \in Insns(file) /\ n \in Nat
        /\ insns = [k \in 1 .. n |-> ProgramOf(file)[k]]
        /\ pc = BytePos(file)[n] /\ pc \in Nat
        /\ T!Opcode = Op(ProgramOf(file), n)
        /\ ProgramOf(file)[n + 1] = [op |-> T!Opcode, arg |-> T!Decoded]
        /\ \A k \in 0 .. n - 1 : Readable(file, k)
        /\ Readable(file, n)
    BY <2>1, Decoding
  <2>3. insns' = [k \in 1 .. n + 1 |-> ProgramOf(file)[k]] /\ Len(insns') = n + 1
    BY <2>1, <2>2
  <2>4. pc' = BytePos(file)[n + 1] BY <2>1, <2>2, FileFacts
  <2>5. \A k \in 0 .. (n + 1) - 1 : Readable(file, k)
    <3>1. \A k \in 0 .. (n + 1) - 1 : k = n \/ k \in 0 .. n - 1
      <4>1. n \in Nat BY <2>2
      <4> HIDE DEF n
      <4>2. QED BY <4>1
    <3>2. QED BY <2>2, <3>1
  <2>6. n + 1 \in 0 .. CountOf(file) BY <2>2 DEF Insns
  <2>7. DecoderInv' BY <1>1, <2>1, <2>2, <2>3, <2>4, <2>5, <2>6 DEF DecoderInv
  <2>8. DataInv' BY <1>1, <2>1 DEF LoadingInv, DataInv
  <2>9. QED BY <2>7, <2>8
<1>9. CASE T!RejectCode
  <2>1. T!Decoding /\ ~ T!Readable /\ pass' = "failed" BY <1>9 DEF T!RejectCode, T!Fail
  <2>2. Len(insns) \in Insns(file) /\ ~ Readable(file, Len(insns)) BY <2>1, Decoding
  <2>3. QED BY <1>1, <2>1, <2>2 DEF LoadingInv, DecoderInv, DataInv
<1>10. CASE T!EndDecode
  <2>1. /\ pass = "expand" /\ Len(insns) = CountOf(file) /\ pass' = "decoded"
        /\ pc' = pc /\ insns' = insns /\ totalMem' = totalMem
    BY <1>10 DEF T!EndDecode, CountOf
  <2>2. QED BY <1>1, <2>1 DEF LoadingInv, DecoderInv, DataInv
<1>11. QED BY <1>4, <1>5, <1>6, <1>7, <1>8, <1>9, <1>10 DEF DecodeStep, T!ExpandNext

-----------------------------------------------------------------------------
LEMMA NextLoadingInv == LoadingInv /\ [Next]_vars => LoadingInv'
<1> SUFFICES ASSUME LoadingInv, [Next]_vars PROVE LoadingInv' OBVIOUS
<1>1. CASE LoadStep
  <2>1. L!LoaderNext /\ UNCHANGED expandVars BY <1>1 DEF LoadStep
  <2>2. QED
    BY <2>1, LoadKeeps, AllocKeeps, ExpandKeeps, EndExpandKeeps, TranslateKeeps,
       EndTranslateKeeps, StopsKeep
    DEF L!LoaderNext
<1>2. CASE DecodeStep BY <1>2, DecodeKeeps
<1>3. CASE UNCHANGED vars
  <2>1. /\ UNCHANGED <<file, phase, dataBase, codeBase, pointers, bytePc, intPc, insn>>
        /\ UNCHANGED <<pass, pc, insns, totalMem>>
    BY <1>3 DEF vars, loaderVars, expandVars
  <2>2. /\ Expansions' = Expansions /\ Translations' = Translations /\ (Live <=> Live')
        /\ L!Stopped <=> L!Stopped'
    BY <2>1 DEF Expansions, Translations, Live, L!Stopped
  <2>3. LoaderInv' /\ StopInv' BY <2>1, <2>2 DEF LoadingInv, LoaderInv, StopInv
  <2>4. DecoderInv' BY <2>1, <2>2 DEF LoadingInv, DecoderInv
  <2>5. DataInv' BY <2>1, <2>2 DEF LoadingInv, DataInv
  <2>6. QED BY <2>1, <2>3, <2>4, <2>5 DEF LoadingInv
<1>4. QED BY <1>1, <1>2, <1>3 DEF Next

LEMMA LoadingInvHolds == Spec => []LoadingInv
BY InitLoadingInv, NextLoadingInv, PTL DEF Spec

-----------------------------------------------------------------------------
(* What both accept.                                                       *)

\* Both back ends have the program the file spells.
LEMMA BothHave ==
  ASSUME LoadingInv, pass = "decoded"
  PROVE  /\ HeaderOk(file) /\ CountOf(file) \in Nat \ {0} /\ L!Stopped
         /\ insns = ProgramOf(file) /\ Indices(insns) = Insns(file)
         /\ \A k \in Insns(file) : Readable(file, k)
<1>1. /\ HeaderOk(file) /\ Len(insns) = CountOf(file) /\ L!Stopped
      /\ insns = [k \in 1 .. Len(insns) |-> ProgramOf(file)[k]]
      /\ \A k \in 0 .. Len(insns) - 1 : Readable(file, k)
  BY DEF LoadingInv, DecoderInv
<1>2. CountOf(file) \in Nat \ {0} BY <1>1, HeaderFacts DEF LoadingInv
<1>3. ProgramOf(file) = [k \in 1 .. CountOf(file) |-> ProgramOf(file)[k]]
  BY <1>2, FileFacts
<1>4. insns = ProgramOf(file) BY <1>1, <1>3
<1>5. Indices(insns) = Insns(file) BY <1>1 DEF Insns
<1>6. QED BY <1>1, <1>2, <1>4, <1>5

(***************************************************************************)
(* For every file, valid or not: when the loader of vm.c is ready and the  *)
(* translator has decoded, the words and instruction indices the           *)
(* interpreter starts with are those of the translator's program.          *)
(***************************************************************************)
THEOREM OneProgram == Spec => []SameProgram
<1>1. ASSUME LoadingInv PROVE SameProgram
  <2> SUFFICES ASSUME phase = "ready", pass = "decoded"
               PROVE  /\ codeBase = Expanded(insns).image
                      /\ pointers = Expanded(insns).pointers
    BY DEF SameProgram
  <2>1. /\ insns = ProgramOf(file) /\ CountOf(file) \in Nat
        /\ Indices(insns) = Insns(file)
    BY <1>1, BothHave
  <2>2. Live BY DEF Live
  <2>3. Expansions = CountOf(file) /\ Translations = CountOf(file)
    BY DEF Expansions, Translations
  <2>4. /\ Laid(codeBase, ProgramOf(file), CountOf(file), CountOf(file))
        /\ pointers = [k \in 0 .. CountOf(file) - 1 |-> WordPos(file)[k]]
    BY <1>1, <2>2, <2>3 DEF LoadingInv, LoaderInv
  <2>5. Len(ProgramOf(file)) = CountOf(file) /\ WordsBefore(ProgramOf(file)) = WordPos(file)
    BY <1>1, <2>2, LoaderState
  <2>6. codeBase = Expanded(ProgramOf(file)).image BY <2>1, <2>4, <2>5, LaidIsExpanded
  <2>7. Expanded(ProgramOf(file)).pointers = [k \in Insns(file) |-> WordPos(file)[k]]
    BY <2>1, <2>5 DEF Expanded
  <2>8. QED BY <2>1, <2>4, <2>6, <2>7 DEF Insns
<1>2. QED BY <1>1, LoadingInvHolds, PTL

(***************************************************************************)
(* The sums of header fields in HeaderOk are sums of ints.  The code does  *)
(* not check that they fit; what follows is about files where they do.     *)
(***************************************************************************)
SumsFit(f) ==
  /\ Signed(f.header.codeOffset + f.header.codeLength)
       = f.header.codeOffset + f.header.codeLength
  /\ Signed(Signed(f.header.dataOffset + f.header.dataLength) + f.header.litLength)
       = f.header.dataOffset + f.header.dataLength + f.header.litLength

LEMMA SumBelow ==
  ASSUME NEW a \in Nat, NEW b \in Nat, NEW c \in Nat, NEW n \in Nat,
         NEW x \in Nat, NEW y \in Nat, NEW m \in Int,
         a + b <= n, n <= x, c <= y, x + y <= m
  PROVE  a + b + c <= m /\ a + b + c \in Nat
OBVIOUS

\* Where an instruction and its operand end, in a segment of n bytes at o.
LEMMA RoomBehind ==
  ASSUME NEW b \in Nat, NEW e \in 0 .. 4, NEW c \in Nat, NEW n \in Nat, NEW o \in Nat,
         NEW l \in Nat, c = b + 1 + e, c <= n, o + n <= l
  PROVE  b \in 0 .. l - o - 1 /\ b + 1 .. b + e \subseteq 0 .. l - o - 1
OBVIOUS

\* The power of two is found: the loops of vm.c and wasm.c that look for it end.
LEMMA RoundedIsNumber ==
  ASSUME NEW f \in File, HeaderOk(f), SumsFit(f) PROVE RoundedData(f.header) \in Int
<1> DEFINE n == f.header.dataLength + f.header.litLength + f.header.bssLength
           Enough == {k \in Nat : k <= WordBits /\ 2^k >= n}
<1>1. WordBits \in Nat /\ WordBits - 1 \in Nat /\ WordBits - 1 <= WordBits
  BY ByteBitsAssumption DEF WordBits
<1>2. /\ f.header.dataLength \in Nat /\ f.header.litLength \in Nat
      /\ f.header.bssLength \in Nat /\ f.header.dataOffset \in Nat
      /\ Len(f.bytes) \in Nat
  BY HeaderFacts
<1>3. f.header.dataOffset + f.header.dataLength + f.header.litLength <= Len(f.bytes)
      /\ Len(f.bytes) <= MaxImage /\ f.header.bssLength <= MaxBss
  BY DEF HeaderOk, SumsFit
<1>4. HalfMod \in Int BY <1>1 DEF HalfMod
<1>5. n <= HalfMod /\ n \in Nat
  <2>1. /\ f.header.dataLength + f.header.litLength <= Len(f.bytes)
        /\ f.header.bssLength \in Nat
    BY <1>2, <1>3
  <2>2. Len(f.bytes) <= MaxImage /\ f.header.bssLength <= MaxBss BY <1>3
  <2>3. MaxImage \in Nat /\ MaxBss \in Nat /\ MaxImage + MaxBss <= HalfMod
    BY ImageSizesAssumption
  <2>4. QED BY <1>2, <1>4, <2>1, <2>2, <2>3, SumBelow
<1>6. WordBits - 1 \in Enough BY <1>1, <1>4, <1>5 DEF HalfMod
<1>7. \A k \in Nat : 2^k \in Int OBVIOUS
<1> HIDE DEF n
<1>8. PICK k \in Enough : \A j \in Enough : k <= j
  <2>1. Enough \subseteq Nat OBVIOUS
  <2> HIDE DEF Enough
  <2>2. QED BY <1>6, <2>1, LeastNumber
<1>9. \A j \in 0 .. k - 1 : 2^j < n
  <2> SUFFICES ASSUME NEW j \in 0 .. k - 1 PROVE 2^j < n OBVIOUS
  <2>1. j \in Nat /\ ~ (k <= j) /\ j <= WordBits BY <1>1
  <2>2. ~ (2^j >= n) BY <1>8, <2>1
  <2>3. QED BY <1>5, <1>7, <2>1, <2>2
<1>10. k \in 0 .. WordBits /\ 2^k >= n BY <1>1
<1> DEFINE c == CHOOSE i \in 0 .. WordBits : 2^i >= n /\ \A j \in 0 .. i - 1 : 2^j < n
<1>11. c \in 0 .. WordBits BY <1>9, <1>10
<1>12. RoundedData(f.header) = 2^c BY Zenon DEF RoundedData, n
<1> HIDE DEF c
<1>13. QED BY <1>7, <1>11, <1>12

\* Both back ends have copied the same bytes to the same addresses.
LEMMA OneMemory ==
  ASSUME LoadingInv, phase = "ready", pass = "decoded", SumsFit(file)
  PROVE  SameData
<1> DEFINE h == file.header
           r == RoundedData(h)
           n == h.dataLength + h.litLength
           Start(a) == IF a < n THEN file.bytes[h.dataOffset + a + 1] ELSE 0
<1>1. /\ file \in File /\ HeaderOk(file)
      /\ dataBase = [a \in 0 .. r + 3 |-> Start(a)]
      /\ totalMem = IF r < ProgramStack THEN ProgramStack ELSE r
  BY DEF LoadingInv, DataInv, Live, Loaded
<1>2. r \in Int BY <1>1, RoundedIsNumber
<1>3. n \in Nat /\ h.dataOffset \in Nat BY <1>1, HeaderFacts
<1>4. T!SectionLength = n BY DEF T!SectionLength
<1>5. T!DataSection = [k \in 1 .. n |-> file.bytes[h.dataOffset + k]]
  BY <1>4 DEF T!DataSection
<1> HIDE DEF n, r, h
<1>6. Len(T!DataSection) = n BY <1>3, <1>5
<1>7. \A a \in Nat : a < n => T!DataSection[a + 1] = file.bytes[h.dataOffset + (a + 1)]
  BY <1>3, <1>5
<1>8. T!InstanceMemory = [a \in 0 .. totalMem - 1 |-> Start(a)]
  <2>1. \A a \in 0 .. totalMem - 1 :
          (IF a < Len(T!DataSection) THEN T!DataSection[a + 1] ELSE 0) = Start(a)
    <3> SUFFICES ASSUME NEW a \in 0 .. totalMem - 1
                 PROVE  (IF a < Len(T!DataSection) THEN T!DataSection[a + 1] ELSE 0) = Start(a)
      OBVIOUS
    <3>1. totalMem \in Int BY <1>1, <1>2, ProgramStackAssumption
    <3>2. a \in Nat BY <3>1
    <3>3. h.dataOffset + (a + 1) = h.dataOffset + a + 1 BY <1>3, <3>2
    <3>4. QED BY <1>6, <1>7, <3>2, <3>3
  <2>2. QED BY <2>1 DEF T!InstanceMemory
<1> HIDE DEF Start
<1>9. \A a \in DOMAIN dataBase \cap DOMAIN T!InstanceMemory :
        dataBase[a] = T!InstanceMemory[a]
  BY <1>1, <1>8
<1>10. \/ DOMAIN dataBase = 0 .. totalMem + 4 - 1
       \/ totalMem = ProgramStack /\ DOMAIN dataBase \subseteq 0 .. totalMem + 4 - 1
  BY <1>1, <1>2, ProgramStackAssumption
<1>11. QED BY <1>9, <1>10 DEF SameData

(***************************************************************************)
(* Where the sums of a header's fields fit into an int, what the loader of *)
(* vm.c and the translator both accept is one program on one memory:       *)
(* besides the code, every byte both have is the same, and the memories    *)
(* are of one size unless the program stack alone exceeds the data.        *)
(***************************************************************************)
THEOREM OneImage ==
  ASSUME \A f \in Files : SumsFit(f)
  PROVE  Spec => []SameImage
<1>1. ASSUME LoadingInv PROVE SameData
  <2>1. SumsFit(file) BY <1>1 DEF LoadingInv
  <2>2. QED BY <1>1, <2>1, OneMemory DEF SameData
<1>2. LoadingInv => SameData BY <1>1
<1>3. SameProgram /\ SameData => SameImage BY DEF SameImage
<1>4. QED BY <1>2, <1>3, LoadingInvHolds, OneProgram, PTL

\* The loader has room for what the translator decodes.
LEMMA ReadableIsInside ==
  ASSUME NEW f \in File, HeaderOk(f), SumsFit(f),
         NEW k \in Insns(f), Readable(f, k)
  PROVE  Inside(f, k) /\ Passes(f, k)
<1> DEFINE b == BytePos(f)
           w == WordPos(f)
           op == Op(ProgramOf(f), k)
<1>1. /\ CountOf(f) \in Nat \ {0} /\ f.header.codeLength \in Nat
      /\ f.header.codeOffset \in Nat /\ Len(f.bytes) \in Nat
  BY HeaderFacts
<1>2. f.header.codeOffset + f.header.codeLength <= Len(f.bytes)
  BY DEF HeaderOk, SumsFit
<1>3. k \in 0 .. CountOf(f) /\ k + 1 \in 0 .. CountOf(f) BY <1>1 DEF Insns
<1>4. /\ b[k] \in Nat /\ w[k] \in Nat /\ w[k + 1] \in Nat /\ b[k + 1] \in Nat
      /\ b[k + 1] = b[k] + 1 + OperandBytes(op) /\ w[k + 1] = w[k] + 1 + OperandWords(op)
      /\ w[k] <= b[k] /\ w[k + 1] <= b[k + 1]
  BY <1>1, <1>3, FileFacts, WordsBelowBytes
<1>5. b[k] < f.header.codeLength /\ b[k + 1] <= f.header.codeLength /\ op # "BAD"
  BY DEF Readable
<1>6. DOMAIN CodeOf(f) = 0 .. Len(f.bytes) - f.header.codeOffset - 1
  BY DEF CodeOf, FromCode
<1>7. OperandBytes(op) \in 0 .. 4 BY OperandSizes
<1> HIDE DEF b, w, op
<1> DEFINE x == b[k]
           y == b[k + 1]
           e == OperandBytes(op)
           n == f.header.codeLength
           o == f.header.codeOffset
           l == Len(f.bytes)
           v == w[k]
           ow == OperandWords(op)
<1>8. x \in DOMAIN CodeOf(f) /\ x + 1 .. x + e \subseteq DOMAIN CodeOf(f)
  <2>1. /\ x \in Nat /\ y \in Nat /\ e \in 0 .. 4 /\ n \in Nat /\ o \in Nat /\ l \in Nat
        /\ y = x + 1 + e /\ y <= n /\ o + n <= l
    BY <1>1, <1>2, <1>4, <1>5, <1>7
  <2>2. DOMAIN CodeOf(f) = 0 .. l - o - 1 BY <1>6
  <2> HIDE DEF x, y, e, n, o, l
  <2>3. QED BY <2>1, <2>2, RoomBehind
<1>9. v \in Room(f) /\ (ow = 1 => v + 1 \in Room(f))
  <2> DEFINE z == w[k + 1]
  <2>1. /\ x \in Nat /\ y \in Nat /\ n \in Nat /\ v \in Nat /\ z \in Nat
        /\ z = v + 1 + ow /\ v <= x /\ z <= y /\ x < n /\ y <= n
    BY <1>1, <1>4, <1>5
  <2>2. Room(f) = 0 .. n - 1 BY DEF Room
  <2> HIDE DEF x, y, n, v, z, ow
  <2>3. QED BY <2>1, <2>2
<1>10. Inside(f, k) BY <1>8, <1>9, Zenon DEF Inside, b, w, op
<1>11. Passes(f, k) BY <1>1, <1>4, <1>5 DEF Passes, b, op
<1>12. QED BY <1>10, <1>11

\* The translator can read what the loader lets pass, up to the segment's end.
LEMMA PassesIsReadable ==
  ASSUME NEW f \in File, HeaderOk(f), BytePos(f)[CountOf(f)] <= f.header.codeLength,
         NEW k \in Insns(f), Passes(f, k)
  PROVE  Readable(f, k)
<1>1. CountOf(f) \in Nat \ {0} /\ f.header.codeLength \in Nat BY HeaderFacts
<1>2. /\ k \in 0 .. CountOf(f) - 1 /\ k \in 0 .. CountOf(f) /\ k + 1 \in 0 .. CountOf(f)
      /\ CountOf(f) \in 0 .. CountOf(f) /\ k + 1 <= CountOf(f)
  BY <1>1 DEF Insns
<1>3. Ascends(BytePos(f), CountOf(f)) BY <1>1, FileAscends
<1>4. BytePos(f)[k] < BytePos(f)[k + 1] BY <1>2, <1>3 DEF Ascends
<1>5. BytePos(f)[k + 1] <= BytePos(f)[CountOf(f)] BY <1>1, <1>2, <1>3, AscendsFar
<1>6. /\ BytePos(f)[k] \in Nat /\ BytePos(f)[k + 1] \in Nat
      /\ BytePos(f)[CountOf(f)] \in Nat
  BY <1>1, <1>2, FileFacts
<1>7. QED BY <1>1, <1>4, <1>5, <1>6 DEF Readable, Passes

\* LoaderAcceptsDecodable and DecoderAcceptsLoaded, from the invariant.
LEMMA LoaderAccepts ==
  ASSUME LoadingInv, SumsFit(file) PROVE LoaderAcceptsDecodable
<1> SUFFICES ASSUME pass = "decoded", BranchesInside PROVE phase \in {"ready", "nomemory"}
  BY DEF LoaderAcceptsDecodable
<1>1. /\ HeaderOk(file) /\ L!Stopped /\ file \in File
      /\ insns = ProgramOf(file) /\ Indices(insns) = Insns(file)
      /\ \A k \in Insns(file) : Readable(file, k)
  BY BothHave DEF LoadingInv
<1>2. \A k \in Insns(file) : Inside(file, k) /\ Passes(file, k)
  BY <1>1, ReadableIsInside
<1>3. \A k \in Insns(file) : Branches(file, k) => Target(file, k) \in Insns(file)
  BY <1>1 DEF BranchesInside, Branches, Target
<1>4. phase \notin {"error", "undefined"}
  BY <1>1, <1>2, <1>3 DEF LoadingInv, StopInv
<1>5. QED BY <1>1, <1>4 DEF L!Stopped

LEMMA DecoderAccepts ==
  ASSUME LoadingInv PROVE DecoderAcceptsLoaded
<1> SUFFICES ASSUME phase = "ready"
             PROVE  /\ bytePc <= file.header.codeLength => pass # "failed"
                    /\ bytePc <= file.header.codeLength + 5
  BY DEF DecoderAcceptsLoaded
<1>1. Live BY DEF Live
<1>2. file \in File /\ HeaderOk(file) /\ CountOf(file) \in Nat \ {0} BY <1>1, LoaderState
<1>3. Expansions = CountOf(file) BY DEF Expansions
<1>4. /\ bytePc = BytePos(file)[CountOf(file)]
      /\ \A k \in Insns(file) : Passes(file, k)
  BY <1>1, <1>3 DEF LoadingInv, LoaderInv, Insns
<1>5. bytePc <= file.header.codeLength => pass # "failed"
  <2>1. SUFFICES ASSUME bytePc <= file.header.codeLength PROVE pass # "failed" OBVIOUS
  <2>2. \A k \in Insns(file) : Readable(file, k) BY <1>2, <1>4, <2>1, PassesIsReadable
  <2>3. QED BY <1>2, <2>2 DEF LoadingInv, DecoderInv
<1>6. bytePc <= file.header.codeLength + 5
  <2> DEFINE k == CountOf(file) - 1
  <2>1. /\ k \in Insns(file) /\ k \in 0 .. CountOf(file) /\ k + 1 = CountOf(file)
        /\ file.header.codeLength \in Nat
    BY <1>2, HeaderFacts DEF Insns
  <2> HIDE DEF k
  <2>2. /\ BytePos(file)[k + 1] = BytePos(file)[k] + 1 + OperandBytes(Op(ProgramOf(file), k))
        /\ BytePos(file)[k] \in Nat
    BY <1>2, <2>1, FileFacts
  <2>3. BytePos(file)[k] <= file.header.codeLength BY <1>4, <2>1 DEF Passes
  <2>4. QED BY <1>4, <2>1, <2>2, <2>3, OperandSizes
<1>7. QED BY <1>5, <1>6

(***************************************************************************)
(* Where the sums of a header's fields fit into an int, the two decoders   *)
(* accept alike: the loader of vm.c refuses nothing the translator decodes *)
(* and leaves no allocation on it, if its branches name instructions; the  *)
(* translator refuses nothing the loader lets pass unless the code goes on *)
(* behind its segment, and then by five bytes at most.                     *)
(***************************************************************************)
THEOREM TwoDecodersAlike ==
  ASSUME \A f \in Files : SumsFit(f)
  PROVE  Spec => []AcceptAlike
<1>1. ASSUME LoadingInv PROVE AcceptAlike
  <2>1. SumsFit(file) BY <1>1 DEF LoadingInv
  <2>2. QED BY <1>1, <2>1, LoaderAccepts, DecoderAccepts DEF AcceptAlike
<1>2. LoadingInv => AcceptAlike BY <1>1
<1>3. QED BY <1>2, LoadingInvHolds, PTL

-----------------------------------------------------------------------------
(* The types of what is read and written.                                  *)

LEMMA BytesAreWords == Byte \subseteq Word /\ 0 \in Byte /\ Word \subseteq Int
<1>1. ByteMod \in Nat \ {0} /\ ByteMod <= HalfMod BY ByteSizes
<1>2. HalfMod \in Nat \ {0} BY WordSizes
<1>3. QED BY <1>1, <1>2 DEF Byte, Word

LEMMA OpcodesListed == ASSUME NEW c, OpcodeNumbered(c) # "BAD" PROVE OpcodeNumbered(c) \in Opcodes
<1>1. c \in 0 .. OP_MAX - 1 BY NumbersDiffer
<1>2. OP_MAX = 60 BY DEF OP_MAX, OpcodeTable
<1>3. c + 1 \in 1 .. 60 /\ OpcodeNumbered(c) = OpcodeTable[c + 1] BY <1>1, <1>2 DEF OpcodeNumbered
<1>4. \A x \in 1 .. 60 : OpcodeTable[x] \in Opcodes
  BY SMTT(60) DEF OpcodeTable, Opcodes, CondBranch, IntBranch, FloatBranch, Load, Store, IntUnary,
                  FloatUnary, IntBinary, FloatBinary
<1>5. QED BY <1>3, <1>4

LEMMA CodeIsBytes ==
  ASSUME NEW f \in File, HeaderOk(f)
  PROVE  CodeOf(f) \in [0 .. Len(f.bytes) - f.header.codeOffset - 1 -> Byte]
<1>1. f.bytes \in Seq(Byte) /\ Len(f.bytes) \in Nat /\ f.header.codeOffset \in Nat
  BY HeaderFacts DEF File
<1> DEFINE n == Len(f.bytes)
           o == f.header.codeOffset
<1>2. ASSUME NEW k \in 0 .. n - o - 1 PROVE f.bytes[o + k + 1] \in Byte
  <2>1. o + k + 1 \in 1 .. n
    <3>1. n \in Nat /\ o \in Nat BY <1>1
    <3> HIDE DEF n, o
    <3>2. QED BY <3>1
  <2>2. QED BY <1>1, <2>1
<1>3. CodeOf(f) = [k \in 0 .. n - o - 1 |-> f.bytes[o + k + 1]] BY Zenon DEF CodeOf, FromCode
<1> HIDE DEF n, o
<1>4. QED BY <1>2, <1>3 DEF n, o

\* Every operand a decoder reads is a word.
LEMMA OperandIsWord ==
  ASSUME NEW f \in File, HeaderOk(f), NEW b \in Nat, b \in DOMAIN CodeOf(f),
         b + 1 .. b + OperandBytes(OpcodeNumbered(CodeOf(f)[b])) \subseteq DOMAIN CodeOf(f)
  PROVE  CodeOf(f)[b] \in Word /\ OperandAt(CodeOf(f), b) \in Word
<1> DEFINE C  == CodeOf(f)
           S  == 0 .. Len(f.bytes) - f.header.codeOffset - 1
           op == OpcodeNumbered(C[b])
<1>1. C \in [S -> Byte] /\ DOMAIN C = S /\ b \in S BY CodeIsBytes
<1>2. C[b] \in Word BY <1>1, BytesAreWords
<1>3. b + 1 .. b + OperandBytes(op) \subseteq S BY <1>1
<1> HIDE DEF C, S, op
<1>4. op \in HasI4Operand => FetchWord(C, b + 1) \in Word
  <2> SUFFICES ASSUME op \in HasI4Operand PROVE FetchWord(C, b + 1) \in Word OBVIOUS
  <2>1. OperandBytes(op) = 4 BY DEF OperandBytes
  <2> DEFINE a == b + 1
  <2>2. a \in Int /\ a \in S /\ {a + 1, a + 2, a + 3} \subseteq S BY <1>3, <2>1
  <2> HIDE DEF a
  <2>3. FetchWord(C, a) \in Word BY <1>1, <2>2, FetchIsWord
  <2>4. QED BY <2>3 DEF a
<1>5. op = "ARG" => C[b + 1] \in Word
  <2>1. "ARG" \notin HasI4Operand BY DEF HasI4Operand, CondBranch, IntBranch, FloatBranch
  <2>2. op = "ARG" => b + 1 \in S BY <1>3, <2>1 DEF OperandBytes
  <2>3. QED BY <1>1, <2>2, BytesAreWords
<1>6. 0 \in Word BY BytesAreWords
<1>7. OperandAt(C, b) = IF op \in HasI4Operand THEN FetchWord(C, b + 1)
                        ELSE IF op = "ARG" THEN C[b + 1] ELSE 0
  BY Zenon DEF OperandAt, op
<1>8. QED BY <1>2, <1>4, <1>5, <1>6, <1>7 DEF C

LEMMA DataIsBytes ==
  ASSUME NEW f \in File, HeaderOk(f), SumsFit(f)
  PROVE  \A a \in DOMAIN Loaded(f) : Loaded(f)[a] \in Byte
<1> DEFINE n == f.header.dataLength + f.header.litLength
           o == f.header.dataOffset
           r == RoundedData(f.header)
<1>1. /\ f.bytes \in Seq(Byte) /\ Len(f.bytes) \in Nat /\ o \in Nat
      /\ f.header.dataLength \in Nat /\ f.header.litLength \in Nat
  BY HeaderFacts DEF File
<1>2. n \in Nat /\ o + n <= Len(f.bytes) BY <1>1 DEF HeaderOk, SumsFit
<1>3. r \in Int BY RoundedIsNumber
<1>4. Loaded(f) = [a \in 0 .. r + 3 |-> IF a < n THEN f.bytes[o + a + 1] ELSE 0]
  BY Zenon DEF Loaded
<1> HIDE DEF n, o, r
<1>5. ASSUME NEW a \in 0 .. r + 3, a < n PROVE f.bytes[o + a + 1] \in Byte
  <2>1. o + a + 1 \in 1 .. Len(f.bytes) BY <1>1, <1>2, <1>3, <1>5
  <2>2. QED BY <1>1, <2>1
<1>6. QED BY <1>4, <1>5, BytesAreWords

\* Where an instruction that was found begins can be kept in a word.
LEMMA PlaceIsWord ==
  ASSUME NEW f \in File, HeaderOk(f), NEW k \in Insns(f), Inside(f, k)
  PROVE  WordPos(f)[k] \in Word
<1>1. CountOf(f) \in Nat /\ Len(f.bytes) \in Nat /\ f.header.codeOffset \in Nat BY HeaderFacts
<1>2. k \in 0 .. CountOf(f) BY <1>1 DEF Insns
<1>3. WordPos(f)[k] \in Nat /\ BytePos(f)[k] \in Nat /\ WordPos(f)[k] <= BytePos(f)[k]
  BY <1>1, <1>2, FileFacts, WordsBelowBytes
<1>4. BytePos(f)[k] \in 0 .. Len(f.bytes) - f.header.codeOffset - 1 BY CodeIsBytes DEF Inside
<1>5. Len(f.bytes) <= MaxImage BY DEF HeaderOk
<1>6. MaxImage \in Nat /\ MaxBss \in Nat /\ MaxImage + MaxBss <= HalfMod BY ImageSizesAssumption
<1>7. HalfMod \in Nat BY WordSizes
<1>8. QED BY <1>1, <1>3, <1>4, <1>5, <1>6, <1>7 DEF Word

\* The part of the types that is about the loader, and about the decoder.
LoaderTypes ==
  /\ phase \in {"create", "pointers", "code", "expand", "translate",
                "ready", "error", "nomemory", "undefined"}
  /\ \A a \in DOMAIN dataBase : dataBase[a] \in Byte
  /\ \A w \in DOMAIN codeBase : codeBase[w] \in Word
  /\ \A k \in DOMAIN pointers : pointers[k] \in DOMAIN codeBase
  /\ bytePc \in Nat /\ intPc \in Nat /\ insn \in Nat

DecoderTypes ==
  /\ pass \in {"header", "alloc", "expand", "decoded", "failed", "nomemory"}
  /\ pc \in Nat /\ insns \in Seq(Insn) /\ totalMem \in Nat

LEMMA ExpandTyped == ASSUME LoadingInv, LoaderTypes, L!ExpandInsn PROVE LoaderTypes'
<1> DEFINE op == L!Opcode
           ws == IF OperandWords(op) = 1 THEN <<L!Number, L!Operand>> ELSE <<L!Number>>
           n  == Len(ws)
<1>1. /\ L!Expanding /\ L!OpcodeInside /\ L!OperandInside
      /\ phase' = phase /\ dataBase' = dataBase
      /\ pointers' = [k \in 0 .. insn |-> IF k = insn THEN intPc ELSE pointers[k]]
      /\ bytePc' = bytePc + 1 + OperandBytes(op)
      /\ insn' = insn + 1
  BY LoaderReads DEF L!ExpandInsn
<1>2. /\ codeBase' = Grown(codeBase, intPc, ws) /\ intPc' = intPc + n
  <2>1. L!OperandWords(op) = OperandWords(op) BY LoaderReads
  <2>2. QED BY <2>1, Zenon DEF L!ExpandInsn, Grown
<1>3. /\ phase = "expand" /\ insn \in Insns(file) /\ bytePc = BytePos(file)[insn]
      /\ bytePc \in Nat /\ intPc \in Nat
      /\ L!Number = CodeOf(file)[bytePc] /\ op = OpcodeNumbered(L!Number)
      /\ op = Op(ProgramOf(file), insn)
      /\ OperandWords(op) = 1 => L!Operand = Arg(ProgramOf(file), insn)
      /\ Laid(codeBase, ProgramOf(file), insn, 0) /\ intPc = WordPos(file)[insn]
      /\ pointers = [k \in 0 .. insn - 1 |-> WordPos(file)[k]]
  BY <1>1, Expanding
<1>4. /\ file \in File /\ HeaderOk(file) /\ CountOf(file) \in Nat /\ insn \in Nat
      /\ WordsBefore(ProgramOf(file)) = WordPos(file)
  BY <1>3, LoaderState DEF Live
<1>5. Inside(file, insn) BY <1>1, ExpandingChecks
<1>6. L!Number \in Word /\ (OperandWords(op) = 1 => L!Operand \in Word)
  <2>1. bytePc \in DOMAIN CodeOf(file) BY <1>3, <1>5 DEF Inside
  <2>2. OperandWords(op) # 1 => OperandBytes(op) = 0 BY DEF OperandWords, OperandBytes, HasOperand
  <2>3. OperandWords(op) = 1 => bytePc + 1 .. bytePc + OperandBytes(op) \subseteq DOMAIN CodeOf(file)
    BY <1>3, <1>5 DEF Inside
  <2>4. bytePc + 1 .. bytePc + OperandBytes(op) \subseteq DOMAIN CodeOf(file) BY <1>3, <2>2, <2>3
  <2>5. CodeOf(file)[bytePc] \in Word /\ OperandAt(CodeOf(file), bytePc) \in Word
    BY <1>3, <1>4, <2>1, <2>4, OperandIsWord
  <2>6. Arg(ProgramOf(file), insn) = OperandAt(CodeOf(file), bytePc) BY <1>3, <1>4, FileFacts
  <2>7. QED BY <1>3, <2>5, <2>6
<1>7. n \in {1, 2} /\ \A i \in 1 .. n : ws[i] \in Word BY <1>6
<1>8. DOMAIN codeBase = 0 .. intPc - 1 BY <1>3, <1>4 DEF Laid
<1> HIDE DEF ws, n, op
<1>9. DOMAIN codeBase' = 0 .. intPc - 1 + n
  BY <1>2, <1>3, <1>7, <1>8 DEF Grown, n
<1>10. ASSUME NEW w \in DOMAIN codeBase' PROVE codeBase'[w] \in Word
  <2>1. w \in 0 .. intPc - 1 + n BY <1>9
  <2>2. codeBase'[w] = IF w < intPc THEN codeBase[w] ELSE ws[w - intPc + 1]
    BY <1>2, <1>10 DEF Grown
  <2>3. w < intPc => codeBase[w] \in Word BY <1>3, <1>8, <2>1 DEF LoaderTypes
  <2>4. ~ (w < intPc) => w - intPc + 1 \in 1 .. n BY <1>3, <1>7, <2>1
  <2>5. QED BY <1>7, <2>2, <2>3, <2>4
<1>11. ASSUME NEW k \in DOMAIN pointers' PROVE pointers'[k] \in DOMAIN codeBase'
  <2>1. k \in 0 .. insn BY <1>1
  <2>2. k # insn => k \in DOMAIN pointers BY <1>3, <1>4, <2>1
  <2>3. k # insn => pointers[k] \in 0 .. intPc - 1 BY <1>8, <2>2 DEF LoaderTypes
  <2>4. QED BY <1>1, <1>3, <1>7, <1>9, <2>1, <2>3
<1>12. bytePc' \in Nat /\ intPc' \in Nat /\ insn' \in Nat
  <2>1. OperandBytes(op) \in 0 .. 4 BY OperandSizes
  <2>2. bytePc \in Nat /\ intPc \in Nat /\ insn \in Nat /\ n \in Nat BY <1>3, <1>4, <1>7
  <2>3. bytePc' = bytePc + 1 + OperandBytes(op) /\ intPc' = intPc + n /\ insn' = insn + 1
    BY <1>1, <1>2
  <2>4. QED BY <2>1, <2>2, <2>3
<1>13. QED BY <1>1, <1>10, <1>11, <1>12 DEF LoaderTypes

LEMMA TranslateTyped == ASSUME LoadingInv, LoaderTypes, L!TranslateInsn PROVE LoaderTypes'
<1>1. /\ L!Translating /\ phase' = phase /\ dataBase' = dataBase
      /\ pointers' = pointers /\ bytePc' = bytePc
      /\ intPc' = intPc + 1 + OperandWords(L!WordOpcode)
      /\ insn' = insn + 1
      /\ \/ /\ L!Target \in 0 .. L!Count - 1
            /\ codeBase' = [codeBase EXCEPT ![intPc + 1] = pointers[L!Target]]
         \/ codeBase' = codeBase
  BY LoaderReads DEF L!TranslateInsn, L!Translated
<1>2. /\ phase = "translate" /\ pointers = [k \in Insns(file) |-> WordPos(file)[k]]
      /\ Expansions = CountOf(file)
  BY <1>1, Translating
<1>3. file \in File /\ HeaderOk(file) BY <1>2, LoaderState DEF Live
<1>4. \A k \in Insns(file) : Inside(file, k) BY <1>2 DEF LoadingInv, LoaderInv, Live, Insns
<1>5. L!Target \in 0 .. L!Count - 1 => pointers[L!Target] \in Word
  <2>1. 0 .. L!Count - 1 = Insns(file) BY DEF L!Count, Insns, CountOf
  <2>2. \A k \in Insns(file) : pointers[k] \in Word BY <1>2, <1>3, <1>4, PlaceIsWord
  <2>3. QED BY <2>1, <2>2
<1>6. /\ DOMAIN codeBase' = DOMAIN codeBase
      /\ \A w \in DOMAIN codeBase : codeBase'[w] \in Word
  BY <1>1, <1>5 DEF LoaderTypes
<1>7. intPc' \in Nat /\ insn' \in Nat BY <1>1, OperandSizes DEF LoaderTypes
<1>8. QED BY <1>1, <1>6, <1>7 DEF LoaderTypes

LEMMA LoaderTyped ==
  ASSUME LoadingInv, LoadingInv', SumsFit(file), LoaderTypes, L!LoaderNext PROVE LoaderTypes'
<1>1. CASE L!VM_LoadQVM
  <2>1. /\ phase' = "pointers" /\ file' = file /\ L!HeaderOk(file)
        /\ UNCHANGED <<codeBase, pointers, bytePc, intPc, insn>>
    BY <1>1, Zenon DEF L!VM_LoadQVM
  <2>2. file \in File /\ HeaderOk(file) BY <2>1, LoaderReads DEF LoadingInv
  <2>3. dataBase' = Loaded(file) BY <2>1 DEF LoadingInv, DataInv, Live, Loaded, RoundedData
  <2>4. \A a \in DOMAIN dataBase' : dataBase'[a] \in Byte BY <2>2, <2>3, DataIsBytes
  <2>5. QED BY <2>1, <2>4 DEF LoaderTypes
<1>2. CASE L!ExpandInsn BY <1>2, ExpandTyped
<1>3. CASE L!TranslateInsn BY <1>3, TranslateTyped
<1>4. CASE \/ L!BadHeader \/ L!OutOfMemory \/ L!RejectInsn \/ L!ExpandWild \/ L!RejectTarget
           \/ L!TargetWild \/ L!EndTranslate
  <2>1. /\ phase' \in {"error", "nomemory", "undefined", "ready"}
        /\ UNCHANGED <<dataBase, codeBase, pointers, bytePc, intPc, insn>>
    BY <1>4 DEF L!BadHeader, L!OutOfMemory, L!RejectInsn, L!ExpandWild, L!RejectTarget,
                L!TargetWild, L!EndTranslate, L!Stop
  <2>2. QED BY <2>1 DEF LoaderTypes
<1>5. CASE L!AllocPointers \/ L!AllocCode \/ L!EndExpand
  <2>1. /\ phase' \in {"code", "expand", "translate"}
        /\ UNCHANGED <<dataBase, codeBase, pointers, bytePc>>
        /\ intPc' \in {0, intPc} /\ insn' \in {0, insn}
    BY <1>5 DEF L!AllocPointers, L!AllocCode, L!EndExpand
  <2>2. QED BY <2>1 DEF LoaderTypes
<1>6. QED BY <1>1, <1>2, <1>3, <1>4, <1>5 DEF L!LoaderNext

LEMMA DecoderTyped ==
  ASSUME LoadingInv, SumsFit(file), DecoderTypes, T!ExpandNext PROVE DecoderTypes'
<1>1. CASE T!DecodeInsn
  <2> DEFINE n == Len(insns)
             l == Len(file.bytes)
             o == file.header.codeOffset
             e == OperandBytes(T!Opcode)
             c == file.header.codeLength
  <2>1. /\ T!Decoding /\ T!Readable /\ pass' = pass /\ totalMem' = totalMem
        /\ insns' = Append(insns, [op |-> T!Opcode, arg |-> T!Decoded])
        /\ pc' = pc + 1 + OperandBytes(T!Opcode)
    BY <1>1, DecoderReads DEF T!DecodeInsn
  <2>2. /\ HeaderOk(file) /\ CountOf(file) \in Nat /\ n \in Insns(file)
        /\ pc = BytePos(file)[n] /\ pc \in Nat
        /\ T!Opcode = Op(ProgramOf(file), n)
        /\ ProgramOf(file)[n + 1] = [op |-> T!Opcode, arg |-> T!Decoded]
        /\ Readable(file, n)
    BY <2>1, Decoding
  <2>3. file \in File /\ l \in Nat /\ o \in Nat /\ c \in Nat
    BY <2>2, HeaderFacts DEF LoadingInv
  <2>4. /\ Op(ProgramOf(file), n) = OpcodeNumbered(CodeOf(file)[pc])
        /\ Arg(ProgramOf(file), n) = OperandAt(CodeOf(file), pc)
        /\ BytePos(file)[n + 1] = pc + 1 + e
    BY <2>2, FileFacts
  <2>5. o + c <= l BY <2>2, <2>3 DEF HeaderOk, SumsFit
  <2>6. pc \in 0 .. l - o - 1 /\ pc + 1 .. pc + e \subseteq 0 .. l - o - 1
    <3>1. pc + 1 + e <= c BY <2>2, <2>4 DEF Readable
    <3>2. e \in 0 .. 4 BY OperandSizes
    <3> DEFINE d == pc + 1 + e
    <3> HIDE DEF l, o, e, c
    <3>3. pc \in Nat /\ o \in Nat /\ c \in Nat /\ l \in Nat BY <2>2, <2>3
    <3>4. d = pc + 1 + e /\ d \in Nat BY <3>2, <3>3
    <3>5. d <= c BY <3>1
    <3> HIDE DEF d
    <3>6. o + d <= l BY <2>5, <3>3, <3>4, <3>5
    <3>7. QED BY <3>2, <3>3, <3>4, <3>5, <3>6, RoomBehind
  <2>7. DOMAIN CodeOf(file) = 0 .. l - o - 1 BY <2>2, <2>3, CodeIsBytes
  <2>8. OperandAt(CodeOf(file), pc) \in Word
    BY <2>2, <2>3, <2>4, <2>6, <2>7, OperandIsWord
  <2>9. Arg(ProgramOf(file), n) = T!Decoded BY <2>2 DEF Arg
  <2>10. T!Opcode \in Opcodes BY <2>2, <2>4, OpcodesListed DEF Readable
  <2>11. [op |-> T!Opcode, arg |-> T!Decoded] \in Insn
    BY <2>4, <2>8, <2>9, <2>10, BytesAreWords DEF Insn
  <2>12. insns' \in Seq(Insn) BY <2>1, <2>11 DEF DecoderTypes
  <2>13. pc' \in Nat
    <3>1. e \in 0 .. 4 /\ pc' = pc + 1 + e BY <2>1, OperandSizes
    <3> HIDE DEF e
    <3>2. QED BY <2>2, <3>1
  <2>14. QED BY <2>1, <2>12, <2>13 DEF DecoderTypes
<1>2. CASE T!ReadHeader
  <2>1. /\ HeaderOk(file) /\ pass' = "alloc" /\ pc' = pc /\ insns' = insns
        /\ totalMem' = IF RoundedData(file.header) < ProgramStack THEN ProgramStack
                       ELSE RoundedData(file.header)
    BY <1>2, DecoderReads DEF T!ReadHeader
  <2>2. RoundedData(file.header) \in Int BY <2>1, RoundedIsNumber DEF LoadingInv
  <2>3. totalMem' \in Nat BY <2>1, <2>2, ProgramStackAssumption
  <2>4. QED BY <2>1, <2>3 DEF DecoderTypes
<1>3. CASE T!BadImage \/ T!NoMemory \/ T!RejectCode \/ T!AllocInsns \/ T!EndDecode
  <2>1. /\ pass' \in {"failed", "nomemory", "expand", "decoded"}
        /\ UNCHANGED <<pc, insns, totalMem>>
    BY <1>3 DEF T!BadImage, T!NoMemory, T!RejectCode, T!AllocInsns, T!EndDecode, T!Fail
  <2>2. QED BY <2>1 DEF DecoderTypes
<1>4. QED BY <1>1, <1>2, <1>3 DEF T!ExpandNext

(***************************************************************************)
(* For every set of files whose header sums fit an int: the two decoders   *)
(* fill data memories with bytes and the code with words, every            *)
(* instruction pointer is the place of a word of the code, and what the    *)
(* translator keeps of an instruction is an opcode it knows and an int.    *)
(***************************************************************************)
THEOREM DecodersTyped ==
  ASSUME \A f \in Files : SumsFit(f)
  PROVE  Spec => []TypeOK
<1>1. LoadingInv => SumsFit(file) /\ file \in File BY DEF LoadingInv
<1>2. Init => LoaderTypes /\ DecoderTypes
  BY ProgramStackAssumption DEF Init, L!LoaderInit, T!ExpandInit, LoaderTypes, DecoderTypes
<1>3. ASSUME LoadingInv, LoadingInv', LoaderTypes, DecoderTypes, [Next]_vars
      PROVE  LoaderTypes' /\ DecoderTypes'
  <2>1. SumsFit(file) BY <1>1, <1>3
  <2>2. CASE LoadStep
    <3>1. LoaderTypes' BY <1>3, <2>1, <2>2, LoaderTyped DEF LoadStep
    <3>2. DecoderTypes' BY <1>3, <2>2 DEF LoadStep, expandVars, DecoderTypes
    <3>3. QED BY <3>1, <3>2
  <2>3. CASE DecodeStep
    <3>1. DecoderTypes' BY <1>3, <2>1, <2>3, DecoderTyped DEF DecodeStep
    <3>2. LoaderTypes' BY <1>3, <2>3 DEF DecodeStep, loaderVars, LoaderTypes
    <3>3. QED BY <3>1, <3>2
  <2>4. CASE UNCHANGED vars
    BY <1>3, <2>4 DEF vars, loaderVars, expandVars, LoaderTypes, DecoderTypes
  <2>5. QED BY <1>3, <2>2, <2>3, <2>4 DEF Next
<1>4. LoadingInv /\ LoaderTypes /\ DecoderTypes => TypeOK
  BY <1>1 DEF TypeOK, LoaderTypes, DecoderTypes
<1>5. LoadingInv /\ LoadingInv' /\ LoaderTypes /\ DecoderTypes /\ [Next]_vars
      => LoaderTypes' /\ DecoderTypes'
  BY <1>3
<1>6. QED BY <1>2, <1>4, <1>5, LoadingInvHolds, PTL DEF Spec
=============================================================================
