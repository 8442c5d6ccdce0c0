-------------------------- MODULE InterpQvmProofs ---------------------------
(***************************************************************************)
(* The interpreter implements the machine of Qvm: every step of a compiled *)
(* program, of its host and of VM_CallInterpreted maps to one of that      *)
(* machine or to none.                                                     *)
(***************************************************************************)
EXTENDS InterpQvm, CompiledProofs

-----------------------------------------------------------------------------
(* The calls InterpQvm sees, for code c, memory m, pending calls fs and    *)
(* activations cs.                                                         *)

IndexIn(c, w) == CHOOSE i \in DOMAIN c.pointers : c.pointers[i] = w

UpTo(fs, k) == Max({0} \cup {j \in DOMAIN fs : fs[j].level <= k})

CallIn(c, fs, cs, k, n, word, ps, ofs, sys) ==
  LET a      == cs[k]
      first  == n = 0 \/ fs[n].level # k
      bottom == IF first THEN 0 ELSE fs[n].base
  IN  [pc   |-> IndexIn(c, word),
       ps   |-> ps,
       base |-> IF first THEN a.entry - FrameBytes ELSE fs[n].ps,
       ops  |-> [s \in 1 .. ofs - bottom |-> a.opStack[bottom + s]],
       sys  |-> sys,
       cmd  |-> IF first THEN <<a.command>> ELSE <<>>]

WaitingIn(c, fs, cs, j) ==
  LET f == fs[j] IN CallIn(c, fs, cs, f.level, j - 1, f.ret, f.ps, f.base, -1)

InnermostIn(c, m, fs, cs, k) ==
  LET a == cs[k]
  IN  IF a.inSyscall
      THEN CallIn(c, fs, cs, k, UpTo(fs, k), FetchWord(m, a.ps), a.ps, a.ofs, FetchWord(m, a.ps + 4))
      ELSE CallIn(c, fs, cs, k, UpTo(fs, k), a.pc, a.ps, a.ofs, -1)

CallsIn(c, m, fs, cs) ==
  [n \in 1 .. Len(fs) + Len(cs) |->
     IF \E k \in DOMAIN cs : n = UpTo(fs, k) + k
     THEN InnermostIn(c, m, fs, cs, CHOOSE k \in DOMAIN cs : n = UpTo(fs, k) + k)
     ELSE WaitingIn(c, fs, cs, CHOOSE j \in DOMAIN fs : n = j + fs[j].level - 1)]

LEMMA CallsSeen ==
  QvmCalls = (IF Alive THEN CallsIn(code, image, frames, acts) ELSE <<>>)
BY Zenon DEF QvmCalls, CallsIn, Innermost, InnermostIn, Waiting, WaitingIn, CallAt, CallIn, Beneath,
       UpTo, IndexOf, IndexIn, Level

LEMMA CallsSeenNext ==
  QvmCalls' = (IF Alive' THEN CallsIn(code', image', frames', acts') ELSE <<>>)
BY Zenon DEF QvmCalls, CallsIn, Innermost, InnermostIn, Waiting, WaitingIn, CallAt, CallIn, Beneath,
       UpTo, IndexOf, IndexIn, Level

-----------------------------------------------------------------------------
(* Where the calls are in the sequence.                                    *)

LEMMA CutsAscend ==
  ASSUME NEW p, NEW m, NEW fs, NEW cs, Nested(p, m, fs, cs), NEW k \in Nat
  PROVE  UpTo(fs, k) \in 0 .. Len(fs) /\ Cut(fs, k, UpTo(fs, k))
<1> DEFINE N == Len(fs)
           S == {0} \cup {j \in DOMAIN fs : fs[j].level <= k}
           n == Max(S)
<1>1. N \in Nat /\ DOMAIN fs = 1 .. N BY NestedFacts DEF Nested
<1>2. \A j \in 1 .. N : FrameRight(p, m, fs, cs, j) /\ fs[j].level \in Nat
  BY NestedFacts DEF AllRight, Nested
<1>3. S \subseteq 0 .. N /\ S # {} BY <1>1
<1>4. n \in S /\ \A x \in S : x <= n
  <2> HIDE DEF S
  <2>1. QED BY <1>1, <1>3, Greatest
<1>5. n \in 0 .. N BY <1>3, <1>4
<1> HIDE DEF n
<1>6. ASSUME NEW j \in 1 .. n PROVE fs[j].level <= k
  <2>1. n \in 1 .. N /\ n > 0 /\ j \in 1 .. N BY <1>1, <1>5
  <2>2. fs[n].level <= k BY <1>4, <2>1
  <2>3. fs[j].level <= fs[n].level BY <1>2, <2>1 DEF FrameRight
  <2>4. QED BY <1>2, <2>1, <2>2, <2>3
<1>7. ASSUME NEW j \in n + 1 .. Len(fs) PROVE k < fs[j].level
  <2>1. j \in 1 .. N /\ ~ (j <= n) BY <1>1, <1>5
  <2>2. j \notin S BY <1>4, <2>1
  <2>3. QED BY <1>1, <1>2, <2>1, <2>2
<1>8. UpTo(fs, k) = n BY DEF UpTo, n
<1>9. QED BY <1>5, <1>6, <1>7, <1>8 DEF Cut

\* The innermost call of an activation comes after those that wait in it and
\* before those of the next.
LEMMA PlacesApart ==
  ASSUME NEW p, NEW m, NEW fs, NEW cs, Nested(p, m, fs, cs)
  PROVE  /\ \A k \in 1 .. Len(cs), l \in 1 .. Len(cs) : UpTo(fs, k) + k = UpTo(fs, l) + l => k = l
         /\ \A j \in 1 .. Len(fs), i \in 1 .. Len(fs) :
              j + fs[j].level - 1 = i + fs[i].level - 1 => j = i
         /\ \A k \in 1 .. Len(cs), j \in 1 .. Len(fs) : UpTo(fs, k) + k # j + fs[j].level - 1
         /\ \A k \in 1 .. Len(cs) : UpTo(fs, k) + k \in 1 .. Len(fs) + Len(cs)
         /\ \A j \in 1 .. Len(fs) : j + fs[j].level - 1 \in 1 .. Len(fs) + Len(cs)
<1> DEFINE N == Len(fs)
           L == Len(cs)
           B(k) == UpTo(fs, k)
<1>1. N \in Nat /\ L \in Nat BY NestedFacts
<1>2. \A j \in 1 .. N : fs[j].level \in 1 .. L /\ fs[j].level \in Nat BY NestedFacts
<1>3. \A k \in 1 .. L : B(k) \in 0 .. N /\ Cut(fs, k, B(k)) BY CutsAscend
<1>4. \A j \in 1 .. N : \A i \in 1 .. j : fs[i].level <= fs[j].level
  BY DEF Nested, AllRight, FrameRight
<1> HIDE DEF B
<1>5. \A k \in 1 .. L, j \in 1 .. N : (j <= B(k) => fs[j].level <= k) /\ (B(k) < j => k < fs[j].level)
  <2> TAKE k \in 1 .. L, j \in 1 .. N
  <2>1. B(k) \in 0 .. N /\ Cut(fs, k, B(k)) BY <1>3
  <2>2. (j <= B(k) => j \in 1 .. B(k)) /\ (B(k) < j => j \in B(k) + 1 .. Len(fs)) BY <1>1, <2>1
  <2>3. QED BY <2>1, <2>2 DEF Cut
<1>6. ASSUME NEW k \in 1 .. L, NEW l \in 1 .. L, k < l PROVE B(k) <= B(l)
  <2>1. CASE B(l) < B(k)
    <3>1. B(k) \in 1 .. N /\ B(l) \in Nat BY <1>1, <1>3, <2>1
    <3>2. fs[B(k)].level <= k /\ l < fs[B(k)].level BY <1>5, <2>1, <3>1
    <3>3. QED BY <1>1, <1>2, <1>6, <3>1, <3>2
  <2>2. QED BY <1>3, <2>1
<1>7. \A k \in 1 .. L, l \in 1 .. L : B(k) + k = B(l) + l => k = l
  <2>1. ASSUME NEW k \in 1 .. L, NEW l \in 1 .. L, k < l PROVE B(k) + k < B(l) + l
    <3>1. B(k) <= B(l) BY <1>6, <2>1
    <3>2. QED BY <1>1, <1>3, <2>1, <3>1
  <2>2. \A k \in 1 .. L : B(k) + k \in Int BY <1>3
  <2>3. QED BY <1>1, <2>1, <2>2
<1>8. \A j \in 1 .. N, i \in 1 .. N : j + fs[j].level - 1 = i + fs[i].level - 1 => j = i
  <2>1. ASSUME NEW j \in 1 .. N, NEW i \in 1 .. N, i < j
        PROVE  i + fs[i].level - 1 < j + fs[j].level - 1
    <3>1. i \in 1 .. j BY <2>1
    <3>2. fs[i].level <= fs[j].level BY <1>4, <3>1
    <3>3. QED BY <1>2, <2>1, <3>2
  <2>2. \A j \in 1 .. N : j + fs[j].level - 1 \in Int BY <1>2
  <2>3. QED BY <2>1, <2>2
<1>9. \A k \in 1 .. L, j \in 1 .. N : B(k) + k # j + fs[j].level - 1
  <2> TAKE k \in 1 .. L, j \in 1 .. N
  <2>1. B(k) \in Nat /\ fs[j].level \in Nat BY <1>2, <1>3
  <2>2. (j <= B(k) => fs[j].level <= k) /\ (B(k) < j => k < fs[j].level) BY <1>5
  <2>3. QED BY <2>1, <2>2
<1>10. \A k \in 1 .. L : B(k) + k \in 1 .. N + L BY <1>1, <1>3
<1>11. \A j \in 1 .. N : j + fs[j].level - 1 \in 1 .. N + L BY <1>1, <1>2
<1>12. QED BY <1>7, <1>8, <1>9, <1>10, <1>11 DEF B

\* Every place in the sequence is one of these.
LEMMA PlacesFilled ==
  ASSUME NEW p, NEW m, NEW fs, NEW cs, Nested(p, m, fs, cs), NEW n \in 1 .. Len(fs) + Len(cs)
  PROVE  \/ \E k \in 1 .. Len(cs) : n = UpTo(fs, k) + k
         \/ \E j \in 1 .. Len(fs) : n = j + fs[j].level - 1
<1> DEFINE N == Len(fs)
           L == Len(cs)
           B(k) == UpTo(fs, k)
           S == {k \in Nat : k <= L /\ n <= B(k) + k}
<1>1. N \in Nat /\ L \in Nat BY NestedFacts
<1>2. \A k \in Nat : B(k) \in 0 .. N /\ Cut(fs, k, B(k)) BY CutsAscend
<1>3. B(L) = N BY <1>1, <1>2, NestedFacts
<1>4. \A j \in 1 .. N : fs[j].level \in 1 .. L /\ fs[j].level \in Nat BY NestedFacts
<1> HIDE DEF B
<1>5. S # {} BY <1>1, <1>3
<1>6. PICK k \in S : \A l \in S : k <= l BY <1>5, LeastNumber
<1>7. k \in Nat /\ k <= L /\ n <= B(k) + k BY <1>6
<1>8. k > 0
  <2>1. CASE k = 0
    <3>1. B(0) = 0
      <4>1. B(0) \in 0 .. N /\ Cut(fs, 0, B(0)) BY <1>2
      <4>2. CASE B(0) > 0
        <5>1. 1 \in 1 .. B(0) /\ 1 \in 1 .. N BY <1>1, <4>1, <4>2
        <5>2. fs[1].level <= 0 BY <4>1, <5>1 DEF Cut
        <5>3. QED BY <1>4, <5>1, <5>2
      <4>3. QED BY <4>1, <4>2
    <3>2. QED BY <1>1, <1>7, <2>1, <3>1
  <2>2. QED BY <1>7, <2>1
<1>9. CASE n = B(k) + k BY <1>1, <1>7, <1>8, <1>9 DEF B
<1>10. CASE n < B(k) + k
  <2> DEFINE q == k - 1
             j == n - q
  <2>1. q \in Nat /\ q \notin S BY <1>6, <1>7, <1>8
  <2>2. B(q) \in 0 .. N /\ Cut(fs, q, B(q)) /\ B(k) \in 0 .. N /\ Cut(fs, k, B(k))
    BY <1>2, <1>7, <2>1
  <2>3. B(q) + q < n
    <3>1. q <= L BY <1>1, <1>7
    <3>2. ~ (n <= B(q) + q) BY <2>1, <3>1
    <3>3. n \in Int /\ B(q) + q \in Int BY <1>1, <2>1, <2>2
    <3> HIDE DEF q
    <3>4. QED BY <3>2, <3>3
  <2>4. j \in 1 .. B(k) /\ j \in B(q) + 1 .. N /\ j \in 1 .. N
    BY <1>1, <1>7, <1>10, <2>1, <2>2, <2>3
  <2> HIDE DEF j
  <2>5. fs[j].level <= k /\ q < fs[j].level BY <2>2, <2>4 DEF Cut
  <2>6. fs[j].level = k BY <1>4, <1>7, <2>1, <2>4, <2>5
  <2>7. n = j + fs[j].level - 1 BY <1>1, <1>7, <2>6 DEF j
  <2>8. QED BY <2>4, <2>7
<1>11. QED BY <1>1, <1>2, <1>7, <1>9, <1>10

LEMMA CallsPlaced ==
  ASSUME NEW p, NEW c, NEW m, NEW fs, NEW cs, Nested(p, m, fs, cs)
  PROVE  LET s == CallsIn(c, m, fs, cs)
         IN  /\ s = [n \in 1 .. Len(fs) + Len(cs) |-> s[n]]
             /\ \A k \in 1 .. Len(cs) : s[UpTo(fs, k) + k] = InnermostIn(c, m, fs, cs, k)
             /\ \A j \in 1 .. Len(fs) : s[j + fs[j].level - 1] = WaitingIn(c, fs, cs, j)
<1> DEFINE s == CallsIn(c, m, fs, cs)
<1>1. DOMAIN cs = 1 .. Len(cs) /\ DOMAIN fs = 1 .. Len(fs) BY DEF Nested
<1>2. s = [n \in 1 .. Len(fs) + Len(cs) |-> s[n]] BY DEF CallsIn
<1>3. ASSUME NEW k \in 1 .. Len(cs) PROVE s[UpTo(fs, k) + k] = InnermostIn(c, m, fs, cs, k)
  <2> DEFINE n == UpTo(fs, k) + k
             l == CHOOSE l \in DOMAIN cs : n = UpTo(fs, l) + l
  <2>1. n \in 1 .. Len(fs) + Len(cs) BY PlacesApart
  <2>2. \E x \in DOMAIN cs : n = UpTo(fs, x) + x BY <1>1
  <2>3. s[n] = InnermostIn(c, m, fs, cs, l) BY <2>1, <2>2 DEF CallsIn
  <2>4. l \in 1 .. Len(cs) /\ n = UpTo(fs, l) + l BY <1>1, <2>2
  <2>5. l = k BY <2>4, PlacesApart
  <2> HIDE DEF l
  <2>6. QED BY <2>3, <2>5
<1>4. ASSUME NEW j \in 1 .. Len(fs) PROVE s[j + fs[j].level - 1] = WaitingIn(c, fs, cs, j)
  <2> DEFINE n == j + fs[j].level - 1
             l == CHOOSE l \in DOMAIN fs : n = l + fs[l].level - 1
  <2>1. n \in 1 .. Len(fs) + Len(cs) BY PlacesApart
  <2>2. ~ \E x \in DOMAIN cs : n = UpTo(fs, x) + x BY <1>1, PlacesApart
  <2>3. s[n] = WaitingIn(c, fs, cs, l) BY <2>1, <2>2 DEF CallsIn
  <2>4. l \in 1 .. Len(fs) /\ n = l + fs[l].level - 1 BY <1>1
  <2>5. l = j BY <2>4, PlacesApart
  <2> HIDE DEF l
  <2>6. QED BY <2>3, <2>5
<1>5. QED BY <1>2, <1>3, <1>4

\* A call that waits has its operands above those of its caller.
LEMMA WaitsAbove ==
  ASSUME NEW p, NEW m, NEW fs, NEW cs, Nested(p, m, fs, cs),
         WellFormed(p.insns, p.depth), NEW j \in 1 .. Len(fs)
  PROVE  BaseOf(fs, fs[j].level, j - 1) <= fs[j].base
<1>1. FrameRight(p, m, fs, cs, j) BY DEF Nested, AllRight
<1>2. PICK e, i \in Indices(p.insns) :
        /\ Op(p.insns, i) = "CALL"
        /\ fs[j].base + 1 = BaseOf(fs, fs[j].level, j - 1) + p.depth[i]
  BY <1>1 DEF FrameRight, Waits
<1>3. p.depth[i] >= Pops("CALL") /\ p.depth[i] \in Nat BY <1>2 DEF ConsistentDepths, WellFormed
<1>4. Pops("CALL") = 1 BY DEF Pops
<1>5. fs[j].base \in Nat
  <2>1. fs[j] \in FrameRecord BY NestedFacts
  <2>2. QED BY <2>1, Sizes DEF FrameRecord, Slots
<1>6. BaseOf(fs, fs[j].level, j - 1) \in Nat
  <2>1. j - 1 > 0 => fs[j - 1] \in FrameRecord
    <3>1. j - 1 > 0 => j - 1 \in 1 .. Len(fs) BY NestedFacts
    <3>2. QED BY <3>1, NestedFacts
  <2>2. QED BY <2>1, Sizes DEF BaseOf, FrameRecord, Slots
<1>7. QED BY <1>2, <1>3, <1>4, <1>5, <1>6

\* So the last one has the highest.
LEMMA LastAbove ==
  ASSUME NEW p, NEW m, NEW fs, NEW cs, Nested(p, m, fs, cs),
         WellFormed(p.insns, p.depth),
         NEW j \in 1 .. Len(fs), fs[j].level = Len(cs)
  PROVE  fs[j].base <= BaseOf(fs, Len(cs), Len(fs))
<1> DEFINE N == Len(fs)
           L == Len(cs)
           S == {i \in 0 .. N : i \in 1 .. N /\ fs[i].level = L /\ BaseOf(fs, L, N) < fs[i].base}
<1>1. N \in Nat /\ L \in Nat BY NestedFacts
<1>2. \A i \in 1 .. N : fs[i].base \in Nat /\ fs[i].level \in 1 .. L
  <2>1. \A i \in 1 .. N : fs[i] \in FrameRecord /\ fs[i].level \in 1 .. L BY NestedFacts
  <2>2. QED BY <2>1, Sizes DEF FrameRecord, Slots
<1>3. BaseOf(fs, L, N) \in Nat
  <2>1. N > 0 => N \in 1 .. N BY <1>1
  <2>2. QED BY <1>2, <2>1 DEF BaseOf
<1>4. S = {}
  <2>1. SUFFICES ASSUME S # {} PROVE FALSE OBVIOUS
  <2>2. S \subseteq 0 .. N OBVIOUS
  <2> DEFINE i == Max(S)
  <2>3. i \in S /\ \A x \in S : x <= i
    <3> HIDE DEF S
    <3>1. QED BY <1>1, <2>1, <2>2, Greatest
  <2> HIDE DEF i
  <2>4. i \in 1 .. N /\ fs[i].level = L /\ BaseOf(fs, L, N) < fs[i].base BY <2>3
  <2>5. i # N BY <1>1, <1>2, <2>4 DEF BaseOf
  <2> DEFINE h == i + 1
  <2>6. h \in 1 .. N /\ h - 1 = i /\ i > 0 /\ i \in 1 .. h BY <1>1, <2>4, <2>5
  <2> HIDE DEF h
  <2>7. FrameRight(p, m, fs, cs, h) BY <2>6 DEF Nested, AllRight
  <2>8. fs[h].level = L BY <1>1, <1>2, <2>4, <2>6, <2>7 DEF FrameRight
  <2>9. BaseOf(fs, L, i) <= fs[h].base BY <2>6, <2>8, WaitsAbove
  <2>10. BaseOf(fs, L, i) = fs[i].base BY <2>4, <2>6 DEF BaseOf
  <2>11. BaseOf(fs, L, N) < fs[h].base BY <1>2, <1>3, <2>4, <2>6, <2>9, <2>10
  <2>12. h \in S BY <1>1, <2>6, <2>8, <2>11
  <2>13. QED BY <2>3, <2>6, <2>12
<1>5. QED BY <1>1, <1>2, <1>3, <1>4

\* The first n pending calls, all those of the first k activations, and these
\* activations are the same as before.
SamePrefix(m, fs, cs, m2, fs2, cs2, k, n) ==
  /\ k \in 0 .. Len(cs) /\ k <= Len(cs2) /\ n \in 0 .. Len(fs) /\ n <= Len(fs2)
  /\ \A j \in 1 .. n : fs2[j] = fs[j]
  /\ \A j \in n + 1 .. Len(fs) : k < fs[j].level
  /\ \A j \in n + 1 .. Len(fs2) : k < fs2[j].level
  /\ \A i \in 1 .. k : cs2[i] = cs[i] /\ SameAt(m, m2, cs[i].ps)
  /\ \A j \in 1 .. n :
       LET a == cs[fs[j].level]
           b == cs2[fs[j].level]
       IN  /\ b.command = a.command /\ b.entry = a.entry
           /\ \A s \in 1 .. fs[j].base : b.opStack[s] = a.opStack[s]

\* Then so are their calls.
LEMMA InnermostCarried ==
  ASSUME NEW c, NEW m, NEW fs, NEW cs, NEW m2, NEW fs2, NEW cs2, NEW k, NEW n,
         fs \in Seq(FrameRecord), fs2 \in Seq(FrameRecord), Len(cs) \in Nat, Len(cs2) \in Nat,
         SamePrefix(m, fs, cs, m2, fs2, cs2, k, n), NEW i \in 1 .. k
  PROVE  /\ UpTo(fs2, i) = UpTo(fs, i)
         /\ InnermostIn(c, m2, fs2, cs2, i) = InnermostIn(c, m, fs, cs, i)
<1>1. /\ k \in Nat /\ n \in Nat /\ n <= Len(fs) /\ n <= Len(fs2) /\ Len(fs) \in Nat /\ Len(fs2) \in Nat
      /\ DOMAIN fs = 1 .. Len(fs) /\ DOMAIN fs2 = 1 .. Len(fs2)
  BY DEF SamePrefix
<1>2. /\ \A j \in 1 .. Len(fs) : fs[j].level \in Nat
      /\ \A j \in 1 .. Len(fs2) : fs2[j].level \in Nat
  <2>1. (\A j \in 1 .. Len(fs) : fs[j] \in FrameRecord)
        /\ (\A j \in 1 .. Len(fs2) : fs2[j] \in FrameRecord)
    OBVIOUS
  <2>2. QED BY <2>1 DEF FrameRecord
<1>3. /\ \A j \in 1 .. n : fs2[j] = fs[j]
      /\ \A j \in n + 1 .. Len(fs) : k < fs[j].level
      /\ \A j \in n + 1 .. Len(fs2) : k < fs2[j].level
      /\ cs2[i] = cs[i] /\ SameAt(m, m2, cs[i].ps)
  BY DEF SamePrefix
<1> DEFINE S  == {j \in DOMAIN fs : fs[j].level <= i}
           S2 == {j \in DOMAIN fs2 : fs2[j].level <= i}
<1>4. S \subseteq 1 .. n
  <2>1. ASSUME NEW j \in S PROVE j \in 1 .. n
    <3>1. j \in 1 .. Len(fs) /\ fs[j].level \in Nat /\ fs[j].level <= i BY <1>1, <1>2
    <3>2. j \notin n + 1 .. Len(fs) BY <1>1, <1>3, <3>1
    <3>3. QED BY <1>1, <3>1, <3>2
  <2>2. QED BY <2>1
<1>5. S2 \subseteq 1 .. n
  <2>1. ASSUME NEW j \in S2 PROVE j \in 1 .. n
    <3>1. j \in 1 .. Len(fs2) /\ fs2[j].level \in Nat /\ fs2[j].level <= i BY <1>1, <1>2
    <3>2. j \notin n + 1 .. Len(fs2) BY <1>1, <1>3, <3>1
    <3>3. QED BY <1>1, <3>1, <3>2
  <2>2. QED BY <2>1
<1>6. S2 = S BY <1>1, <1>3, <1>4, <1>5
<1>7. UpTo(fs2, i) = UpTo(fs, i)
  <2> HIDE DEF S, S2
  <2>1. UpTo(fs, i) = Max({0} \cup S) /\ UpTo(fs2, i) = Max({0} \cup S2) BY Zenon DEF UpTo, S, S2
  <2>2. QED BY <1>6, <2>1
<1> DEFINE b == UpTo(fs, i)
<1>8. b = 0 \/ b \in 1 .. n
  <2>1. {0} \cup S \subseteq 0 .. n
    <3> HIDE DEF S
    <3>1. QED BY <1>1, <1>4
  <2> HIDE DEF S
  <2>2. Max({0} \cup S) \in {0} \cup S BY <1>1, <2>1, Greatest
  <2>3. b = Max({0} \cup S) BY Zenon DEF UpTo, S
  <2> HIDE DEF b
  <2>4. QED BY <1>4, <2>2, <2>3
<1> HIDE DEF b, S, S2
<1>9. b # 0 => fs2[b] = fs[b] BY <1>3, <1>8
<1>10. FetchWord(m2, cs[i].ps) = FetchWord(m, cs[i].ps)
       /\ FetchWord(m2, cs[i].ps + 4) = FetchWord(m, cs[i].ps + 4)
  BY <1>3 DEF SameAt, Noted
<1>11. \A word, ps, ofs, sys :
         CallIn(c, fs2, cs2, i, b, word, ps, ofs, sys) = CallIn(c, fs, cs, i, b, word, ps, ofs, sys)
  <2> TAKE word, ps, ofs, sys
  <2>1. CASE b = 0 BY <1>3, <2>1 DEF CallIn
  <2>2. CASE b # 0 BY <1>3, <1>9, <2>2 DEF CallIn
  <2>3. QED BY <2>1, <2>2
<1>12. InnermostIn(c, m2, fs2, cs2, i) = InnermostIn(c, m, fs, cs, i)
  BY <1>3, <1>7, <1>10, <1>11 DEF InnermostIn, b
<1>13. QED BY <1>7, <1>12

LEMMA WaitingCarried ==
  ASSUME NEW c, NEW m, NEW fs, NEW cs, NEW m2, NEW fs2, NEW cs2, NEW k, NEW n,
         fs \in Seq(FrameRecord), fs2 \in Seq(FrameRecord), Len(cs) \in Nat, Len(cs2) \in Nat,
         SamePrefix(m, fs, cs, m2, fs2, cs2, k, n), NEW j \in 1 .. n
  PROVE  WaitingIn(c, fs2, cs2, j) = WaitingIn(c, fs, cs, j)
<1> DEFINE f == fs[j]
           i == j - 1
           l == f.level
           a == cs[l]
           b == cs2[l]
           first == i = 0 \/ fs[i].level # l
           bottom == IF first THEN 0 ELSE fs[i].base
<1>1. n \in Nat /\ n <= Len(fs) /\ Len(fs) \in Nat BY DEF SamePrefix
<1>2. /\ fs2[j] = fs[j] /\ \A x \in 1 .. n : fs2[x] = fs[x]
      /\ b.command = a.command /\ b.entry = a.entry
      /\ \A s \in 1 .. f.base : b.opStack[s] = a.opStack[s]
  BY DEF SamePrefix
<1>3. i # 0 => i \in 1 .. n /\ fs2[i] = fs[i] /\ fs[i] \in FrameRecord
  <2>1. i # 0 => i \in 1 .. n /\ i \in 1 .. Len(fs) BY <1>1
  <2>2. QED BY <1>2, <2>1
<1>4. f \in FrameRecord
  <2>1. j \in 1 .. Len(fs) BY <1>1
  <2>2. QED BY <2>1
<1>5. f.base \in Nat /\ bottom \in Nat
  <2>1. ASSUME NEW g \in FrameRecord PROVE g.base \in Nat BY Sizes DEF FrameRecord, Slots
  <2>2. f.base \in Nat /\ (i # 0 => fs[i].base \in Nat) BY <1>3, <1>4, <2>1
  <2> HIDE DEF f
  <2>3. QED BY <2>2
<1> DEFINE first2 == i = 0 \/ fs2[i].level # l
           bottom2 == IF first2 THEN 0 ELSE fs2[i].base
<1>6. first2 = first /\ bottom2 = bottom /\ (~ first => fs2[i].ps = fs[i].ps) BY <1>3
<1>7. fs2[j] = f BY <1>2
<1> DEFINE base  == IF first THEN a.entry - FrameBytes ELSE fs[i].ps
           base2 == IF first2 THEN b.entry - FrameBytes ELSE fs2[i].ps
           ops   == [s \in 1 .. f.base - bottom |-> a.opStack[bottom + s]]
           ops2  == [s \in 1 .. f.base - bottom2 |-> b.opStack[bottom2 + s]]
           cmd   == IF first THEN <<a.command>> ELSE <<>>
           cmd2  == IF first2 THEN <<b.command>> ELSE <<>>
<1>8. WaitingIn(c, fs2, cs2, j) =
        [pc |-> IndexIn(c, f.ret), ps |-> f.ps, base |-> base2, ops |-> ops2, sys |-> -1, cmd |-> cmd2]
  <2> HIDE DEF f
  <2>1. QED BY <1>7 DEF WaitingIn, CallIn
<1>9. WaitingIn(c, fs, cs, j) =
        [pc |-> IndexIn(c, f.ret), ps |-> f.ps, base |-> base, ops |-> ops, sys |-> -1, cmd |-> cmd]
  BY Zenon DEF WaitingIn, CallIn
<1> HIDE DEF f, a, b, first, bottom, first2, bottom2, i, l
<1>10. ops2 = ops
  <2>1. \A s \in 1 .. f.base - bottom : bottom + s \in 1 .. f.base BY <1>5
  <2>2. \A s \in 1 .. f.base - bottom : b.opStack[bottom + s] = a.opStack[bottom + s]
    BY <1>2, <2>1
  <2>3. QED BY <1>6, <2>2
<1>11. base2 = base /\ cmd2 = cmd BY <1>2, <1>6
<1> HIDE DEF base, base2, ops, ops2, cmd, cmd2
<1>12. QED BY <1>8, <1>9, <1>10, <1>11

LEMMA PrefixKept ==
  ASSUME NEW p, NEW c, NEW m, NEW fs, NEW cs, NEW m2, NEW fs2, NEW cs2, NEW k, NEW n,
         Nested(p, m, fs, cs), Nested(p, m2, fs2, cs2), SamePrefix(m, fs, cs, m2, fs2, cs2, k, n),
         Len(cs) <= k + 1
  PROVE  /\ k + n \in 0 .. Len(fs) + Len(cs) /\ k + n <= Len(fs2) + Len(cs2)
         /\ \A q \in 1 .. k + n : CallsIn(c, m2, fs2, cs2)[q] = CallsIn(c, m, fs, cs)[q]
<1> DEFINE s  == CallsIn(c, m, fs, cs)
           s2 == CallsIn(c, m2, fs2, cs2)
           N  == Len(fs)
           L  == Len(cs)
<1>1. /\ fs \in Seq(FrameRecord) /\ fs2 \in Seq(FrameRecord) /\ N \in Nat /\ L \in Nat
      /\ Len(fs2) \in Nat /\ Len(cs2) \in Nat
  BY NestedFacts DEF Nested
<1>2. /\ k \in Nat /\ k <= L /\ k <= Len(cs2) /\ n \in Nat /\ n <= N /\ n <= Len(fs2)
      /\ \A j \in 1 .. n : fs2[j] = fs[j]
      /\ \A j \in n + 1 .. N : k < fs[j].level
  BY <1>1 DEF SamePrefix
<1>3. k + n \in 0 .. N + L /\ k + n <= Len(fs2) + Len(cs2) BY <1>1, <1>2
<1> HIDE DEF s, s2
<1>4. ASSUME NEW q \in 1 .. k + n PROVE s2[q] = s[q]
  <2>1. q \in 1 .. N + L BY <1>1, <1>3
  <2>2. \/ \E i \in 1 .. L : q = UpTo(fs, i) + i
        \/ \E j \in 1 .. N : q = j + fs[j].level - 1
    BY <2>1, PlacesFilled
  <2>3. ASSUME NEW i \in 1 .. L, q = UpTo(fs, i) + i PROVE s2[q] = s[q]
    <3>1. CASE i <= k
      <4>1. i \in 1 .. k /\ i \in 1 .. Len(cs2) BY <1>1, <1>2, <3>1
      <4>2. /\ UpTo(fs2, i) = UpTo(fs, i)
            /\ InnermostIn(c, m2, fs2, cs2, i) = InnermostIn(c, m, fs, cs, i)
        BY <1>1, <4>1, InnermostCarried
      <4>3. s2[UpTo(fs2, i) + i] = InnermostIn(c, m2, fs2, cs2, i) BY <4>1, CallsPlaced DEF s2
      <4>4. s[UpTo(fs, i) + i] = InnermostIn(c, m, fs, cs, i) BY CallsPlaced DEF s
      <4>5. QED BY <2>3, <4>2, <4>3, <4>4
    <3>2. CASE k < i
      <4>1. i = L BY <1>1, <1>2, <3>2
      <4>2. UpTo(fs, L) = N
        <5>1. UpTo(fs, L) \in 0 .. N /\ Cut(fs, L, UpTo(fs, L)) BY <1>1, CutsAscend
        <5>2. QED BY <5>1, NestedFacts
      <4>3. q = N + L BY <2>3, <4>1, <4>2
      <4>4. QED BY <1>1, <1>2, <3>2, <4>1, <4>3
    <3>3. QED BY <1>1, <1>2, <3>1, <3>2
  <2>4. ASSUME NEW j \in 1 .. N, q = j + fs[j].level - 1 PROVE s2[q] = s[q]
    <3>1. fs[j].level \in Nat BY NestedFacts
    <3>2. CASE j <= n
      <4>1. j \in 1 .. n /\ j \in 1 .. Len(fs2) /\ fs2[j] = fs[j] BY <1>1, <1>2, <3>2
      <4>2. WaitingIn(c, fs2, cs2, j) = WaitingIn(c, fs, cs, j) BY <1>1, <4>1, WaitingCarried
      <4>3. s2[j + fs2[j].level - 1] = WaitingIn(c, fs2, cs2, j) BY <4>1, CallsPlaced DEF s2
      <4>4. s[j + fs[j].level - 1] = WaitingIn(c, fs, cs, j) BY CallsPlaced DEF s
      <4>5. QED BY <2>4, <4>1, <4>2, <4>3, <4>4
    <3>3. CASE n < j
      <4>1. j \in n + 1 .. N BY <1>1, <1>2, <3>3
      <4>2. k < fs[j].level BY <1>2, <4>1
      <4>3. QED BY <1>2, <2>4, <3>1, <3>3, <4>2
    <3>4. QED BY <1>2, <3>2, <3>3
  <2>5. QED BY <2>2, <2>3, <2>4
<1>5. QED BY <1>3, <1>4 DEF s, s2

-----------------------------------------------------------------------------
(* Sequences, and the operands of a call.                                  *)

\* Sequence f begins with the first k elements of g.
Begins(g, f, k) == \A i \in 1 .. k : f[i] = g[i]

LEMMA AsSequence ==
  ASSUME NEW D, NEW n \in Nat, NEW s, s \in [1 .. n -> D] PROVE s \in Seq(D) /\ Len(s) = n
OBVIOUS

LEMMA AsFunction ==
  ASSUME NEW D, NEW s \in Seq(D) PROVE s = [i \in 1 .. Len(s) |-> s[i]]
OBVIOUS

LEMMA OneAppended ==
  ASSUME NEW x \in Nat, NEW k \in 0 .. x, NEW g, g = [i \in 1 .. x |-> g[i]],
         NEW f, f = [i \in 1 .. k + 1 |-> f[i]], Begins(g, f, k)
  PROVE  f = Append(SubSeq(g, 1, k), f[k + 1])
<1> DEFINE S == {g[i] : i \in 1 .. x} \cup {f[k + 1]}
           h == SubSeq(g, 1, k)
<1>1. g \in [1 .. x -> S] OBVIOUS
<1> HIDE DEF S
<1>2. g \in Seq(S) /\ Len(g) = x BY <1>1, AsSequence
<1>3. h \in Seq(S) /\ Len(h) = k /\ \A i \in 1 .. k : h[i] = g[i]
  BY <1>2
<1>4. f[k + 1] \in S BY DEF S
<1> DEFINE e == f[k + 1]
<1> HIDE DEF S, h, e
<1>5. e \in S BY <1>4 DEF e
<1>6. /\ Append(h, e) \in Seq(S) /\ Len(Append(h, e)) = k + 1 /\ Append(h, e)[k + 1] = e
      /\ \A i \in 1 .. k : Append(h, e)[i] = h[i]
  BY <1>3, <1>5
<1> DEFINE r == Append(h, e)
<1> HIDE DEF r
<1>7. r = [i \in 1 .. k + 1 |-> r[i]]
  <2>1. r \in Seq(S) /\ Len(r) = k + 1 BY <1>6 DEF r
  <2>2. QED BY <2>1, AsFunction
<1>8. \A i \in 1 .. k + 1 : r[i] = f[i]
  <2>1. \A i \in 1 .. k + 1 : i \in 1 .. k \/ i = k + 1 OBVIOUS
  <2>2. QED BY <1>3, <1>6, <2>1 DEF Begins, e, r
<1>9. QED BY <1>7, <1>8 DEF h, e, r

LEMMA NoneAppended ==
  ASSUME NEW x \in Nat, NEW k \in 0 .. x, NEW g, g = [i \in 1 .. x |-> g[i]],
         NEW f, f = [i \in 1 .. k |-> f[i]], Begins(g, f, k)
  PROVE  f = SubSeq(g, 1, k)
<1> DEFINE S == {g[i] : i \in 1 .. x}
           h == SubSeq(g, 1, k)
<1>1. g \in [1 .. x -> S] OBVIOUS
<1> HIDE DEF S
<1>2. g \in Seq(S) /\ Len(g) = x BY <1>1, AsSequence
<1>3. h \in Seq(S) /\ Len(h) = k /\ \A i \in 1 .. k : h[i] = g[i]
  BY <1>2
<1> HIDE DEF S, h
<1>4. h = [i \in 1 .. k |-> h[i]] BY <1>3, AsFunction
<1>5. QED BY <1>3, <1>4 DEF Begins, h

\* The n operands that lie above slot b.
Ops(st, b, n) == [s \in 1 .. n |-> st[b + s]]

LEMMA OpsTyped ==
  ASSUME NEW st \in [Slots -> Word], NEW b \in Nat, NEW n \in Nat, b + n \in Slots
  PROVE  /\ Ops(st, b, n) \in Seq(Word) /\ Len(Ops(st, b, n)) = n
         /\ \A s \in 1 .. n : Ops(st, b, n)[s] = st[b + s]
<1>1. \A s \in 1 .. n : b + s \in Slots BY Sizes DEF Slots
<1>2. Ops(st, b, n) \in [1 .. n -> Word] BY <1>1 DEF Ops
<1>3. \A s \in 1 .. n : Ops(st, b, n)[s] = st[b + s] BY DEF Ops
<1> DEFINE o == Ops(st, b, n)
<1> HIDE DEF o
<1>4. o \in Seq(Word) /\ Len(o) = n BY <1>2, AsSequence DEF o
<1>5. QED BY <1>3, <1>4 DEF o

LEMMA OpsDropped ==
  ASSUME NEW st, NEW b \in Nat, NEW n \in Nat, NEW k \in 0 .. n
  PROVE  SubSeq(Ops(st, b, n), 1, k) = Ops(st, b, k)
<1> DEFINE g == Ops(st, b, n)
           f == Ops(st, b, k)
<1>1. g = [i \in 1 .. n |-> g[i]] /\ f = [i \in 1 .. k |-> f[i]] BY DEF Ops
<1>2. Begins(g, f, k) BY DEF Ops, Begins
<1> HIDE DEF f, g
<1>3. f = SubSeq(g, 1, k) BY <1>1, <1>2, NoneAppended
<1>4. QED BY <1>3 DEF f, g

\* The first k of these operands are the same.
Alike(st, st2, b, k) == \A s \in 1 .. k : st2[b + s] = st[b + s]

LEMMA OpsPushed ==
  ASSUME NEW st, NEW st2, NEW b \in Nat, NEW k \in Nat, Alike(st, st2, b, k)
  PROVE  Append(Ops(st, b, k), st2[b + k + 1]) = Ops(st2, b, k + 1)
<1> DEFINE g == Ops(st, b, k)
           f == Ops(st2, b, k + 1)
<1>1. g = [i \in 1 .. k |-> g[i]] /\ f = [i \in 1 .. k + 1 |-> f[i]] BY DEF Ops
<1>2. ASSUME NEW i \in 1 .. k PROVE f[i] = g[i]
  <2>1. f[i] = st2[b + i] /\ g[i] = st[b + i] BY DEF Ops
  <2>2. st2[b + i] = st[b + i] BY Zenon DEF Alike
  <2>3. QED BY <2>1, <2>2
<1>3. f[k + 1] = st2[b + k + 1] BY DEF Ops
<1>4. SubSeq(g, 1, k) = g BY OpsDropped
<1> HIDE DEF f, g
<1>7. Begins(g, f, k) BY <1>2 DEF Begins
<1>5. k \in 0 .. k OBVIOUS
<1>6. f = Append(SubSeq(g, 1, k), f[k + 1]) BY <1>1, <1>5, <1>7, OneAppended
<1>8. QED BY <1>3, <1>4, <1>6 DEF f, g

\* The command of a call the host has made.
CommandOf(fs, cs, k, n) == IF n > 0 /\ fs[n].level = k THEN <<>> ELSE <<cs[k].command>>

LEMMA CallForm ==
  ASSUME NEW c, NEW fs, NEW cs, NEW k, NEW n \in Nat, NEW word, NEW ps, NEW ofs, NEW sys
  PROVE  CallIn(c, fs, cs, k, n, word, ps, ofs, sys) =
           [pc |-> IndexIn(c, word), ps |-> ps, base |-> Below(fs, cs, k, n),
            ops |-> Ops(cs[k].opStack, BaseOf(fs, k, n), ofs - BaseOf(fs, k, n)),
            sys |-> sys, cmd |-> CommandOf(fs, cs, k, n)]
<1>1. CASE n > 0 /\ fs[n].level = k
  <2>1. ~ (n = 0 \/ fs[n].level # k) BY <1>1
  <2>2. QED BY <1>1, <2>1 DEF CallIn, Below, BaseOf, CommandOf, Ops
<1>2. CASE ~ (n > 0 /\ fs[n].level = k)
  <2>1. n = 0 \/ fs[n].level # k BY <1>2
  <2>2. QED BY <1>2, <2>1 DEF CallIn, Below, BaseOf, CommandOf, Ops, Begin
<1>3. QED BY <1>1, <1>2

LEMMA LastPlace ==
  ASSUME NEW p, NEW m, NEW fs, NEW cs, Nested(p, m, fs, cs) PROVE UpTo(fs, Len(cs)) = Len(fs)
<1>1. Len(cs) \in Nat BY NestedFacts
<1>2. UpTo(fs, Len(cs)) \in 0 .. Len(fs) /\ Cut(fs, Len(cs), UpTo(fs, Len(cs))) BY <1>1, CutsAscend
<1>3. QED BY <1>2, NestedFacts

\* The last of the calls.
LEMMA LastCall ==
  ASSUME NEW p, NEW c, NEW m, NEW fs, NEW cs, Nested(p, m, fs, cs), Len(cs) > 0
  PROVE  LET L == Len(cs)
             N == Len(fs)
             a == cs[L]
             s == CallsIn(c, m, fs, cs)
         IN  /\ L \in Nat /\ N \in Nat /\ s = [n \in 1 .. N + L |-> s[n]]
             /\ s[N + L] =
                  [pc |-> IndexIn(c, IF a.inSyscall THEN FetchWord(m, a.ps) ELSE a.pc),
                   ps |-> a.ps, base |-> Below(fs, cs, L, N),
                   ops |-> Ops(a.opStack, BaseOf(fs, L, N), a.ofs - BaseOf(fs, L, N)),
                   sys |-> IF a.inSyscall THEN Noted(m, a.ps) ELSE -1,
                   cmd |-> CommandOf(fs, cs, L, N)]
<1> DEFINE L == Len(cs)
           N == Len(fs)
           s == CallsIn(c, m, fs, cs)
<1>1. L \in Nat /\ N \in Nat /\ L \in 1 .. L BY NestedFacts
<1>2. s = [n \in 1 .. N + L |-> s[n]] BY CallsPlaced
<1>3. s[N + L] = InnermostIn(c, m, fs, cs, L) BY <1>1, LastPlace, CallsPlaced
<1>4. CASE cs[L].inSyscall
  <2>1. s[N + L] = CallIn(c, fs, cs, L, N, FetchWord(m, cs[L].ps), cs[L].ps, cs[L].ofs, Noted(m, cs[L].ps))
    BY <1>3, <1>4, LastPlace DEF InnermostIn, Noted
  <2>2. QED BY <1>1, <1>2, <1>4, <2>1, CallForm
<1>5. CASE ~ cs[L].inSyscall
  <2>1. s[N + L] = CallIn(c, fs, cs, L, N, cs[L].pc, cs[L].ps, cs[L].ofs, -1)
    BY <1>3, <1>5, LastPlace DEF InnermostIn, Noted
  <2>2. QED BY <1>1, <1>2, <1>5, <2>1, CallForm
<1>6. QED BY <1>4, <1>5

LEMMA SameWords ==
  /\ Q!Word = Word
  /\ \A x : Q!Signed(x) = Signed(x)
  /\ \A m, a, n : Q!Within(m, a, n) = Within(m, a, n)
  /\ \A m, a : Q!Fetch1(m, a) = Fetch1(m, a) /\ Q!Fetch2(m, a) = Fetch2(m, a)
  /\ \A m, a : Q!FetchWord(m, a) = FetchWord(m, a)
  /\ \A m, a, n, x : Q!Put(m, a, n, x) = Put(m, a, n, x)
  /\ \A m, d, c, n : Q!Copied(m, d, c, n) = Copied(m, d, c, n)
  /\ \A m, w : Q!Overwritten(m, w) = Overwritten(m, w)
<1>1. Q!Word = Word BY Zenon DEF Q!Word, Word, Q!HalfMod, HalfMod, Q!WordBits, WordBits
<1>2. \A x : Q!Signed(x) = Signed(x)
  BY Zenon DEF Q!Signed, Signed, Q!WordMod, WordMod, Q!HalfMod, HalfMod, Q!WordBits, WordBits
<1>3. \A m, a, n : Q!Within(m, a, n) = Within(m, a, n) BY Zenon DEF Q!Within, Within
<1>4. \A m, a : Q!Fetch1(m, a) = Fetch1(m, a) /\ Q!Fetch2(m, a) = Fetch2(m, a)
  BY Zenon DEF Q!Fetch1, Fetch1, Q!Fetch2, Fetch2, Q!ByteMod, ByteMod
<1>5. \A m, a : Q!FetchWord(m, a) = FetchWord(m, a)
  BY Zenon DEF Q!Fetch2, Fetch2, Q!ByteMod, ByteMod, Q!FetchWord, FetchWord,
    Q!Signed, Signed, Q!WordMod, WordMod, Q!HalfMod, HalfMod, Q!WordBits, WordBits
<1>6. \A m, a, n, x : Q!Put(m, a, n, x) = Put(m, a, n, x)
  BY Zenon DEF Q!Put, Put, Q!ByteOf, ByteOf, Q!Unsigned, Unsigned, Q!ByteMod, ByteMod, 
    Q!WordMod, WordMod, Q!WordBits, WordBits
<1>7. \A m, d, c, n : Q!Copied(m, d, c, n) = Copied(m, d, c, n) BY Zenon DEF Q!Copied, Copied
<1>8. \A m, w : Q!Overwritten(m, w) = Overwritten(m, w) BY Zenon DEF Q!Overwritten, Overwritten
<1>9. QED BY Zenon, <1>1, <1>2, <1>3, <1>4, <1>5, <1>6, <1>7, <1>8

LEMMA SameBitwise ==
  \A x, y, o : Q!Bitwise2(x, y, o) = Bitwise2(x, y, o)
BY Zenon DEF Q!Bitwise2, Bitwise2, Q!MapThenSumSet, MapThenSumSet,
    Q!Bit, Bit, Q!Unsigned, Unsigned, Q!MapThenFoldSet, MapThenFoldSet, Q!WordMod, WordMod, Q!WordBits, WordBits,
    Q!Signed, Signed, Q!HalfMod, HalfMod

LEMMA SameInstructions ==
  /\ Q!Load = Load /\ Q!Store = Store /\ Q!CondBranch = CondBranch /\ Q!Division = Division
  /\ Q!IntUnary = IntUnary /\ Q!FloatUnary = FloatUnary
  /\ Q!IntBinary = IntBinary /\ Q!FloatBinary = FloatBinary
  /\ \A p, i : Q!Op(p, i) = Op(p, i) /\ Q!Arg(p, i) = Arg(p, i)
  /\ \A p : Q!Indices(p) = Indices(p)
  /\ \A p, i, t : Q!SameFunction(p, i, t) <=> SameFunction(p, i, t)
  /\ Q!StackBottom = StackBottom /\ Q!FrameBytes = FrameBytes
  /\ \A x : Q!Masked(x) = Masked(x)
<1>1. Q!Load = Load /\ Q!Store = Store BY Zenon DEF Q!Load, Load, Q!Store, Store
<1>2. Q!CondBranch = CondBranch
  BY Zenon DEF Q!CondBranch, CondBranch, Q!IntBranch, IntBranch, Q!FloatBranch, FloatBranch
<1>3. Q!Division = Division BY Zenon DEF Q!Division, Division
<1>4. Q!IntUnary = IntUnary /\ Q!FloatUnary = FloatUnary
  BY Zenon DEF Q!IntUnary, IntUnary, Q!FloatUnary, FloatUnary
<1>5. Q!IntBinary = IntBinary /\ Q!FloatBinary = FloatBinary
  BY Zenon DEF Q!IntBinary, IntBinary, Q!FloatBinary, FloatBinary
<1>6. \A p, i : Q!Op(p, i) = Op(p, i) /\ Q!Arg(p, i) = Arg(p, i)
  BY Zenon DEF Q!Op, Op, Q!Arg, Arg
<1>7. \A p : Q!Indices(p) = Indices(p) BY Zenon DEF Q!Indices, Indices
<1>8. \A p, i, t : Q!SameFunction(p, i, t) <=> SameFunction(p, i, t)
  BY Zenon DEF Q!SameFunction, SameFunction, Q!Indices, Indices, Q!Op, Op
<1>9. Q!StackBottom = StackBottom /\ Q!FrameBytes = FrameBytes /\ \A x : Q!Masked(x) = Masked(x)
  BY Zenon DEF Q!StackBottom, StackBottom, Q!FrameBytes, FrameBytes, Q!Masked, Masked
<1>10. QED BY Zenon, <1>1, <1>2, <1>3, <1>4, <1>5, <1>6, <1>7, <1>8, <1>9

LEMMA SameArithmetic ==
  /\ \A op, x : Q!UnaryResult(op, x) = UnaryResult(op, x)
  /\ \A op, x, y : Q!Traps(op, x, y) <=> Traps(op, x, y)
  /\ \A op, x, y : Q!Holds(op, x, y) = Holds(op, x, y)
  /\ \A op \in IntBinary \cup FloatBinary : \A x, y : Q!BinaryResult(op, x, y) = BinaryResult(op, x, y)
<1>1. \A x : Q!Unsigned(x) = Unsigned(x)
  BY Zenon DEF Q!Unsigned, Unsigned, Q!WordMod, WordMod, Q!WordBits, WordBits
<1>2. \A x : Q!Signed(x) = Signed(x) BY SameWords
<1>3. Q!FloatBinary = FloatBinary /\ Q!FloatUnary = FloatUnary /\ Q!Division = Division
  BY SameInstructions
<1>4. Q!FloatBranch = FloatBranch BY Zenon DEF Q!FloatBranch, FloatBranch
<1>5. \A op, x : Q!UnaryResult(op, x) = UnaryResult(op, x)
  BY Zenon DEF Q!UnaryResult, UnaryResult, Q!Signed, Signed, Q!WordMod, WordMod, Q!HalfMod, HalfMod,
       Q!WordBits, WordBits, Q!SignExtend, SignExtend, Q!FloatUnary, FloatUnary
<1>6. \A op, x, y : Q!Traps(op, x, y) <=> Traps(op, x, y)
  BY Zenon DEF Q!Traps, Traps, Q!Division, Division, Q!HalfMod, HalfMod, Q!WordBits, WordBits
<1>7. \A op, x, y : Q!Holds(op, x, y) = Holds(op, x, y)
  BY Zenon DEF Q!Holds, Holds, Q!Unsigned, Unsigned, Q!WordMod, WordMod, Q!WordBits, WordBits,
       Q!FloatBranch, FloatBranch
<1>8. ASSUME NEW op \in IntBinary, NEW x, NEW y PROVE Q!IntResult(op, x, y) = IntResult(op, x, y)
  <2>1. \A u, v : Q!Quotient(u, v) = Quotient(u, v)
    BY Zenon DEF Q!Quotient, Quotient, Q!Magnitude, Magnitude
  <2>2. \A u : Q!ShiftCount(u) = ShiftCount(u)
    BY Zenon DEF Q!ShiftCount, ShiftCount, Q!WordBits, WordBits
  <2>3. \A u, v, o : Q!Bitwise2(u, v, o) = Bitwise2(u, v, o) BY SameBitwise
  <2>4. QED BY <1>1, <1>2, <2>1, <2>2, <2>3 DEF Q!IntResult, IntResult, IntBinary
<1>9. ASSUME NEW op \in IntBinary \cup FloatBinary, NEW x, NEW y
      PROVE  Q!BinaryResult(op, x, y) = BinaryResult(op, x, y)
  BY <1>3, <1>8 DEF Q!BinaryResult, BinaryResult
<1>10. QED BY Zenon, <1>5, <1>6, <1>7, <1>9

-----------------------------------------------------------------------------
(* What Qvm sees of a state.                                               *)

Good == Proper /\ Specified /\ Alive

\* The calls and activations are right as long as the process runs.
NestedNow == status = "ok" => Nested(prog, image, frames, acts)

LEMMA PlaceFound ==
  ASSUME TypeInv, NEW i \in Indices(Insns) PROVE IndexIn(code, Place(prog, i)) = i
<1> DEFINE W == WordsBefore(Insns)
           n == Len(Insns)
<1>1. n \in Nat BY CodeTyped
<1>2. Ascends(W, n) BY <1>1, WordsAscend
<1>3. code = Expanded(Insns) BY DEF TypeInv, Insns
<1>4. /\ DOMAIN code.pointers = 0 .. n - 1 /\ Indices(Insns) = 0 .. n - 1
      /\ \A j \in 0 .. n - 1 : code.pointers[j] = W[j] /\ Place(prog, j) = W[j]
  BY <1>3 DEF Expanded, Indices, Place, Insns
<1> HIDE DEF W, n
<1>5. ASSUME NEW j \in 0 .. n - 1, NEW k \in 0 .. n - 1, j < k PROVE W[j] < W[k]
  <2>1. j + 1 \in 0 .. n /\ k \in 0 .. n /\ j \in 0 .. n /\ j + 1 <= k BY <1>1, <1>5
  <2>2. W[j + 1] <= W[k] BY <1>1, <1>2, <2>1, AscendsFar
  <2>3. W[j] \in Nat /\ W[j + 1] \in Nat /\ W[k] \in Nat /\ W[j] < W[j + 1]
    BY <1>2, <2>1 DEF Ascends
  <2>4. QED BY <2>2, <2>3
<1>6. ASSUME NEW j \in 0 .. n - 1, W[j] = W[i] PROVE j = i
  <2>1. i \in 0 .. n - 1 BY <1>4
  <2>2. ~ (j < i) /\ ~ (i < j)
    <3>1. ASSUME NEW x \in 0 .. n - 1 PROVE W[x] \in Nat
      <4>1. x \in 0 .. n BY <1>1
      <4>2. QED BY <1>2, <4>1 DEF Ascends
    <3>2. W[i] \in Nat BY <2>1, <3>1
    <3>3. QED BY <1>5, <1>6, <2>1, <3>2
  <2>3. QED BY <1>1, <2>1, <2>2
<1>7. i \in DOMAIN code.pointers /\ code.pointers[i] = Place(prog, i) BY <1>4
<1>8. \A j \in DOMAIN code.pointers : code.pointers[j] = Place(prog, i) => j = i BY <1>4, <1>6
<1>9. QED BY <1>7, <1>8 DEF IndexIn

LEMMA SeenCalls ==
  ASSUME Sound, Alive
  PROVE  /\ QvmStatus = "ok" /\ QvmCalls = CallsIn(code, image, frames, acts)
         /\ Calls + Level \in Nat /\ Len(QvmCalls) = Calls + Level
         /\ QvmCalls = [n \in 1 .. Calls + Level |-> QvmCalls[n]]
         /\ Q!Callers = SubSeq(QvmCalls, 1, (Calls + Level) - 1)
         /\ Level > 0 => QvmCalls # <<>> /\ Q!Top = QvmCalls[Calls + Level]
         /\ Level = 0 => QvmCalls = <<>>
<1> DEFINE K == Calls + Level
           s == CallsIn(code, image, frames, acts)
           D == {s[n] : n \in 1 .. K}
<1>1. Calls \in Nat /\ Level \in Nat /\ K \in Nat BY SoundFacts
<1>2. QvmCalls = s /\ QvmStatus = "ok" BY CallsSeen DEF Alive
<1>3. s = [n \in 1 .. K |-> s[n]] BY SoundFacts, CallsPlaced DEF Calls, Level
<1> HIDE DEF s, K
<1>4. s \in [1 .. K -> D] BY <1>3
<1> HIDE DEF D
<1>5. s \in Seq(D) /\ Len(s) = K BY <1>1, <1>4, AsSequence
<1>6. Q!Callers = SubSeq(s, 1, K - 1) BY <1>2, <1>5 DEF Q!Callers
<1>7. Level > 0 => K > 0 BY <1>1 DEF K
<1>8. Level > 0 => s # <<>> /\ Q!Top = s[K] BY <1>1, <1>2, <1>5, <1>7 DEF Q!Top
<1>9. ASSUME Level = 0 PROVE s = <<>>
  <2>1. \A j \in 1 .. Calls : frames[j].level \in 1 .. Level /\ frames[j].level \in Nat
    BY NestedFacts, SoundFacts DEF Calls
  <2>2. Calls = 0 BY <1>1, <1>9, <2>1
  <2>3. Len(s) = 0 BY <1>5, <1>9, <2>2 DEF K
  <2>4. QED BY <1>5, <2>3
<1>10. QED BY <1>1, <1>2, <1>3, <1>5, <1>6, <1>8, <1>9 DEF K, s

\* The innermost call as Qvm sees it: c is the code, m the memory.
CallSeen(c, m, fs, cs) ==
  LET L == Len(cs)
      N == Len(fs)
      a == cs[L]
  IN  [pc |-> IndexIn(c, IF a.inSyscall THEN FetchWord(m, a.ps) ELSE a.pc),
       ps |-> a.ps, base |-> Below(fs, cs, L, N),
       ops |-> Ops(a.opStack, BaseOf(fs, L, N), a.ofs - BaseOf(fs, L, N)),
       sys |-> IF a.inSyscall THEN Noted(m, a.ps) ELSE -1,
       cmd |-> CommandOf(fs, cs, L, N)]

\* The call that is the last one becomes another.
LEMMA LastReplaced ==
  ASSUME Sound, Alive, Alive', NestedNow', Level > 0, status' = "ok", prog' = prog, code' = code,
         Level' = Level, Len(frames') = Calls,
         SamePrefix(image, frames, acts, image', frames', acts', Level - 1, Calls)
  PROVE  QvmCalls' = Append(Q!Callers, CallSeen(code, image', frames', acts'))
<1> DEFINE m2  == image'
           fs2 == frames'
           cs2 == acts'
           s   == CallsIn(code, image, frames, acts)
           s2  == CallsIn(code, m2, fs2, cs2)
           K   == Calls + Level
<1>1. /\ QvmCalls = s /\ K \in Nat /\ s = [n \in 1 .. K |-> s[n]]
      /\ Q!Callers = SubSeq(s, 1, K - 1)
  <2>1. QvmCalls = s /\ K \in Nat BY SeenCalls
  <2>2. QvmCalls = [n \in 1 .. K |-> QvmCalls[n]] /\ Q!Callers = SubSeq(QvmCalls, 1, K - 1)
    BY SeenCalls
  <2> HIDE DEF s, K
  <2>3. QED BY <2>1, <2>2
<1>2. QvmCalls' = s2 BY CallsSeenNext
<1>3. Nested(prog, image, frames, acts) /\ Calls \in Nat /\ Level \in Nat BY SoundFacts
<1>4. Nested(prog, m2, fs2, cs2) BY DEF NestedNow
<1>5. Len(fs2) = Calls /\ Len(cs2) = Level BY DEF Level
<1> HIDE DEF m2, fs2, cs2
<1>6. /\ s2 = [n \in 1 .. K |-> s2[n]] /\ s2[K] = CallSeen(code, m2, fs2, cs2)
  BY <1>4, <1>5, LastCall DEF CallSeen
<1>7. \A q \in 1 .. K - 1 : s2[q] = s[q]
  <2>1. SamePrefix(image, frames, acts, m2, fs2, cs2, Level - 1, Calls)
    BY DEF m2, fs2, cs2
  <2>2. Len(acts) <= (Level - 1) + 1 BY <1>3 DEF Level
  <2>3. (Level - 1) + Calls = K - 1 BY <1>3
  <2> DEFINE k == Level - 1
  <2> HIDE DEF k
  <2>4. \A q \in 1 .. k + Calls : s2[q] = s[q] BY <1>3, <1>4, <2>1, <2>2, PrefixKept DEF k
  <2>5. QED BY <2>3, <2>4 DEF k
<1> HIDE DEF s, s2
<1> DEFINE k == K - 1
<1>8. k \in 0 .. K /\ k + 1 = K BY <1>1, <1>3
<1> HIDE DEF k, K
<1>9. s2 = [n \in 1 .. k + 1 |-> s2[n]] /\ Begins(s, s2, k) BY <1>6, <1>7, <1>8 DEF Begins, k
<1>10. s2 = Append(SubSeq(s, 1, k), s2[k + 1]) BY <1>1, <1>8, <1>9, OneAppended
<1>11. QED BY <1>1, <1>2, <1>6, <1>8, <1>10 DEF k, m2, fs2, cs2

\* The innermost activation becomes b.
LEMMA TopGoes ==
  ASSUME Good, NestedNow', Level > 0, NEW b, acts' = [acts EXCEPT ![Level] = b],
         b.entry = A.entry, b.command = A.command,
         \A s \in 1 .. BaseOf(frames, Level, Calls) : b.opStack[s] = A.opStack[s],
         prog' = prog, code' = code, frames' = frames, status' = "ok",
         SameOwned(image, image', frames, acts), b.inSyscall \/ (b.ps \in Int /\ b.ps > StackBottom)
  PROVE  /\ Alive' /\ QvmStatus' = "ok" /\ QvmStatus = "ok"
         /\ QvmCalls' =
              Append(Q!Callers,
                     Q!Call(IndexIn(code, IF b.inSyscall THEN FetchWord(image', b.ps) ELSE b.pc),
                            b.ps, Below(frames, acts, Level, Calls),
                            Ops(b.opStack, BaseOf(frames, Level, Calls),
                                b.ofs - BaseOf(frames, Level, Calls)),
                            IF b.inSyscall THEN Noted(image', b.ps) ELSE -1,
                            CommandOf(frames, acts, Level, Calls)))
<1> DEFINE L == Level
           N == Calls
           B == BaseOf(frames, L, N)
<1>1. /\ Sound /\ Alive /\ Nested(prog, image, frames, acts) /\ L \in Nat /\ L = Len(acts)
      /\ N \in Nat /\ N = Len(frames) /\ DOMAIN acts = 1 .. L /\ L \in 1 .. L
      /\ acts \in Seq(ActivationRecord) /\ WellFormed(prog.insns, prog.depth)
  BY SoundFacts DEF Good, Proper, Calls, Insns
<1>2. Len(acts') = L BY <1>1
<1>3. Level' = L BY <1>2 DEF Level
<1>4. A = acts[L] BY DEF A
<1> HIDE DEF L, N, B
<1>5. acts'[L] = b /\ (\A k \in 1 .. L : k # L => acts'[k] = acts[k]) BY <1>1 DEF L
<1>6. A' = b BY <1>3, <1>5 DEF A
<1>7. ~ Overflown' BY <1>6, Sizes DEF Overflown, StackBottom
<1>8. Alive' /\ QvmStatus' = "ok" BY <1>7 DEF Alive, QvmStatus
<1>9. \A j \in 1 .. N : frames[j].level \in 1 .. L /\ frames[j].level \in Nat
                        /\ (frames[j].level = L => frames[j].base <= B /\ frames[j].base \in Nat)
  <2>1. \A j \in 1 .. N : frames[j] \in FrameRecord /\ frames[j].level \in 1 .. L
    BY <1>1, NestedFacts
  <2>2. \A j \in 1 .. N : frames[j].base \in Nat /\ frames[j].level \in Nat
    BY <1>1, <2>1, Sizes DEF FrameRecord, Slots
  <2>3. \A j \in 1 .. N : frames[j].level = L => frames[j].base <= B
    BY <1>1, LastAbove DEF B
  <2>4. QED BY <2>1, <2>2, <2>3
<1>10. SamePrefix(image, frames, acts, image', frames', acts', L - 1, N)
  <2> DEFINE cs2 == acts'
  <2>1. L - 1 \in 0 .. L /\ L - 1 <= Len(cs2) /\ N \in 0 .. N BY <1>1, <1>2
  <2>2. \A i \in 1 .. L - 1 : cs2[i] = acts[i] /\ SameAt(image, image', acts[i].ps)
    <3>1. \A i \in 1 .. L - 1 : i \in 1 .. L /\ i # L BY <1>1
    <3>2. \A i \in 1 .. L - 1 : SameAt(image, image', acts[i].ps) BY <1>1 DEF SameOwned
    <3>3. QED BY <1>5, <3>1, <3>2
  <2>3. ASSUME NEW j \in 1 .. N
        PROVE  LET k == frames[j].level
               IN  /\ cs2[k].command = acts[k].command /\ cs2[k].entry = acts[k].entry
                   /\ \A s \in 1 .. frames[j].base : cs2[k].opStack[s] = acts[k].opStack[s]
    <3> DEFINE k == frames[j].level
    <3>1. CASE k = L
      <4>1. frames[j].base <= B /\ frames[j].base \in Nat /\ B \in Nat
        <5>1. N > 0 => N \in 1 .. N BY <1>1
        <5>2. B \in Nat
          <6>1. \A i \in 1 .. N : frames[i] \in FrameRecord BY <1>1, NestedFacts
          <6>2. QED BY <5>1, <6>1, <1>1, Sizes DEF B, BaseOf, FrameRecord, Slots
        <5>3. QED BY <1>9, <3>1, <5>2
      <4>2. \A s \in 1 .. frames[j].base : s \in 1 .. B BY <4>1
      <4>3. QED BY <1>4, <1>5, <3>1, <4>2 DEF B, L, N
    <3>2. CASE k # L BY <1>5, <1>9, <3>2
    <3>3. QED BY <3>1, <3>2
  <2>4. \A j \in 1 .. N : frames'[j] = frames[j] OBVIOUS
  <2>5. Len(frames') = N /\ N + 1 .. N = {} BY <1>1
  <2> HIDE DEF cs2
  <2>6. SamePrefix(image, frames, acts, image', frames', cs2, L - 1, N)
    BY <1>1, <2>1, <2>2, <2>3, <2>4, <2>5 DEF SamePrefix
  <2>7. QED BY <2>6 DEF cs2
<1>11. QvmCalls' = Append(Q!Callers, CallSeen(code, image', frames', acts'))
  <2>1. Len(frames') = Calls BY DEF Calls
  <2>2. QED BY <1>1, <1>3, <1>8, <1>10, <2>1, LastReplaced DEF L, N
<1>12. CallSeen(code, image', frames', acts') =
         Q!Call(IndexIn(code, IF b.inSyscall THEN FetchWord(image', b.ps) ELSE b.pc),
                b.ps, Below(frames, acts, L, N), Ops(b.opStack, B, b.ofs - B),
                IF b.inSyscall THEN Noted(image', b.ps) ELSE -1, CommandOf(frames, acts, L, N))
  <2> DEFINE cs2 == acts'
             fs2 == frames'
             m2 == image'
  <2>1. Len(cs2) = L /\ Len(fs2) = N /\ cs2[L] = b BY <1>1, <1>2, <1>5
  <2>2. Below(fs2, cs2, L, N) = Below(frames, acts, L, N) BY <1>4, <2>1 DEF Below, Begin, L
  <2>3. CommandOf(fs2, cs2, L, N) = CommandOf(frames, acts, L, N) BY <1>4, <2>1 DEF CommandOf, L
  <2>4. BaseOf(fs2, L, N) = B BY DEF BaseOf, B
  <2> DEFINE base == Below(frames, acts, L, N)
             cmd  == CommandOf(frames, acts, L, N)
  <2> HIDE DEF cs2, fs2, m2, base, cmd
  <2>5. CallSeen(code, m2, fs2, cs2) =
         Q!Call(IndexIn(code, IF b.inSyscall THEN FetchWord(m2, b.ps) ELSE b.pc),
                b.ps, base, Ops(b.opStack, B, b.ofs - B),
                IF b.inSyscall THEN Noted(m2, b.ps) ELSE -1, cmd)
    BY <2>1, <2>2, <2>3, <2>4 DEF CallSeen, base, cmd, Q!Call
  <2>6. QED BY <2>5 DEF cs2, fs2, m2, base, cmd
<1>13. QED BY <1>1, <1>8, <1>11, <1>12 DEF L, N, B, Alive

-----------------------------------------------------------------------------
(* The instruction that is next.                                           *)

LEMMA SeenHere ==
  ASSUME Good, Running, NEW e \in Indices(Insns), NEW i \in Indices(Insns), Here(e, i)
  PROVE  /\ Q!Top = Q!Call(i, A.ps, Below(frames, acts, Level, Calls),
                           Ops(A.opStack, BaseOf(frames, Level, Calls), prog.depth[i]),
                           -1, CommandOf(frames, acts, Level, Calls))
         /\ QvmStatus = "ok" /\ QvmCalls # <<>>
<1> DEFINE L == Level
           N == Calls
           B == BaseOf(frames, L, N)
           d == prog.depth[i]
           base == Below(frames, acts, L, N)
           cmd  == CommandOf(frames, acts, L, N)
<1>1. /\ Sound /\ Alive /\ TypeInv /\ Nested(prog, image, frames, acts) /\ L = Len(acts) /\ N = Len(frames)
      /\ L > 0 /\ ~ A.inSyscall
  BY SoundFacts DEF Good, Proper, Sound, Calls, Running
<1>2. A.pc = Place(prog, i) /\ A.ofs = B + d BY DEF Here, RunsAt, A
<1>3. B \in Nat
  <2>1. N > 0 => frames[N] \in FrameRecord
    <3>1. N \in Nat /\ (N > 0 => N \in 1 .. N) BY SoundFacts, <1>1
    <3>2. QED BY <1>1, <3>1, NestedFacts
  <2>2. QED BY <2>1, Sizes DEF BaseOf, FrameRecord, Slots
<1>4. d \in Nat BY <1>1, SoundFacts DEF WellFormed
<1>5. A.ofs - B = d BY <1>2, <1>3, <1>4
<1>6. IndexIn(code, A.pc) = i BY <1>1, <1>2, PlaceFound
<1>7. QvmStatus = "ok" /\ QvmCalls # <<>> /\ Q!Top = CallsIn(code, image, frames, acts)[N + L]
  BY <1>1, SeenCalls
<1> DEFINE t == CallsIn(code, image, frames, acts)[N + L]
<1>8. t = [pc |-> IndexIn(code, IF A.inSyscall THEN FetchWord(image, A.ps) ELSE A.pc),
           ps |-> A.ps, base |-> base, ops |-> Ops(A.opStack, B, A.ofs - B),
           sys |-> IF A.inSyscall THEN Noted(image, A.ps) ELSE -1, cmd |-> cmd]
  BY <1>1, LastCall DEF A
<1> HIDE DEF t, L, N, B, d, base, cmd
<1>9. t = Q!Call(i, A.ps, base, Ops(A.opStack, B, d), -1, cmd)
  BY <1>1, <1>5, <1>6, <1>8 DEF Q!Call
<1>10. QED BY <1>7, <1>9 DEF t, L, N, B, d, base, cmd

LEMMA OperandsSeen ==
  ASSUME Good, NEW ops, At(ops)
  PROVE  /\ Q!Executes(ops) /\ Q!Opcode = Opcode /\ Q!Top.ps = A.ps /\ QvmStatus = "ok"
         /\ Opcode \in HasOperand \ CondBranch => Q!V = R2
         /\ Q!Holding(Pops(Opcode)) /\ Q!Below(0) = Q!Top.ops
         /\ Pops(Opcode) >= 1 => Q!Operand(1) = A.r0 /\ A.r0 = A.opStack[A.ofs]
         /\ Pops(Opcode) >= 2 => Q!Operand(2) = A.r1 /\ A.r1 = A.opStack[A.ofs - 1]
                                /\ Slot(A.ofs - 1) = A.ofs - 1
<1>1. /\ Sound /\ Running /\ TypeInv /\ InterpInv /\ A \in ActivationRecord /\ A.ofs \in Slots
      /\ A.opStack \in [Slots -> Word]
  BY RunningTyped DEF Good, Proper, Sound, At
<1>2. PICK e \in Indices(Insns), i \in Indices(Insns) : Here(e, i) BY <1>1, SomewhereHere
<1> DEFINE B == BaseOf(frames, Level, Calls)
           d == prog.depth[i]
           o == Ops(A.opStack, B, d)
           P == Pops(Opcode)
<1>3. /\ Opcode = Op(Insns, i) /\ Opcode \in ops /\ d \in Nat /\ d >= P /\ B \in Nat /\ A.ofs = B + d
      /\ Opcode \in HasOperand \ CondBranch => R2 = Arg(Insns, i)
  BY <1>1, <1>2, NextInstruction
<1>4. /\ Q!Top.pc = i /\ Q!Top.ps = A.ps /\ Q!Top.ops = o /\ Q!Top.sys = -1
      /\ QvmStatus = "ok" /\ QvmCalls # <<>>
  BY <1>1, <1>2, SeenHere DEF Q!Call
<1>5. Q!Opcode = Opcode BY <1>3, <1>4, SameInstructions DEF Q!Opcode, Insns
<1>6. Q!Executes(ops) BY <1>3, <1>4, SameInstructions DEF Q!Executes, Insns
<1>7. Q!V = Arg(Insns, i) BY <1>4, SameInstructions DEF Q!V, Insns
<1> HIDE DEF B, d, P
<1>8. o \in Seq(Word) /\ Len(o) = d /\ \A s \in 1 .. d : o[s] = A.opStack[B + s]
  BY <1>1, <1>3, OpsTyped
<1> HIDE DEF o
<1>9. Q!Holding(P) BY <1>3, <1>4, <1>8 DEF Q!Holding
<1>10. Coherent(A) BY <1>1, InnerFacts
<1>11. P \in Nat BY <1>3 DEF P, Pops
<1>12. ASSUME P >= 1 PROVE Q!Operand(1) = A.r0 /\ A.r0 = A.opStack[A.ofs]
  <2>1. d \in 1 .. d /\ d + 1 - 1 = d BY <1>3, <1>11, <1>12
  <2>2. Q!Operand(1) = o[d] BY <1>4, <1>8, <2>1 DEF Q!Operand
  <2>3. QED BY <1>3, <1>8, <1>10, <2>1, <2>2 DEF Coherent
<1>13. ASSUME P >= 2
       PROVE  /\ Q!Operand(2) = A.r1 /\ A.r1 = A.opStack[A.ofs - 1] /\ Slot(A.ofs - 1) = A.ofs - 1
  <2>1. d - 1 \in 1 .. d /\ d + 1 - 2 = d - 1 BY <1>3, <1>11, <1>13
  <2>2. Q!Operand(2) = o[d - 1] BY <1>4, <1>8, <2>1 DEF Q!Operand
  <2>3. A.ofs - 1 \in Slots BY <1>1, <1>3, <2>1, Sizes DEF Slots
  <2>4. Slot(A.ofs - 1) = A.ofs - 1 BY <2>3, Unwrapped
  <2>5. o[d - 1] = A.opStack[B + (d - 1)] BY <1>8, <2>1
  <2>6. B + (d - 1) = A.ofs - 1 BY <1>3
  <2>7. QED BY <1>10, <2>2, <2>4, <2>5, <2>6 DEF Coherent
<1>14. Q!Below(0) = Q!Top.ops
  <2>1. Len(o) - 0 = Len(o) /\ SubSeq(o, 1, Len(o)) = o BY <1>3, <1>8
  <2>2. QED BY <1>4, <2>1 DEF Q!Below
<1>15. QED BY <1>3, <1>4, <1>5, <1>6, <1>7, <1>9, <1>12, <1>13, <1>14 DEF P

\* What is left of the operands when an instruction has taken some and
\* pushed x or nothing.
LeftOf(P, pushes, x) == IF pushes = 1 THEN Append(Q!Below(P), x) ELSE Q!Below(P)

\* Activation b is a in the same call, with at least the first n slots of a.
SameCall(a, b, n) == b.command = a.command /\ \A s \in 1 .. n : b.opStack[s] = a.opStack[s]

\* A call goes on elsewhere, waits for the host, has its answer, its frame,
\* or the value of a callee.
Going(t, pc, ops)          == [t EXCEPT !.pc = pc, !.ops = ops]
Suspending(t, pc, ops, sys) == [t EXCEPT !.pc = pc, !.ops = ops, !.sys = sys]
Answered(t, ops)           == [t EXCEPT !.sys = -1, !.ops = ops]
Framed(t, pc, ps)          == [t EXCEPT !.pc = pc, !.ps = ps]
Receiving(t, ops)          == [t EXCEPT !.ops = ops]

LEMMA CallMoved ==
  ASSUME NEW pc, NEW ps, NEW base, NEW ops, NEW sys, NEW cmd, NEW x, NEW y, NEW z
  PROVE  LET t == Q!Call(pc, ps, base, ops, sys, cmd)
         IN  /\ Going(t, x, y) = Q!Call(x, ps, base, y, sys, cmd)
             /\ Suspending(t, x, y, z) = Q!Call(x, ps, base, y, z, cmd)
             /\ Answered(t, y) = Q!Call(pc, ps, base, y, -1, cmd)
             /\ Framed(t, x, y) = Q!Call(x, y, base, ops, sys, cmd)
             /\ Receiving(t, y) = Q!Call(pc, ps, base, y, sys, cmd)
<1> DEFINE t == Q!Call(pc, ps, base, ops, sys, cmd)
           u == [t EXCEPT !.pc = x]
           v == [u EXCEPT !.ops = y]
           w == [t EXCEPT !.sys = -1]
<1>1. u = Q!Call(x, ps, base, ops, sys, cmd) BY DEF Q!Call
<1>2. w = Q!Call(pc, ps, base, ops, -1, cmd) BY DEF Q!Call
<1>3. Receiving(t, y) = Q!Call(pc, ps, base, y, sys, cmd) BY DEF Q!Call, Receiving
<1> HIDE DEF u, w
<1>4. v = Q!Call(x, ps, base, y, sys, cmd) BY <1>1 DEF Q!Call
<1>5. [w EXCEPT !.ops = y] = Q!Call(pc, ps, base, y, -1, cmd) BY <1>2 DEF Q!Call
<1>6. [u EXCEPT !.ps = y] = Q!Call(x, y, base, ops, sys, cmd) BY <1>1 DEF Q!Call
<1> HIDE DEF v
<1>7. [v EXCEPT !.sys = z] = Q!Call(x, ps, base, y, z, cmd) BY <1>4 DEF Q!Call
<1> HIDE DEF t
<1>8. Going(t, x, y) = v BY DEF Going, v, u
<1>9. Suspending(t, x, y, z) = [v EXCEPT !.sys = z] BY DEF Suspending, v, u
<1>10. Answered(t, y) = [w EXCEPT !.ops = y] BY DEF Answered, w
<1>11. Framed(t, x, y) = [u EXCEPT !.ps = y] BY DEF Framed, u
<1>12. QED BY <1>3, <1>4, <1>5, <1>6, <1>7, <1>8, <1>9, <1>10, <1>11 DEF t

LEMMA Resumes ==
  ASSUME Good, NestedNow', NEW ops, At(ops),
         NEW e \in Indices(Insns), NEW i \in Indices(Insns), Here(e, i), NEW j \in Indices(Insns),
         NEW b, acts' = [acts EXCEPT ![Level] = b],
         NEW n, n = A.ofs - Pops(Opcode) + Pushes(Opcode), MovedTo(A, b, Place(prog, j), A.ps, n),
         SameCall(A, b, A.ofs - Pops(Opcode)),
         prog' = prog, code' = code, frames' = frames, status' = "ok",
         SameOwned(image, image', frames, acts)
  PROVE  /\ QvmStatus' = "ok" /\ Alive'
         /\ Q!GoTo(j, LeftOf(Pops(Opcode), Pushes(Opcode), b.opStack[n]))
<1> DEFINE L == Level
           N == Calls
           B == BaseOf(frames, L, N)
           d == prog.depth[i]
           P == Pops(Opcode)
           U == Pushes(Opcode)
           k == d - P
           o == Ops(A.opStack, B, d)
           base == Below(frames, acts, L, N)
           cmd  == CommandOf(frames, acts, L, N)
<1>1. /\ Sound /\ Running /\ Alive /\ TypeInv /\ A \in ActivationRecord /\ A.ofs \in Slots /\ A.ps \in Int
      /\ Level > 0 /\ ~ A.inSyscall /\ A.opStack \in [Slots -> Word]
  BY RunningTyped DEF Good, Proper, Sound, At
<1>2. d \in Nat /\ d >= P /\ B \in Nat /\ A.ofs = B + d
  BY <1>1, NextInstruction
<1>3. P \in Nat /\ U \in {0, 1} BY DEF Pops, Pushes
<1>4. k \in 0 .. d /\ A.ofs - P = B + k /\ n = B + k + U BY <1>2, <1>3
<1>5. A.ps > StackBottom BY <1>1, Sizes DEF Alive, QvmStatus, Overflown, StackBottom
<1>6. /\ b.entry = A.entry /\ ~ b.inSyscall /\ b.pc = Place(prog, j) /\ b.ps = A.ps /\ b.ofs = n
      /\ b.command = A.command /\ \A s \in 1 .. A.ofs - P : b.opStack[s] = A.opStack[s]
  BY <1>1 DEF MovedTo, SameCall
<1>7. Q!Top = Q!Call(i, A.ps, base, o, -1, cmd)
  BY <1>1, SeenHere
<1>8. IndexIn(code, b.pc) = j BY <1>1, <1>6, PlaceFound
<1> HIDE DEF L, N, B, d, P, U, k, base, cmd
<1>9. \A s \in 1 .. k : b.opStack[B + s] = A.opStack[B + s]
  <2>1. \A s \in 1 .. k : B + s \in 1 .. A.ofs - P BY <1>2, <1>4
  <2>2. QED BY <1>6, <2>1
<1>10. \A s \in 1 .. B : b.opStack[s] = A.opStack[s]
  <2>1. \A s \in 1 .. B : s \in 1 .. A.ofs - P BY <1>2, <1>4
  <2>2. QED BY <1>6, <2>1
<1>11. /\ Alive' /\ QvmStatus' = "ok"
       /\ QvmCalls' = Append(Q!Callers,
                       Q!Call(IndexIn(code, IF b.inSyscall THEN FetchWord(image', b.ps) ELSE b.pc),
                              b.ps, base, Ops(b.opStack, B, b.ofs - B),
                              IF b.inSyscall THEN Noted(image', b.ps) ELSE -1, cmd))
  <2>1. b.ps \in Int /\ b.ps > StackBottom BY <1>1, <1>5, <1>6
  <2>2. QED BY <1>1, <1>6, <1>10, <2>1, TopGoes DEF L, N, B, base, cmd
<1>12. b.ofs - B = k + U BY <1>2, <1>3, <1>4, <1>6
<1> DEFINE r == Ops(b.opStack, B, k + U)
<1>13. r = LeftOf(P, U, b.opStack[n])
  <2>1. Len(o) = d /\ Q!Below(P) = SubSeq(o, 1, k)
    <3>1. Len(o) = d BY <1>1, <1>2, OpsTyped
    <3> HIDE DEF o
    <3>2. QED BY <1>7, <3>1 DEF Q!Below, Q!Call, k
  <2>2. CASE U = 0
    <3>1. Ops(b.opStack, B, k) = Ops(A.opStack, B, k) BY <1>9 DEF Ops
    <3>2. Ops(A.opStack, B, k) = SubSeq(o, 1, k) BY <1>2, <1>4, OpsDropped
    <3>3. k + U = k BY <1>4, <2>2
    <3> HIDE DEF o
    <3>4. QED BY <2>1, <2>2, <3>1, <3>2, <3>3 DEF LeftOf
  <2>3. CASE U = 1
    <3> DEFINE st == b.opStack
    <3>1. \A s \in 1 .. k : st[B + s] = A.opStack[B + s] BY <1>9
    <3>2. Alike(A.opStack, st, B, k) BY <3>1 DEF Alike
    <3> HIDE DEF st
    <3>3. Append(Ops(A.opStack, B, k), st[B + k + 1]) = Ops(st, B, k + 1)
      <4>1. k \in Nat /\ B \in Nat BY <1>2, <1>4
      <4> DEFINE s1 == A.opStack
      <4>2. Alike(s1, st, B, k) BY <3>2
      <4> HIDE DEF s1
      <4>3. Append(Ops(s1, B, k), st[B + k + 1]) = Ops(st, B, k + 1) BY <4>1, <4>2, OpsPushed
      <4>4. QED BY <4>3 DEF s1
    <3>4. n = B + k + 1 /\ k + U = k + 1 BY <1>4, <2>3
    <3>5. Ops(A.opStack, B, k) = SubSeq(o, 1, k) BY <1>2, <1>4, OpsDropped
    <3> HIDE DEF o
    <3>6. QED BY <2>1, <2>3, <3>3, <3>4, <3>5 DEF LeftOf, st
  <2>4. QED BY <1>3, <2>2, <2>3
<1> HIDE DEF r, o
<1>14. QvmCalls' = Append(Q!Callers, Q!Call(j, A.ps, base, r, -1, cmd))
  BY <1>6, <1>8, <1>11, <1>12 DEF r
<1>15. Going(Q!Top, j, r) = Q!Call(j, A.ps, base, r, -1, cmd) BY <1>7, CallMoved
<1>16. QED BY <1>11, <1>13, <1>14, <1>15 DEF Q!GoTo, Q!TopBecomes, Going, P, U

\* The memory of Qvm, in terms of that of the interpreter.
LEMMA UsedAlike ==
  ASSUME Sound, Level > 0, NEW b, acts' = [acts EXCEPT ![Level] = b],
         b.entry = A.entry, b.ps = A.ps, frames' = frames
  PROVE  InUse' = InUse /\ Level' = Level
<1> DEFINE L == Level
           cs == [acts EXCEPT ![L] = b]
<1>1. L \in 1 .. L /\ DOMAIN acts = 1 .. L /\ Len(acts) = L /\ L \in Nat /\ acts \in Seq(ActivationRecord)
  BY SoundFacts
<1>2. Len(cs) = L BY <1>1
<1>3. Level' = L BY <1>2 DEF Level
<1>4. A = acts[L] BY DEF A
<1> HIDE DEF L
<1>5. cs[L] = b /\ DOMAIN cs = 1 .. L /\ (\A k \in 1 .. L : k # L => cs[k] = acts[k]) BY <1>1
<1>6. \A k \in 1 .. L : cs[k].ps = acts[k].ps /\ cs[k].entry = acts[k].entry
  BY <1>1, <1>4, <1>5
<1>7. acts' = cs BY DEF L
<1> HIDE DEF cs
<1>8. Frames' = Frames
  <2> DEFINE Owned(x) == {x.ps, x.entry - FrameBytes}
  <2>1. DOMAIN acts = 1 .. L BY <1>1
  <2>2. \A k \in 1 .. L : Owned(cs[k]) = Owned(acts[k]) BY <1>6
  <2> HIDE DEF Owned
  <2>3. {Owned(cs[k]) : k \in 1 .. L} = {Owned(acts[k]) : k \in 1 .. L} BY <2>2
  <2>4. {Owned(cs[k]) : k \in DOMAIN cs} = {Owned(acts[k]) : k \in DOMAIN acts}
    BY <1>5, <2>1, <2>3
  <2>5. Frames = {frames[h].ps : h \in DOMAIN frames} \cup UNION {Owned(acts[k]) : k \in DOMAIN acts}
    BY Zenon DEF Frames, Owned
  <2>6. Frames' = {frames[h].ps : h \in DOMAIN frames} \cup UNION {Owned(cs[k]) : k \in DOMAIN cs}
    <3>1. Frames' = {frames'[h].ps : h \in DOMAIN frames'}
                    \cup UNION {Owned(acts'[k]) : k \in DOMAIN acts'}
      BY Zenon DEF Frames, Owned, FrameBytes
    <3>2. QED BY <1>7, <3>1
  <2>7. QED BY <2>4, <2>5, <2>6
<1>9. Reserved' = Reserved BY <1>8 DEF Reserved
<1>10. A'.ps = A.ps BY <1>3, <1>4, <1>5, <1>7 DEF A
<1>11. QED BY <1>3, <1>9, <1>10 DEF InUse, StackBottom, L

LEMMA MemorySeen ==
  ASSUME Alive, Alive', InUse' = InUse
  PROVE  /\ QvmMem = [a \in InUse |-> image[a]] /\ QvmMem' = [a \in InUse |-> image'[a]]
         /\ (\A a \in InUse : image'[a] = image[a]) => QvmMem' = QvmMem
BY DEF QvmMem

-----------------------------------------------------------------------------
(* Instructions that go on with the next one.                              *)

LEMMA CarriesOn ==
  ASSUME Good, NestedNow', NEW ops, At(ops), ops \cap (Diverts \cup {"ENTER"}) = {},
         NEW c, Dispatch(c) \/ Dispatch2(c), NEW n, NEW pc, MovedTo(A, c, pc, A.ps, Slot(n)),
         n = A.ofs - Pops(Opcode) + Pushes(Opcode), pc = A.pc + 1 + OperandWords(Opcode),
         SameCall(A, c, A.ofs - Pops(Opcode)), UNCHANGED <<prog, code, frames, status, result>>,
         SameOwned(image, image', frames, acts)
  PROVE  /\ Alive /\ Alive' /\ InUse' = InUse
         /\ Q!Proceed(LeftOf(Pops(Opcode), Pushes(Opcode), c.opStack[n]))
         /\ UNCHANGED <<prog.insns, QvmStatus, IF Alive THEN result ELSE <<>>>>
<1>1. Running /\ Sound /\ Alive /\ TypeInv /\ status = "ok" BY DEF At, Good, Proper, Sound
<1>2. A \in ActivationRecord /\ Level > 0 BY <1>1, RunningTyped
<1>3. PICK e \in Indices(Insns), i \in Indices(Insns) : Here(e, i) BY <1>1, SomewhereHere
<1> DEFINE j == i + 1
<1>4. /\ Opcode \notin Diverts /\ n \in Slots /\ j \in Indices(Insns) /\ Place(prog, j) = pc
  BY <1>1, <1>3, NextInstruction
<1>5. Slot(n) = n BY <1>4, Unwrapped
<1>6. PICK b : /\ MovedTo(A, b, pc, A.ps, n) /\ acts' = [acts EXCEPT ![Level] = b]
               /\ SameCall(A, b, A.ofs - Pops(Opcode)) /\ b.opStack[n] = c.opStack[n]
  <2>1. CASE Dispatch(c)
    <3> DEFINE b == Reloaded(c)
    <3>1. MovedTo(A, b, pc, A.ps, n) BY <1>2, <1>5, ReloadMoves
    <3>2. acts' = [acts EXCEPT ![Level] = b] BY <2>1 DEF Dispatch, Continue
    <3>3. b.opStack = c.opStack /\ b.command = c.command
      <4>1. DOMAIN c = DOMAIN A BY DEF MovedTo
      <4>2. QED BY <1>2, <4>1 DEF Reloaded, ActivationRecord
    <3>4. SameCall(A, b, A.ofs - Pops(Opcode)) BY <3>3 DEF SameCall
    <3> HIDE DEF b
    <3>5. QED BY <3>1, <3>2, <3>3, <3>4
  <2>2. CASE Dispatch2(c) BY <1>5, <2>2 DEF Dispatch2, Continue
  <2>3. QED BY <2>1, <2>2
<1>7. b.entry = A.entry /\ b.ps = A.ps BY <1>6 DEF MovedTo
<1>8. InUse' = InUse BY <1>1, <1>2, <1>6, <1>7, UsedAlike
<1> HIDE DEF j
<1>9. /\ QvmStatus' = "ok" /\ Alive'
      /\ Q!GoTo(j, LeftOf(Pops(Opcode), Pushes(Opcode), b.opStack[n]))
  BY <1>1, <1>3, <1>4, <1>6, Resumes
<1>10. Q!Proceed(LeftOf(Pops(Opcode), Pushes(Opcode), b.opStack[n]))
  <2>1. Q!Top.pc + 1 = j BY <1>1, <1>3, SeenHere DEF Q!Call, j
  <2>2. QED BY <1>9, <2>1 DEF Q!Proceed, Q!GoTo, Q!TopBecomes
<1>11. QED BY <1>1, <1>6, <1>8, <1>9, <1>10 DEF Alive

LEMMA CallKept ==
  ASSUME NEW a \in ActivationRecord, NEW pc, NEW n, NEW v, NEW x, NEW y, NEW k \in Nat, x \notin 1 .. k
  PROVE  /\ SameCall(a, [a EXCEPT !.pc = pc], k)
         /\ SameCall(a, [a EXCEPT !.pc = pc, !.ofs = n], k)
         /\ SameCall(a, [a EXCEPT !.pc = pc, !.opStack[x] = v], k)
         /\ SameCall(a, [a EXCEPT !.pc = pc, !.opStack[x] = v, !.r0 = v], k)
         /\ SameCall(a, [a EXCEPT !.pc = pc, !.ofs = n, !.opStack[x] = v], k)
         /\ SameCall(a, [a EXCEPT !.pc = pc, !.ofs = n, !.opStack[x] = v, !.r0 = v, !.r1 = y], k)
BY DEF SameCall, ActivationRecord

\* Instructions that only compute.
LEMMA Computes ==
  ASSUME Good, NestedNow', NEW ops, At(ops), ops \cap (Diverts \cup {"ENTER"}) = {},
         NEW c, Dispatch(c) \/ Dispatch2(c), NEW n, NEW pc, MovedTo(A, c, pc, A.ps, Slot(n)),
         n = A.ofs - Pops(Opcode) + Pushes(Opcode), pc = A.pc + 1 + OperandWords(Opcode),
         SameCall(A, c, A.ofs - Pops(Opcode)),
         UNCHANGED <<prog, code, image, vm, frames, status, result>>
  PROVE  /\ Q!Proceed(LeftOf(Pops(Opcode), Pushes(Opcode), c.opStack[n]))
         /\ UNCHANGED <<prog.insns, QvmMem, QvmStatus, IF Alive THEN result ELSE <<>>>>
<1>1. /\ image' = image /\ prog' = prog /\ code' = code /\ frames' = frames /\ status' = status
      /\ result' = result
  OBVIOUS
<1>2. SameOwned(image, image', frames, acts) BY <1>1, MemoryKept
<1>3. /\ Alive /\ Alive' /\ InUse' = InUse
      /\ Q!Proceed(LeftOf(Pops(Opcode), Pushes(Opcode), c.opStack[n]))
      /\ UNCHANGED <<prog.insns, QvmStatus, IF Alive THEN result ELSE <<>>>>
  BY <1>1, <1>2, CarriesOn
<1>4. QvmMem' = QvmMem
  <2>1. \A a \in InUse : image'[a] = image[a] BY <1>1
  <2>2. QED BY <1>3, <2>1, MemorySeen
<1>5. QED BY <1>3, <1>4

LEMMA NothingSeen == ASSUME Good, NestedNow', Nothing PROVE Q!Nothing
<1> DEFINE pc == A.pc + 1
           n == A.ofs
           c == [A EXCEPT !.pc = pc]
           ops == {"IGNORE", "BREAK"}
<1>1. At(ops) /\ Dispatch2(c) /\ UNCHANGED <<prog, code, image, vm, frames, status, result>>
  BY DEF Nothing
<1>2. A \in ActivationRecord /\ A.ofs \in Slots /\ A.ofs \in Nat /\ A.pc \in Int
  BY <1>1, RunningTyped, Sizes DEF Good, Proper, Sound, At, Slots
<1>3. ops \cap (Diverts \cup {"ENTER"}) = {} BY DEF Diverts
<1>4. Pops(Opcode) = 0 /\ Pushes(Opcode) = 0 /\ OperandWords(Opcode) = 0
  BY <1>1, Effects DEF At
<1>5. n = A.ofs - Pops(Opcode) + Pushes(Opcode) /\ pc = A.pc + 1 + OperandWords(Opcode)
  BY <1>2, <1>4
<1> HIDE DEF pc
<1>6. MovedTo(A, c, pc, A.ps, n) /\ SameCall(A, c, n) 
  <2>1. 0 \notin 1 .. n BY <1>2
  <2>2. QED BY <1>2, <2>1, Moved, CallKept
<1>7. MovedTo(A, c, pc, A.ps, Slot(n)) /\ SameCall(A, c, A.ofs - Pops(Opcode))
  BY <1>2, <1>4, <1>6, Unwrapped
<1> HIDE DEF c, ops, n
<1>8. /\ Q!Proceed(LeftOf(Pops(Opcode), Pushes(Opcode), c.opStack[n]))
      /\ UNCHANGED <<prog.insns, QvmMem, QvmStatus, IF Alive THEN result ELSE <<>>>>
  BY <1>1, <1>3, <1>5, <1>7, Computes
<1>9. Q!Executes(ops) /\ Q!Below(0) = Q!Top.ops BY <1>1, OperandsSeen
<1>10. QED BY <1>4, <1>8, <1>9 DEF Q!Nothing, LeftOf, ops

LEMMA SlotInside ==
  ASSUME Good, NEW ops, At(ops), NEW n, n = A.ofs - Pops(Opcode) + Pushes(Opcode)
  PROVE  n \in Slots
<1>1. Sound /\ Running BY DEF Good, Proper, At
<1>2. PICK e \in Indices(Insns), i \in Indices(Insns) : Here(e, i) BY <1>1, SomewhereHere
<1>3. QED BY <1>1, <1>2, NextInstruction

LEMMA PopsInside ==
  ASSUME Good, NEW ops, At(ops) PROVE A.ofs - Pops(Opcode) >= 0
<1>1. Sound /\ Running BY DEF Good, Proper, At
<1>2. PICK e \in Indices(Insns), i \in Indices(Insns) : Here(e, i) BY <1>1, SomewhereHere
<1>3. Pops(Opcode) \in Nat BY DEF Pops
<1>4. QED BY <1>1, <1>2, <1>3, NextInstruction

LEMMA ConstantSeen == ASSUME Good, NestedNow', PushCached PROVE Q!Constant
<1> DEFINE v == IF Opcode = "CONST" THEN R2 ELSE Signed(R2 + A.ps)
           pc == A.pc + 2
           k == A.ofs + 1
           n == Slot(k)
           c == [A EXCEPT !.pc = pc, !.ofs = n, !.opStack[n] = v, !.r0 = v, !.r1 = A.r0]
           ops == {"CONST", "LOCAL"}
<1>1. At(ops) /\ Dispatch2(c) /\ UNCHANGED <<prog, code, image, vm, frames, status, result>>
  BY DEF PushCached
<1>2. A \in ActivationRecord /\ A.ofs \in Slots /\ A.ofs \in Nat /\ A.pc \in Int
  BY <1>1, RunningTyped, Sizes DEF Good, Proper, Sound, At, Slots
<1>3. ops \cap (Diverts \cup {"ENTER"}) = {} BY DEF Diverts
<1>4. Pops(Opcode) = 0 /\ Pushes(Opcode) = 1 /\ OperandWords(Opcode) = 1
  BY <1>1, Effects DEF At
<1>5. k = A.ofs - Pops(Opcode) + Pushes(Opcode) /\ pc = A.pc + 1 + OperandWords(Opcode)
  BY <1>2, <1>4
<1>6. k \in Slots /\ n = k
  <2>1. k \in Slots BY <1>1, <1>5, SlotInside
  <2>2. QED BY <2>1, Unwrapped
<1>7. Opcode \in HasOperand \ CondBranch
  BY <1>1 DEF At, HasOperand, HasI4Operand, CondBranch, IntBranch, FloatBranch
<1> HIDE DEF pc, v
<1>8. MovedTo(A, c, pc, A.ps, n) /\ SameCall(A, c, A.ofs) /\ c.opStack[n] = v
  <2>1. n \notin 1 .. A.ofs BY <1>2, <1>6
  <2> HIDE DEF n
  <2>2. n \in Slots BY <1>6 DEF n
  <2>3. MovedTo(A, c, pc, A.ps, n) BY <1>2, Moved
  <2>4. SameCall(A, c, A.ofs) BY <1>2, <2>1, CallKept
  <2>5. c.opStack[n] = v BY <1>2, <2>2 DEF ActivationRecord, Slots
  <2>6. QED BY <2>3, <2>4, <2>5
<1>9. MovedTo(A, c, pc, A.ps, Slot(k)) /\ SameCall(A, c, A.ofs - Pops(Opcode)) /\ c.opStack[k] = v
  BY <1>2, <1>4, <1>6, <1>8
<1> HIDE DEF c, ops, n, k
<1>10. /\ Q!Proceed(LeftOf(Pops(Opcode), Pushes(Opcode), c.opStack[k]))
       /\ UNCHANGED <<prog.insns, QvmMem, QvmStatus, IF Alive THEN result ELSE <<>>>>
  BY <1>1, <1>3, <1>5, <1>9, Computes
<1>11. Q!Executes(ops) /\ Q!Below(0) = Q!Top.ops /\ Q!Opcode = Opcode /\ Q!V = R2 /\ Q!Top.ps = A.ps
  BY <1>1, <1>7, OperandsSeen
<1>12. v = IF Q!Opcode = "CONST" THEN Q!V ELSE Q!Signed(Q!V + Q!Top.ps)
  BY <1>11, SameWords DEF v
<1>13. QED BY <1>4, <1>9, <1>10, <1>11, <1>12 DEF Q!Constant, LeftOf, ops

LEMMA PushSeen == ASSUME Good, NestedNow', PushStale PROVE Q!Push
<1> DEFINE pc == A.pc + 1
           k == A.ofs + 1
           n == Slot(k)
           c == [A EXCEPT !.pc = pc, !.ofs = n]
           ops == {"PUSH"}
<1>1. At(ops) /\ Dispatch(c) /\ UNCHANGED <<prog, code, image, vm, frames, status, result>>
  BY DEF PushStale
<1>2. /\ A \in ActivationRecord /\ A.ofs \in Slots /\ A.ofs \in Nat /\ A.pc \in Int
      /\ A.opStack \in [Slots -> Word]
  BY <1>1, RunningTyped, Sizes DEF Good, Proper, Sound, At, Slots
<1>3. ops \cap (Diverts \cup {"ENTER"}) = {} BY DEF Diverts
<1>4. Pops(Opcode) = 0 /\ Pushes(Opcode) = 1 /\ OperandWords(Opcode) = 0
  BY <1>1, Effects DEF At
<1>5. k = A.ofs - Pops(Opcode) + Pushes(Opcode) /\ pc = A.pc + 1 + OperandWords(Opcode)
  BY <1>2, <1>4
<1>6. k \in Slots /\ n = k
  <2>1. k \in Slots BY <1>1, <1>5, SlotInside
  <2>2. QED BY <2>1, Unwrapped
<1> HIDE DEF pc
<1>7. MovedTo(A, c, pc, A.ps, n) /\ SameCall(A, c, A.ofs) /\ c.opStack = A.opStack
  <2>1. 0 \notin 1 .. A.ofs BY <1>2
  <2>2. 0 \in Slots BY Sizes DEF Slots
  <2> HIDE DEF n
  <2>3. MovedTo(A, c, pc, A.ps, n) BY <1>2, Moved
  <2>4. SameCall(A, c, A.ofs) BY <1>2, <2>1, CallKept
  <2>5. c.opStack = A.opStack BY <1>2 DEF ActivationRecord
  <2>6. QED BY <2>3, <2>4, <2>5
<1>8. /\ MovedTo(A, c, pc, A.ps, Slot(k)) /\ SameCall(A, c, A.ofs - Pops(Opcode))
      /\ c.opStack[k] \in Q!Word
  BY <1>2, <1>4, <1>6, <1>7, SameWords
<1> HIDE DEF c, ops, n, k
<1>9. /\ Q!Proceed(LeftOf(Pops(Opcode), Pushes(Opcode), c.opStack[k]))
      /\ UNCHANGED <<prog.insns, QvmMem, QvmStatus, IF Alive THEN result ELSE <<>>>>
  BY <1>1, <1>3, <1>5, <1>8, Computes
<1>10. Q!Executes(ops) /\ Q!Below(0) = Q!Top.ops BY <1>1, OperandsSeen
<1>11. QED BY <1>4, <1>8, <1>9, <1>10 DEF Q!Push, LeftOf, ops

LEMMA PopSeen == ASSUME Good, NestedNow', Pop PROVE Q!Pop
<1> DEFINE pc == A.pc + 1
           k == A.ofs - 1
           n == Slot(k)
           c == [A EXCEPT !.pc = pc, !.ofs = n]
           ops == {"POP"}
<1>1. At(ops) /\ Dispatch(c) /\ UNCHANGED <<prog, code, image, vm, frames, status, result>>
  BY DEF Pop
<1>2. A \in ActivationRecord /\ A.ofs \in Slots /\ A.ofs \in Nat /\ A.pc \in Int
  BY <1>1, RunningTyped, Sizes DEF Good, Proper, Sound, At, Slots
<1>3. ops \cap (Diverts \cup {"ENTER"}) = {} BY DEF Diverts
<1>4. Pops(Opcode) = 1 /\ Pushes(Opcode) = 0 /\ OperandWords(Opcode) = 0
  BY <1>1, Effects DEF At
<1>5. k = A.ofs - Pops(Opcode) + Pushes(Opcode) /\ pc = A.pc + 1 + OperandWords(Opcode)
  BY <1>2, <1>4
<1>6. k \in Slots /\ n = k /\ k \in Nat
  <2>1. k \in Slots BY <1>1, <1>5, SlotInside
  <2>2. QED BY <2>1, Unwrapped, Sizes DEF Slots
<1> HIDE DEF pc
<1>7. MovedTo(A, c, pc, A.ps, n) /\ SameCall(A, c, k)
  <2>1. 0 \notin 1 .. k BY <1>6
  <2> HIDE DEF n, k
  <2>2. QED BY <1>2, <1>6, <2>1, Moved, CallKept
<1>8. MovedTo(A, c, pc, A.ps, Slot(k)) /\ SameCall(A, c, A.ofs - Pops(Opcode))
  BY <1>2, <1>4, <1>6, <1>7
<1> HIDE DEF c, ops, n, k
<1>9. /\ Q!Proceed(LeftOf(Pops(Opcode), Pushes(Opcode), c.opStack[k]))
      /\ UNCHANGED <<prog.insns, QvmMem, QvmStatus, IF Alive THEN result ELSE <<>>>>
  BY <1>1, <1>3, <1>5, <1>8, Computes
<1>10. Q!Executes(ops) /\ Q!Holding(Pops(Opcode)) BY <1>1, OperandsSeen
<1>11. QED BY <1>4, <1>9, <1>10 DEF Q!Pop, LeftOf, ops

LEMMA UnarySeen == ASSUME Good, NestedNow', Unary PROVE Q!Unary
<1> DEFINE x == IF Opcode \in {"NEGI", "BCOM"} THEN A.r0 ELSE First
           v == UnaryResult(Opcode, x)
           pc == A.pc + 1
           o == A.ofs
           c == [A EXCEPT !.pc = pc, !.opStack[o] = v]
           ops == IntUnary \cup FloatUnary
<1>1. At(ops) /\ Dispatch(c) /\ UNCHANGED <<prog, code, image, vm, frames, status, result>>
  BY DEF Unary
<1>2. A \in ActivationRecord /\ o \in Slots /\ o \in Nat /\ A.pc \in Int
  BY <1>1, RunningTyped, Sizes DEF Good, Proper, Sound, At, Slots
<1>3. ops \cap (Diverts \cup {"ENTER"}) = {} BY DEF Diverts, IntUnary, FloatUnary
<1>4. Pops(Opcode) = 1 /\ Pushes(Opcode) = 1 /\ OperandWords(Opcode) = 0
  <2>1. Opcode \in ops BY <1>1 DEF At
  <2>2. QED BY <2>1, Effects
<1>5. o = A.ofs - Pops(Opcode) + Pushes(Opcode) /\ pc = A.pc + 1 + OperandWords(Opcode)
  BY <1>2, <1>4
<1> HIDE DEF pc, v
<1>6. /\ MovedTo(A, c, pc, A.ps, o) /\ SameCall(A, c, A.ofs - Pops(Opcode)) /\ c.opStack[o] = v
  <2> DEFINE k == o - 1
  <2>0. o - 1 >= 0
    <3>1. A.ofs - Pops(Opcode) >= 0 BY <1>1, PopsInside
    <3>2. QED BY <1>4, <3>1
  <2>1. o \notin 1 .. k /\ k \in Nat BY <1>2, <2>0
  <2>2. k = A.ofs - Pops(Opcode) BY <1>4
  <2> HIDE DEF k
  <2>3. MovedTo(A, c, pc, A.ps, A.ofs) BY <1>2, Moved
  <2> HIDE DEF o
  <2>4. SameCall(A, c, k) BY <1>2, <2>1, CallKept
  <2>5. c.opStack[o] = v BY <1>2 DEF ActivationRecord, Slots
  <2>6. QED BY <2>2, <2>3, <2>4, <2>5 DEF o
<1>7. MovedTo(A, c, pc, A.ps, Slot(o)) BY <1>2, <1>6, Unwrapped
<1> HIDE DEF c, ops
<1>8. /\ Q!Proceed(LeftOf(Pops(Opcode), Pushes(Opcode), c.opStack[o]))
      /\ UNCHANGED <<prog.insns, QvmMem, QvmStatus, IF Alive THEN result ELSE <<>>>>
  <2> HIDE DEF o
  <2>1. QED BY <1>1, <1>3, <1>5, <1>6, <1>7, Computes
<1>9. /\ Q!Executes(ops) /\ Q!Holding(1) /\ Q!Opcode = Opcode
      /\ Q!Operand(1) = A.r0 /\ A.r0 = A.opStack[A.ofs]
  BY <1>1, <1>4, OperandsSeen
<1>10. v = Q!UnaryResult(Q!Opcode, Q!Operand(1))
  BY <1>9, SameArithmetic DEF v, First
<1>11. QED BY <1>4, <1>6, <1>8, <1>9, <1>10, SameInstructions DEF Q!Unary, LeftOf, ops

LEMMA BinarySeen == ASSUME Good, NestedNow', Binary PROVE Q!Binary
<1> DEFINE x == IF Opcode \in FloatBinary THEN Second ELSE A.r1
           y == IF Opcode \in FloatBinary THEN First ELSE A.r0
           pc == A.pc + 1
           k == A.ofs - 1
           n == Slot(k)
           v == BinaryResult(Opcode, x, y)
           c == [A EXCEPT !.pc = pc, !.ofs = n, !.opStack[n] = v]
           ops == IntBinary \cup FloatBinary
<1>1. /\ At(ops)
      /\ \/ Traps(Opcode, x, y) /\ Halt("trap")
         \/ /\ ~ Traps(Opcode, x, y) /\ Dispatch(c)
            /\ UNCHANGED <<prog, code, image, vm, frames, status, result>>
  BY DEF Binary
<1>2. A \in ActivationRecord /\ A.ofs \in Slots /\ A.ofs \in Nat /\ A.pc \in Int
  BY <1>1, RunningTyped, Sizes DEF Good, Proper, Sound, At, Slots
<1>3. ops \cap (Diverts \cup {"ENTER"}) = {} BY DEF Diverts, IntBinary, FloatBinary
<1>4. Opcode \in ops /\ Pops(Opcode) = 2 /\ Pushes(Opcode) = 1 /\ OperandWords(Opcode) = 0
  <2>1. Opcode \in ops BY <1>1 DEF At
  <2>2. QED BY <2>1, Effects
<1>5. k = A.ofs - Pops(Opcode) + Pushes(Opcode) /\ pc = A.pc + 1 + OperandWords(Opcode)
  BY <1>2, <1>4
<1>6. k \in Slots /\ n = k /\ k \in Nat
  <2>1. k \in Slots BY <1>1, <1>5, SlotInside
  <2>2. QED BY <2>1, Unwrapped, Sizes DEF Slots
<1>7. /\ Q!Executes(ops) /\ Q!Holding(2) /\ Q!Opcode = Opcode
      /\ Q!Operand(1) = A.r0 /\ A.r0 = A.opStack[A.ofs]
      /\ Q!Operand(2) = A.r1 /\ A.r1 = A.opStack[Slot(A.ofs - 1)]
  <2>1. Pops(Opcode) >= 1 /\ Pops(Opcode) >= 2 BY <1>4
  <2>2. Slot(A.ofs - 1) = A.ofs - 1 BY <1>6
  <2> HIDE DEF ops
  <2>3. /\ Q!Executes(ops) /\ Q!Holding(Pops(Opcode)) /\ Q!Opcode = Opcode
        /\ Q!Operand(1) = A.r0 /\ A.r0 = A.opStack[A.ofs]
        /\ Q!Operand(2) = A.r1 /\ A.r1 = A.opStack[A.ofs - 1]
    BY <1>1, <2>1, OperandsSeen
  <2>4. QED BY <1>4, <2>2, <2>3
<1>8. x = Q!Operand(2) /\ y = Q!Operand(1) BY <1>7 DEF First, Second
<1>9. ~ Traps(Opcode, x, y)
  <2>1. CASE Opcode \in IntBinary
    <3>1. At(IntBinary) BY <1>1, <2>1 DEF At
    <3>2. ~ Traps(Opcode, A.r1, A.r0) BY <3>1 DEF Good, Proper, Faultless
    <3>3. QED BY <1>7, <1>8, <3>2
  <2>2. CASE Opcode \in FloatBinary BY <2>2 DEF Traps, Division, FloatBinary
  <2>3. QED BY <1>4, <2>1, <2>2
<1>10. Dispatch(c) /\ UNCHANGED <<prog, code, image, vm, frames, status, result>> BY <1>1, <1>9
<1> HIDE DEF pc, v
<1>11. /\ MovedTo(A, c, pc, A.ps, n) /\ SameCall(A, c, A.ofs - Pops(Opcode)) /\ c.opStack[k] = v
  <2> DEFINE h == A.ofs - 2
  <2>1. h >= 0 /\ h = A.ofs - Pops(Opcode)
    <3>1. A.ofs - Pops(Opcode) >= 0 BY <1>1, PopsInside
    <3>2. QED BY <1>4, <3>1
  <2>2. n \notin 1 .. h /\ h \in Nat BY <1>2, <1>6, <2>1
  <2> HIDE DEF h, k
  <2>3. n \in Slots BY <1>6
  <2> HIDE DEF n
  <2>4. MovedTo(A, c, pc, A.ps, n) BY <1>2, Moved
  <2>5. SameCall(A, c, h) BY <1>2, <2>2, CallKept
  <2>6. c.opStack[n] = v BY <1>2, <2>3 DEF ActivationRecord, Slots
  <2>7. QED BY <1>6, <2>1, <2>4, <2>5, <2>6 DEF n
<1>12. MovedTo(A, c, pc, A.ps, Slot(k)) BY <1>11
<1> HIDE DEF c, n, k, ops, x, y
<1>13. /\ Q!Proceed(LeftOf(Pops(Opcode), Pushes(Opcode), c.opStack[k]))
       /\ UNCHANGED <<prog.insns, QvmMem, QvmStatus, IF Alive THEN result ELSE <<>>>>
  BY <1>1, <1>3, <1>5, <1>10, <1>11, <1>12, Computes
<1>14. v = Q!BinaryResult(Q!Opcode, Q!Operand(2), Q!Operand(1))
  BY <1>4, <1>7, <1>8, SameArithmetic DEF v, ops
<1>15. ~ Q!Traps(Q!Opcode, Q!Operand(2), Q!Operand(1)) BY <1>7, <1>8, <1>9, SameArithmetic
<1>16. QED BY <1>4, <1>7, <1>11, <1>13, <1>14, <1>15, SameInstructions DEF Q!Binary, LeftOf, ops

LEMMA LoadSeen == ASSUME Good, NestedNow', LoadValue PROVE Q!LoadValue
<1> DEFINE a == Masked(A.r0)
           v == CASE Opcode = "LOAD4" -> FetchWord(image, a)
                  [] Opcode = "LOAD2" -> Fetch2(image, a)
                  [] Opcode = "LOAD1" -> Fetch1(image, a)
           pc == A.pc + 1
           o == A.ofs
           c == [A EXCEPT !.pc = pc, !.opStack[o] = v, !.r0 = v]
<1>1. At(Load) /\ Dispatch2(c) /\ UNCHANGED <<prog, code, image, vm, frames, status, result>>
  BY DEF LoadValue
<1>2. A \in ActivationRecord /\ o \in Slots /\ o \in Nat /\ A.pc \in Int /\ A.r0 \in Int
  BY <1>1, RunningTyped, Sizes DEF Good, Proper, Sound, At, Slots
<1>3. Load \cap (Diverts \cup {"ENTER"}) = {} BY DEF Diverts, Load
<1>4. Opcode \in Load /\ Pops(Opcode) = 1 /\ Pushes(Opcode) = 1 /\ OperandWords(Opcode) = 0
  <2>1. Opcode \in Load BY <1>1 DEF At
  <2>2. QED BY <2>1, Effects
<1>5. o = A.ofs - Pops(Opcode) + Pushes(Opcode) /\ pc = A.pc + 1 + OperandWords(Opcode)
  BY <1>2, <1>4
<1> HIDE DEF pc, v
<1>6. /\ MovedTo(A, c, pc, A.ps, o) /\ SameCall(A, c, A.ofs - Pops(Opcode)) /\ c.opStack[o] = v
  <2> DEFINE k == o - 1
  <2>0. o - 1 >= 0
    <3>1. A.ofs - Pops(Opcode) >= 0 BY <1>1, PopsInside
    <3>2. QED BY <1>4, <3>1
  <2>1. o \notin 1 .. k /\ k \in Nat BY <1>2, <2>0
  <2>2. k = A.ofs - Pops(Opcode) BY <1>4
  <2> HIDE DEF k
  <2>3. MovedTo(A, c, pc, A.ps, A.ofs) BY <1>2, Moved
  <2> HIDE DEF o
  <2>4. SameCall(A, c, k) BY <1>2, <2>1, CallKept
  <2>5. c.opStack[o] = v BY <1>2 DEF ActivationRecord, Slots
  <2>6. QED BY <2>2, <2>3, <2>4, <2>5 DEF o
<1>7. MovedTo(A, c, pc, A.ps, Slot(o)) BY <1>2, <1>6, Unwrapped
<1> HIDE DEF c
<1>8. /\ Q!Proceed(LeftOf(Pops(Opcode), Pushes(Opcode), c.opStack[o]))
      /\ UNCHANGED <<prog.insns, QvmMem, QvmStatus, IF Alive THEN result ELSE <<>>>>
  <2> HIDE DEF o
  <2>1. QED BY <1>1, <1>3, <1>5, <1>6, <1>7, Computes
<1>9. /\ Q!Executes(Load) /\ Q!Holding(1) /\ Q!Opcode = Opcode /\ Q!Operand(1) = A.r0
  BY <1>1, <1>4, OperandsSeen
<1> DEFINE w == LoadBytes[Opcode]
<1>10. /\ w = Q!Width[Q!Opcode] /\ w \in {1, 2, 4}
       /\ v = CASE w = 1 -> Fetch1(image, a) [] w = 2 -> Fetch2(image, a) [] w = 4 -> FetchWord(image, a)
  BY <1>4, <1>9 DEF LoadBytes, Q!Width, Load, v
<1>11. a \in Nat /\ a = Q!Masked(Q!Operand(1)) BY <1>2, <1>9, SameInstructions, Sizes DEF Masked
<1>12. \A b \in a .. a + w - 1 : b \in InUse
  BY <1>1 DEF Good, Specified, Read
<1>13. QvmMem = [b \in InUse |-> image[b]] BY DEF QvmMem, Good
<1> HIDE DEF a, w
<1>14. Q!Within(QvmMem, a, w) BY <1>12, <1>13, SameWords DEF Within
<1>15. v = CASE w = 1 -> Q!Fetch1(QvmMem, a) [] w = 2 -> Q!Fetch2(QvmMem, a) [] w = 4 -> Q!FetchWord(QvmMem, a)
  <2> DEFINE m == QvmMem
  <2>1. \A b \in a .. a + w - 1 : m[b] = image[b] BY <1>12, <1>13
  <2> HIDE DEF m
  <2>2. w = 1 => Fetch1(m, a) = Fetch1(image, a) BY <1>11, <2>1 DEF Fetch1
  <2>3. w = 2 => Fetch2(m, a) = Fetch2(image, a) BY <1>11, <2>1 DEF Fetch2
  <2>4. w = 4 => FetchWord(m, a) = FetchWord(image, a)
    <3>1. w = 4 => \A b \in a .. a + 3 : m[b] = image[b] BY <1>11, <2>1
    <3>2. QED BY <1>11, <3>1, SameFetch
  <2>5. QED BY <1>10, <2>2, <2>3, <2>4, SameWords DEF m
<1>16. QED BY <1>4, <1>6, <1>8, <1>9, <1>10, <1>11, <1>14, <1>15, SameInstructions DEF Q!LoadValue, LeftOf

-----------------------------------------------------------------------------
(* Instructions that store.                                                *)

LEMMA InUseInside == ASSUME Good PROVE InUse \subseteq 0 .. MemSize - 1
<1>1. Sound /\ StackBottom >= 0 /\ StackBottom <= MemSize /\ StackBottom \in Int /\ MemSize \in Nat
  BY SoundFacts, Sizes DEF Good, Proper, StackBottom
<1>2. ASSUME Level > 0 PROVE A.ps \in Int /\ A.ps >= 0
  <2>1. Level \in 1 .. Level /\ acts \in Seq(ActivationRecord) /\ Level = Len(acts) BY <1>1, <1>2, SoundFacts
  <2>2. A \in ActivationRecord BY <2>1 DEF A
  <2>3. A.ps \in Int BY <2>2 DEF ActivationRecord
  <2>4. CASE A.inSyscall
    <3>1. Roomy(A.ps) BY <1>1, <2>1, <2>4, PlacesInside DEF A
    <3>2. QED BY <2>3, <3>1 DEF Roomy
  <2>5. CASE ~ A.inSyscall BY <1>1, <1>2, <2>3, <2>5 DEF Good, Alive, QvmStatus, Overflown
  <2>6. QED BY <2>3, <2>4, <2>5
<1>3. Level \in Nat BY <1>1, SoundFacts
<1>4. QED BY <1>1, <1>2, <1>3 DEF InUse

LEMMA PutSeen ==
  ASSUME NEW m, NEW S, S \subseteq DOMAIN m, NEW a, NEW n, NEW x
  PROVE  [b \in S |-> Put(m, a, n, x)[b]] = Put([b \in S |-> m[b]], a, n, x)
BY DEF Put

LEMMA CopiedSeen ==
  ASSUME NEW m, NEW S, S \subseteq DOMAIN m, S \subseteq Int, NEW d \in Int, NEW c \in Int, NEW n \in Int,
         c .. c + n - 1 \subseteq S
  PROVE  [b \in S |-> Copied(m, d, c, n)[b]] = Copied([b \in S |-> m[b]], d, c, n)
<1>1. ASSUME NEW b \in S, b \in d .. d + n - 1 PROVE c + b - d \in S BY <1>1
<1>2. QED BY <1>1 DEF Copied

LEMMA StoreSeen == ASSUME Good, NestedNow', StoreValue PROVE Q!StoreValue
<1> DEFINE a == Masked(A.r1)
           w == StoreBytes[Opcode]
           pc == A.pc + 1
           k == A.ofs - 2
           n == Slot(k)
           c == [A EXCEPT !.pc = pc, !.ofs = n]
<1>1. /\ At(Store) /\ Dispatch(c) /\ UNCHANGED <<prog, code, frames, status, result>>
      /\ image' = Put(image, a, w, A.r0)
  BY DEF StoreValue
<1>2. /\ Running /\ A \in ActivationRecord /\ A.ofs \in Nat /\ A.pc \in Int /\ A.r0 \in Int
      /\ A.r1 \in Int
  BY <1>1, RunningTyped, Sizes DEF Good, Proper, Sound, At, Slots
<1>3. Store \cap (Diverts \cup {"ENTER"}) = {} BY DEF Diverts, Store
<1>4. Opcode \in Store /\ Pops(Opcode) = 2 /\ Pushes(Opcode) = 0 /\ OperandWords(Opcode) = 0
  <2>1. Opcode \in Store BY <1>1 DEF At
  <2>2. QED BY <2>1, Effects
<1>5. k = A.ofs - Pops(Opcode) + Pushes(Opcode) /\ pc = A.pc + 1 + OperandWords(Opcode)
  BY <1>2, <1>4
<1>6. k \in Slots /\ n = k /\ k \in Nat
  <2>1. k \in Slots BY <1>1, <1>5, SlotInside
  <2>2. QED BY <2>1, Unwrapped, Sizes DEF Slots
<1>7. MovedTo(A, c, pc, A.ps, Slot(k)) /\ SameCall(A, c, A.ofs - Pops(Opcode))
  <2>1. 0 \notin 1 .. k /\ k = A.ofs - Pops(Opcode) BY <1>4, <1>6
  <2> HIDE DEF n, k, pc
  <2>2. MovedTo(A, c, pc, A.ps, n) BY <1>2, Moved
  <2>3. SameCall(A, c, k) BY <1>2, <1>6, <2>1, CallKept
  <2>4. QED BY <1>6, <2>1, <2>2, <2>3 DEF n
<1>8. image \in Memory /\ DOMAIN image = 0 .. MemSize + 3 /\ Sound
  BY SoundFacts DEF Memory, Good, Proper
<1>9. SameOwned(image, image', frames, acts)
  <2>1. \A x \in 0 .. MemSize + 3 : x \notin Written => image'[x] = image[x]
    BY <1>1, <1>8 DEF Written, Put
  <2>2. QED BY <1>1, <1>2, <1>3, <1>8, <2>1, OutsideWritten
<1>10. /\ Q!Executes(Store) /\ Q!Holding(2) /\ Q!Opcode = Opcode
       /\ Q!Operand(1) = A.r0 /\ Q!Operand(2) = A.r1
  <2>1. Pops(Opcode) >= 1 /\ Pops(Opcode) >= 2 BY <1>4
  <2>2. Q!Holding(Pops(Opcode)) BY <1>1, OperandsSeen
  <2>3. QED BY <1>1, <1>4, <2>1, <2>2, OperandsSeen
<1>11. \A b \in a .. a + w - 1 : b \in InUse
  BY <1>1 DEF Good, Specified, Written
<1>12. w = Q!Width[Q!Opcode] /\ a = Q!Masked(Q!Operand(2))
  BY <1>4, <1>10, SameInstructions DEF StoreBytes, Q!Width, Store
<1> HIDE DEF c, n, k, pc, a, w
<1>13. /\ Alive /\ Alive' /\ InUse' = InUse
       /\ Q!Proceed(LeftOf(Pops(Opcode), Pushes(Opcode), c.opStack[k]))
       /\ UNCHANGED <<prog.insns, QvmStatus, IF Alive THEN result ELSE <<>>>>
  BY <1>1, <1>3, <1>5, <1>7, <1>9, CarriesOn
<1>14. Q!Stored(a, w, A.r0)
  <2>1. QvmMem = [b \in InUse |-> image[b]] /\ QvmMem' = [b \in InUse |-> image'[b]]
    BY <1>13, MemorySeen
  <2>2. Within(QvmMem, a, w) BY <1>11, <2>1 DEF Within
  <2>3. InUse \subseteq DOMAIN image BY <1>8, InUseInside, Sizes
  <2>4. QvmMem' = Put(QvmMem, a, w, A.r0) BY <1>1, <2>1, <2>3, PutSeen
  <2>5. QED BY <2>2, <2>4, SameWords DEF Q!Stored
<1>15. QED BY <1>4, <1>10, <1>12, <1>13, <1>14, SameInstructions DEF Q!StoreValue, LeftOf

LEMMA ArgumentInUse ==
  ASSUME Good, At({"ARG"})
  PROVE  LET a == R2 + A.ps IN Masked(a) = a /\ a \in Int /\ \A x \in a .. a + 3 : x \in InUse
<1> DEFINE a == R2 + A.ps
           b == Below(frames, acts, Level, Calls)
<1>1. Sound /\ Running /\ ~ A.inSyscall BY DEF At, Good, Proper, Running
<1>2. /\ Masked(a) = a /\ a \in Int /\ a >= A.ps + 8 /\ a + 4 <= b /\ Level > 0 /\ b \in Int
  BY <1>1, ArgumentPlaced
<1>3. /\ Roomy(b) /\ \A j \in 1 .. Calls : b <= frames[j].ps
      /\ \A k \in 1 .. Level : b <= Begin(acts, k)
      /\ \A k \in 1 .. Level - 1 : b <= acts[k].ps
  BY <1>1, <1>2, Lowest
<1>4. A.ps \in Int /\ A = acts[Level] /\ DOMAIN acts = 1 .. Level /\ DOMAIN frames = 1 .. Calls
      /\ Level \in Nat
  BY <1>1, RunningTyped, SoundFacts DEF A, Sound
<1>5. /\ \A j \in 1 .. Calls : frames[j].ps \in Int
      /\ \A k \in 1 .. Level : Begin(acts, k) \in Int /\ acts[k].ps \in Int
  <2>1. \A j \in 1 .. Calls : Roomy(frames[j].ps) BY <1>1, PlacesInside
  <2>2. \A k \in 1 .. Level : Roomy(Begin(acts, k)) BY <1>1, PlacesInside
  <2>3. \A k \in 1 .. Level : acts[k] \in ActivationRecord BY <1>1, <1>4, SoundFacts
  <2>4. QED BY <2>1, <2>2, <2>3 DEF Roomy, ActivationRecord
<1> HIDE DEF a, b
<1>6. ASSUME NEW p \in Frames PROVE p \in Int /\ (p = A.ps \/ b <= p)
  <2>1. CASE \E j \in 1 .. Calls : p = frames[j].ps BY <1>3, <1>5, <2>1
  <2>2. CASE \E k \in 1 .. Level : p = Begin(acts, k) BY <1>3, <1>5, <2>2
  <2>3. CASE \E k \in 1 .. Level : p = acts[k].ps
    <3>1. PICK k \in 1 .. Level : p = acts[k].ps BY <2>3
    <3>2. CASE k = Level BY <1>4, <3>1, <3>2
    <3>3. CASE k # Level
      <4>1. k \in 1 .. Level - 1 BY <1>4, <3>3
      <4>2. QED BY <1>3, <1>5, <3>1, <4>1
    <3>4. QED BY <3>2, <3>3
  <2>4. QED BY <1>4, <1>6, <2>1, <2>2, <2>3 DEF Frames, Begin
<1>7. ASSUME NEW x \in a .. a + 3 PROVE x \in InUse
  <2>1. x \in Int /\ x >= A.ps + 8 /\ x < b BY <1>2, <1>4
  <2>2. x \in A.ps .. MemSize - 1
    <3>1. b \in 0 .. MemSize - 4 BY <1>3 DEF Roomy
    <3>2. QED BY <1>2, <1>4, <2>1, <3>1, Sizes
  <2>3. \A p \in Frames : x \notin p .. p + 7 BY <1>2, <1>4, <1>6, <2>1
  <2>4. x \notin Reserved BY <2>3 DEF Reserved
  <2>5. QED BY <1>2, <2>2, <2>4 DEF InUse
<1>8. QED BY <1>2, <1>7 DEF a

LEMMA ArgumentSeen == ASSUME Good, NestedNow', Argument PROVE Q!Argument
<1> DEFINE a == R2 + A.ps
           pc == A.pc + 2
           k == A.ofs - 1
           n == Slot(k)
           c == [A EXCEPT !.pc = pc, !.ofs = n]
           ops == {"ARG"}
<1>1. /\ At(ops) /\ Dispatch(c) /\ UNCHANGED <<prog, code, frames, status, result>>
      /\ image' = Put(image, Masked(a), 4, A.r0)
  BY DEF Argument
<1>2. /\ Running /\ A \in ActivationRecord /\ A.ofs \in Nat /\ A.pc \in Int /\ A.ps \in Int
      /\ A.r0 \in Int
  BY <1>1, RunningTyped, Sizes DEF Good, Proper, Sound, At, Slots
<1>3. ops \cap (Diverts \cup {"ENTER"}) = {} BY DEF Diverts
<1>4. Opcode = "ARG" /\ Pops(Opcode) = 1 /\ Pushes(Opcode) = 0 /\ OperandWords(Opcode) = 1
  <2>1. Opcode = "ARG" BY <1>1 DEF At
  <2>2. QED BY <2>1, Effects
<1>5. k = A.ofs - Pops(Opcode) + Pushes(Opcode) /\ pc = A.pc + 1 + OperandWords(Opcode)
  BY <1>2, <1>4
<1>6. k \in Slots /\ n = k /\ k \in Nat
  <2>1. k \in Slots BY <1>1, <1>5, SlotInside
  <2>2. QED BY <2>1, Unwrapped, Sizes DEF Slots
<1>7. MovedTo(A, c, pc, A.ps, Slot(k)) /\ SameCall(A, c, A.ofs - Pops(Opcode))
  <2>1. 0 \notin 1 .. k /\ k = A.ofs - Pops(Opcode) BY <1>4, <1>6
  <2> HIDE DEF n, k, pc
  <2>2. MovedTo(A, c, pc, A.ps, n) BY <1>2, Moved
  <2>3. SameCall(A, c, k) BY <1>2, <1>6, <2>1, CallKept
  <2>4. QED BY <1>6, <2>1, <2>2, <2>3 DEF n
<1>8. image \in Memory /\ DOMAIN image = 0 .. MemSize + 3 /\ Sound
  BY SoundFacts DEF Memory, Good, Proper
<1>9. SameOwned(image, image', frames, acts) BY <1>8, ArgumentApart
<1>10. /\ Q!Executes(ops) /\ Q!Holding(1) /\ Q!Operand(1) = A.r0 /\ Q!V = R2 /\ Q!Top.ps = A.ps
  <2>1. Opcode \in HasOperand \ CondBranch
    BY <1>4 DEF HasOperand, HasI4Operand, CondBranch, IntBranch, FloatBranch
  <2>2. QED BY <1>1, <1>4, <2>1, OperandsSeen
<1>11. Masked(a) = a /\ a \in Int /\ \A b \in a .. a + 3 : b \in InUse
  BY <1>1, <1>8, ArgumentInUse DEF Good
<1> HIDE DEF c, n, k, pc, a, ops
<1>12. /\ Alive /\ Alive' /\ InUse' = InUse
       /\ Q!Proceed(LeftOf(Pops(Opcode), Pushes(Opcode), c.opStack[k]))
       /\ UNCHANGED <<prog.insns, QvmStatus, IF Alive THEN result ELSE <<>>>>
  BY <1>1, <1>3, <1>5, <1>7, <1>9, CarriesOn
<1>13. Q!Stored(a, 4, A.r0)
  <2>1. QvmMem = [b \in InUse |-> image[b]] /\ QvmMem' = [b \in InUse |-> image'[b]]
    BY <1>12, MemorySeen
  <2>2. Within(QvmMem, a, 4) BY <1>11, <2>1 DEF Within
  <2>3. InUse \subseteq DOMAIN image BY <1>8, InUseInside, Sizes
  <2>4. QvmMem' = Put(QvmMem, a, 4, A.r0) BY <1>1, <1>11, <2>1, <2>3, PutSeen
  <2>5. QED BY <2>2, <2>4, SameWords DEF Q!Stored
<1>14. a = Q!Masked(Q!V + Q!Top.ps) BY <1>10, <1>11, SameInstructions DEF a
<1>15. QED BY <1>4, <1>10, <1>12, <1>13, <1>14 DEF Q!Argument, LeftOf, ops

LEMMA BlockCopySeen == ASSUME Good, NestedNow', BlockCopy PROVE Q!BlockCopy
<1> DEFINE pc == A.pc + 2
           k == A.ofs - 2
           n == Slot(k)
           c == [A EXCEPT !.pc = pc, !.ofs = n]
           ops == {"BLOCK_COPY"}
<1>1. /\ At(ops) /\ Dispatch(c) /\ UNCHANGED <<prog, code, frames, status, result>>
      /\ image' = Copied(image, A.r1, A.r0, R2)
  BY DEF BlockCopy, Good, Proper, Faultless
<1>2. /\ Running /\ A \in ActivationRecord /\ A.ofs \in Nat /\ A.pc \in Int /\ A.r0 \in Int
      /\ A.r1 \in Int
  BY <1>1, RunningTyped, Sizes DEF Good, Proper, Sound, At, Slots
<1>3. ops \cap (Diverts \cup {"ENTER"}) = {} BY DEF Diverts
<1>4. Opcode = "BLOCK_COPY" /\ Pops(Opcode) = 2 /\ Pushes(Opcode) = 0 /\ OperandWords(Opcode) = 1
  <2>1. Opcode = "BLOCK_COPY" BY <1>1 DEF At
  <2>2. QED BY <2>1, Effects
<1>5. k = A.ofs - Pops(Opcode) + Pushes(Opcode) /\ pc = A.pc + 1 + OperandWords(Opcode)
  BY <1>2, <1>4
<1>6. k \in Slots /\ n = k /\ k \in Nat
  <2>1. k \in Slots BY <1>1, <1>5, SlotInside
  <2>2. QED BY <2>1, Unwrapped, Sizes DEF Slots
<1>7. MovedTo(A, c, pc, A.ps, Slot(k)) /\ SameCall(A, c, A.ofs - Pops(Opcode))
  <2>1. 0 \notin 1 .. k /\ k = A.ofs - Pops(Opcode) BY <1>4, <1>6
  <2> HIDE DEF n, k, pc
  <2>2. MovedTo(A, c, pc, A.ps, n) BY <1>2, Moved
  <2>3. SameCall(A, c, k) BY <1>2, <1>6, <2>1, CallKept
  <2>4. QED BY <1>6, <2>1, <2>2, <2>3 DEF n
<1>8. image \in Memory /\ DOMAIN image = 0 .. MemSize + 3 /\ Sound
  BY SoundFacts DEF Memory, Good, Proper
<1>9. /\ ~ At(Store) /\ ~ At(Load) BY <1>4 DEF At, Store, Load
<1>10. Written = A.r1 .. A.r1 + R2 - 1 /\ Read = A.r0 .. A.r0 + R2 - 1
  BY <1>1, <1>9 DEF Written, Read
<1>11. SameOwned(image, image', frames, acts)
  <2>1. \A x \in 0 .. MemSize + 3 : x \notin Written => image'[x] = image[x]
    BY <1>1, <1>8, <1>10 DEF Copied
  <2>2. QED BY <1>1, <1>2, <1>3, <1>8, <2>1, OutsideWritten
<1>12. /\ Q!Executes(ops) /\ Q!Holding(2) /\ Q!V = R2 /\ Q!Operand(1) = A.r0 /\ Q!Operand(2) = A.r1
  <2>1. Pops(Opcode) >= 1 /\ Pops(Opcode) >= 2 BY <1>4
  <2>2. Opcode \in HasOperand \ CondBranch
    BY <1>4 DEF HasOperand, HasI4Operand, CondBranch, IntBranch, FloatBranch
  <2>3. Q!Holding(Pops(Opcode)) BY <1>1, OperandsSeen
  <2>4. QED BY <1>1, <1>4, <2>1, <2>2, <2>3, OperandsSeen
<1>13. Written \subseteq InUse /\ Read \subseteq InUse BY DEF Good, Specified
<1>14. R2 \in Int
  <2>1. ops \subseteq HasOperand BY DEF HasOperand, HasI4Operand
  <2>2. QED BY <1>1, <1>2, <2>1, OperandTyped DEF Good, Proper, Sound
<1> HIDE DEF c, n, k, pc, ops
<1>15. /\ Alive /\ Alive' /\ InUse' = InUse
       /\ Q!Proceed(LeftOf(Pops(Opcode), Pushes(Opcode), c.opStack[k]))
       /\ UNCHANGED <<prog.insns, QvmStatus, IF Alive THEN result ELSE <<>>>>
  BY <1>1, <1>3, <1>5, <1>7, <1>11, CarriesOn
<1>16. /\ Q!Within(QvmMem, A.r1, R2) /\ Q!Within(QvmMem, A.r0, R2)
       /\ QvmMem' = Q!Copied(QvmMem, A.r1, A.r0, R2)
  <2>1. QvmMem = [b \in InUse |-> image[b]] /\ QvmMem' = [b \in InUse |-> image'[b]]
    BY <1>15, MemorySeen
  <2>2. Within(QvmMem, A.r1, R2) /\ Within(QvmMem, A.r0, R2)
    BY <1>10, <1>13, <2>1 DEF Within
  <2>3. InUse \subseteq DOMAIN image /\ InUse \subseteq Int BY <1>8, InUseInside, Sizes
  <2> DEFINE d == A.r1
             r == A.r0
             l == R2
  <2>4. d \in Int /\ r \in Int /\ l \in Int /\ r .. r + l - 1 \subseteq InUse
    BY <1>2, <1>10, <1>13, <1>14
  <2> HIDE DEF d, r, l
  <2>5. [b \in InUse |-> Copied(image, d, r, l)[b]] = Copied([b \in InUse |-> image[b]], d, r, l)
    BY <2>3, <2>4, CopiedSeen
  <2>6. QvmMem' = Copied(QvmMem, A.r1, A.r0, R2) BY <1>1, <2>1, <2>5 DEF d, r, l
  <2>7. QED BY <2>2, <2>6, SameWords
<1>17. QED BY <1>4, <1>12, <1>15, <1>16 DEF Q!BlockCopy, LeftOf, ops

-----------------------------------------------------------------------------
(* Branches and jumps.                                                     *)

LEMMA Diverted ==
  ASSUME Good, NestedNow', NEW ops, At(ops),
         NEW e \in Indices(Insns), NEW i \in Indices(Insns), Here(e, i), NEW j \in Indices(Insns),
         NEW c, Dispatch(c), NEW n \in Slots, n = A.ofs - Pops(Opcode) + Pushes(Opcode),
         MovedTo(A, c, Place(prog, j), A.ps, n), SameCall(A, c, A.ofs - Pops(Opcode)),
         Pushes(Opcode) = 0, UNCHANGED <<prog, code, image, vm, frames, status, result>>
  PROVE  /\ Q!GoTo(j, Q!Below(Pops(Opcode)))
         /\ UNCHANGED <<prog.insns, QvmMem, QvmStatus, IF Alive THEN result ELSE <<>>>>
<1>1. /\ Running /\ Sound /\ Alive /\ status = "ok" /\ Level > 0 /\ A \in ActivationRecord
      /\ QvmStatus = "ok"
  BY RunningTyped DEF At, Good, Proper, Sound, Alive
<1>2. /\ prog' = prog /\ code' = code /\ frames' = frames /\ status' = "ok" /\ result' = result
      /\ image' = image
  BY <1>1
<1>3. SameOwned(image, image', frames, acts) BY <1>2, MemoryKept
<1> DEFINE b == Reloaded(c)
<1>4. MovedTo(A, b, Place(prog, j), A.ps, n) BY <1>1, ReloadMoves
<1>5. acts' = [acts EXCEPT ![Level] = b] BY DEF Dispatch, Continue
<1>6. b.opStack = c.opStack /\ b.command = c.command
  <2>1. DOMAIN c = DOMAIN A BY DEF MovedTo
  <2>2. QED BY <1>1, <2>1 DEF Reloaded, ActivationRecord
<1>7. SameCall(A, b, A.ofs - Pops(Opcode)) BY <1>6 DEF SameCall
<1> HIDE DEF b
<1>8. /\ QvmStatus' = "ok" /\ Alive'
      /\ Q!GoTo(j, LeftOf(Pops(Opcode), Pushes(Opcode), b.opStack[n]))
  BY <1>1, <1>2, <1>3, <1>4, <1>5, <1>7, Resumes
<1>9. QvmMem' = QvmMem
  <2>1. b.entry = A.entry /\ b.ps = A.ps BY <1>4 DEF MovedTo
  <2>2. InUse' = InUse BY <1>1, <1>2, <1>5, <2>1, UsedAlike
  <2>3. \A a \in InUse : image'[a] = image[a] BY <1>2
  <2>4. QED BY <1>1, <1>8, <2>2, <2>3, MemorySeen
<1>10. QED BY <1>1, <1>2, <1>8, <1>9 DEF LeftOf

LEMMA BranchSeen == ASSUME Good, NestedNow', Branch PROVE Q!Branch
<1> DEFINE taken == IF Opcode \in FloatBranch THEN Holds(Opcode, Second, First)
                                              ELSE Holds(Opcode, A.r1, A.r0)
           pc == IF taken THEN R2 ELSE A.pc + 2
           k == A.ofs - 2
           n == Slot(k)
           c == [A EXCEPT !.pc = pc, !.ofs = n]
<1>1. At(CondBranch) /\ UNCHANGED <<prog, code, image, vm, frames, status, result>> /\ Dispatch(c)
  BY DEF Branch
<1>2. /\ A \in ActivationRecord /\ A.ofs \in Slots /\ A.ofs \in Nat /\ A.pc \in Int /\ Running
      /\ Sound
  BY <1>1, RunningTyped, Sizes DEF Good, Proper, Sound, At, Slots
<1>3. PICK e \in Indices(Insns), i \in Indices(Insns) : Here(e, i) BY <1>2, SomewhereHere
<1>4. Opcode \in CondBranch /\ Pops(Opcode) = 2 /\ Pushes(Opcode) = 0 /\ OperandWords(Opcode) = 1
  <2>1. Opcode \in CondBranch BY <1>1 DEF At
  <2>2. QED BY <2>1, Effects
<1> DEFINE t == Arg(Insns, i)
<1>5. /\ t \in Indices(Insns) /\ R2 = Place(prog, t)
      /\ i + 1 \in Indices(Insns) /\ Place(prog, i + 1) = A.pc + 1 + OperandWords(Opcode)
  <2>1. Opcode \notin Diverts BY <1>4 DEF Diverts, CondBranch, IntBranch, FloatBranch
  <2>2. QED BY <1>1, <1>2, <1>3, <1>4, <2>1, NextInstruction
<1>6. k = A.ofs - Pops(Opcode) + Pushes(Opcode) /\ k \in Slots /\ n = k /\ k \in Nat
      /\ k = A.ofs - Pops(Opcode)
  <2>1. k = A.ofs - Pops(Opcode) + Pushes(Opcode) BY <1>2, <1>4
  <2>2. k \in Slots BY <1>1, <2>1, SlotInside
  <2>3. QED BY <1>4, <2>1, <2>2, Unwrapped, Sizes DEF Slots
<1>7. /\ Q!Executes(CondBranch) /\ Q!Holding(2) /\ Q!Opcode = Opcode
      /\ Q!Operand(1) = A.r0 /\ A.r0 = A.opStack[A.ofs]
      /\ Q!Operand(2) = A.r1 /\ A.r1 = A.opStack[Slot(A.ofs - 1)]
  <2>1. Pops(Opcode) >= 1 /\ Pops(Opcode) >= 2 BY <1>4
  <2>2. Q!Holding(Pops(Opcode)) BY <1>1, OperandsSeen
  <2>3. QED BY <1>1, <1>4, <2>1, <2>2, OperandsSeen
<1>8. taken = Q!Holds(Q!Opcode, Q!Operand(2), Q!Operand(1))
  BY <1>7, SameArithmetic DEF First, Second
<1>9. Q!Top.pc = i /\ Q!V = t
  <2>1. Q!Top.pc = i BY <1>2, <1>3, SeenHere DEF Q!Call
  <2>2. QED BY <2>1, SameInstructions DEF Q!V, Insns
<1> DEFINE j == IF taken THEN t ELSE i + 1
<1>10. j \in Indices(Insns) /\ pc = Place(prog, j)
  <2>1. pc = IF taken THEN R2 ELSE A.pc + 1 + OperandWords(Opcode) BY <1>2, <1>4
  <2> HIDE DEF taken, t, pc
  <2>2. QED BY <1>5, <2>1
<1>11. MovedTo(A, c, pc, A.ps, k) /\ SameCall(A, c, k)
  <2>1. 0 \notin 1 .. k BY <1>6
  <2> HIDE DEF n, k, pc, t
  <2>2. MovedTo(A, c, pc, A.ps, n) BY <1>2, Moved
  <2>3. SameCall(A, c, k) BY <1>2, <1>6, <2>1, CallKept
  <2>4. QED BY <1>6, <2>2, <2>3 DEF n
<1> HIDE DEF c, n, k, pc, j, taken
<1>12. /\ Q!GoTo(j, Q!Below(Pops(Opcode)))
       /\ UNCHANGED <<prog.insns, QvmMem, QvmStatus, IF Alive THEN result ELSE <<>>>>
  <2>1. MovedTo(A, c, Place(prog, j), A.ps, k) /\ SameCall(A, c, A.ofs - Pops(Opcode))
    BY <1>6, <1>10, <1>11
  <2>2. QED BY <1>1, <1>3, <1>4, <1>6, <1>10, <2>1, Diverted
<1>13. IF taken THEN Q!GoTo(Q!V, Q!Below(2)) ELSE Q!Proceed(Q!Below(2))
  <2>1. CASE taken BY <1>4, <1>9, <1>12, <2>1 DEF j
  <2>2. CASE ~ taken
    <3>1. j = Q!Top.pc + 1 BY <1>9, <2>2 DEF j
    <3>2. QED BY <1>4, <1>12, <2>2, <3>1 DEF Q!GoTo, Q!Proceed, Q!TopBecomes
  <2>3. QED BY <2>1, <2>2
<1>14. QED BY <1>7, <1>8, <1>12, <1>13, SameInstructions DEF Q!Branch

LEMMA JumpSeen == ASSUME Good, NestedNow', Jump PROVE Q!Jump
<1> DEFINE j == A.r0
           pc == code.pointers[j]
           k == A.ofs - 1
           n == Slot(k)
           c == [A EXCEPT !.pc = pc, !.ofs = n]
           ops == {"JUMP"}
<1>1. /\ At(ops) /\ UNCHANGED <<prog, code, image, vm, frames, status, result>>
      /\ Dispatch(c) /\ j \in 0 .. code.count - 1
  BY DEF Jump, Good, Proper, Faultless
<1>2. /\ A \in ActivationRecord /\ A.ofs \in Slots /\ A.ofs \in Nat /\ A.pc \in Int /\ Running
      /\ Sound /\ TypeInv
  BY <1>1, RunningTyped, Sizes DEF Good, Proper, Sound, At, Slots
<1>3. PICK e \in Indices(Insns), i \in Indices(Insns) : Here(e, i) BY <1>2, SomewhereHere
<1>4. Opcode = "JUMP" /\ Pops(Opcode) = 1 /\ Pushes(Opcode) = 0
  <2>1. Opcode = "JUMP" BY <1>1 DEF At
  <2>2. QED BY <2>1, Effects
<1>5. j \in Indices(Insns) BY <1>1, <1>2, CodeFacts DEF Indices, Insns
<1>6. pc = Place(prog, j)
  <2> HIDE DEF j
  <2>1. QED BY <1>2, <1>5, CodeAt
<1>7. k = A.ofs - Pops(Opcode) + Pushes(Opcode) /\ k \in Slots /\ n = k /\ k \in Nat
      /\ k = A.ofs - Pops(Opcode)
  <2>1. k = A.ofs - Pops(Opcode) + Pushes(Opcode) BY <1>2, <1>4
  <2>2. k \in Slots BY <1>1, <2>1, SlotInside
  <2>3. QED BY <1>4, <2>1, <2>2, Unwrapped, Sizes DEF Slots
<1>8. /\ Q!Executes(ops) /\ Q!Holding(1) /\ Q!Operand(1) = j
  BY <1>1, <1>4, OperandsSeen
<1>9. Opcode = Op(Insns, i) /\ A.pc = Place(prog, i) /\ prog.depth[i] \in Nat
  BY <1>1, <1>2, <1>3, NextInstruction
<1>10. SameFunction(Insns, i, j)
  <2>1. i \in DOMAIN code.pointers /\ code.pointers[i] = A.pc
    <3>1. DOMAIN code.pointers = Indices(Insns) BY <1>2, CodeFacts DEF Indices, Insns
    <3>2. QED BY <1>2, <1>3, <1>9, <3>1, CodeAt
  <2>2. QED BY <1>1, <1>2, <1>5, <2>1, SoundFacts DEF WellBehaved, Insns
<1>11. Q!Top.pc = i /\ Len(Q!Top.ops) = 1 /\ Q!Below(1) = <<>>
  <2> DEFINE o == Ops(A.opStack, BaseOf(frames, Level, Calls), prog.depth[i])
  <2>1. Q!Top.pc = i /\ Q!Top.ops = o BY <1>2, <1>3, SeenHere DEF Q!Call
  <2>2. prog.depth[i] = 1 BY <1>4, <1>9 DEF Good, Specified, Insns
  <2>3. o \in Seq(Word) /\ Len(o) = 1
    <3>1. A.opStack \in [Slots -> Word] BY <1>2, RunningTyped
    <3>2. /\ BaseOf(frames, Level, Calls) \in Nat /\ A.ofs = BaseOf(frames, Level, Calls) + prog.depth[i]
      BY <1>1, <1>2, <1>3, NextInstruction
    <3>3. QED BY <1>2, <1>9, <2>2, <3>1, <3>2, OpsTyped
  <2> HIDE DEF o
  <2>4. SubSeq(o, 1, Len(o) - 1) = <<>> BY <2>3
  <2>5. QED BY <2>1, <2>3, <2>4 DEF Q!Below
<1>12. MovedTo(A, c, pc, A.ps, k) /\ SameCall(A, c, k)
  <2>1. 0 \notin 1 .. k BY <1>7
  <2> HIDE DEF n, k, pc, j
  <2>2. MovedTo(A, c, pc, A.ps, n) BY <1>2, Moved
  <2>3. SameCall(A, c, k) BY <1>2, <1>7, <2>1, CallKept
  <2>4. QED BY <1>7, <2>2, <2>3 DEF n
<1> HIDE DEF c, n, k, pc, j, ops
<1>13. /\ Q!GoTo(j, Q!Below(Pops(Opcode)))
       /\ UNCHANGED <<prog.insns, QvmMem, QvmStatus, IF Alive THEN result ELSE <<>>>>
  <2>1. MovedTo(A, c, Place(prog, j), A.ps, k) /\ SameCall(A, c, A.ofs - Pops(Opcode))
    BY <1>6, <1>7, <1>12
  <2>2. QED BY <1>1, <1>3, <1>4, <1>5, <1>7, <2>1, Diverted
<1>14. Q!SameFunction(prog.insns, Q!Top.pc, Q!Operand(1))
  BY <1>8, <1>10, <1>11, SameInstructions DEF Insns
<1>15. QED BY <1>4, <1>8, <1>11, <1>13, <1>14 DEF Q!Jump, ops

-----------------------------------------------------------------------------
(* What the calls own of the memory.                                       *)

FramesIn(fs, cs) ==
  {fs[j].ps : j \in DOMAIN fs} \cup UNION {{cs[k].ps, Begin(cs, k)} : k \in DOMAIN cs}
InUseIn(fs, cs) ==
  ((0 .. StackBottom - 1) \cup ((IF Len(cs) = 0 THEN MemSize ELSE cs[Len(cs)].ps) .. MemSize - 1))
  \ UNION {p .. p + 7 : p \in FramesIn(fs, cs)}

LEMMA InUseSeen == InUse = InUseIn(frames, acts) /\ InUse' = InUseIn(frames', acts')
<1>1. Frames = FramesIn(frames, acts) BY Zenon DEF Frames, FramesIn, Begin
<1>2. Frames' = FramesIn(frames', acts') BY Zenon DEF Frames, FramesIn, Begin, FrameBytes
<1>3. InUse = InUseIn(frames, acts) BY <1>1 DEF InUse, InUseIn, Reserved, Level, A
<1>4. InUse' = InUseIn(frames', acts')
  <2>1. Reserved' = UNION {p .. p + 7 : p \in FramesIn(frames', acts')} BY <1>2 DEF Reserved
  <2>2. QED BY <2>1 DEF InUse, InUseIn, Level, A, StackBottom
<1>5. QED BY <1>3, <1>4

LEMMA FirstOf ==
  ASSUME NEW p, NEW m, NEW fs, NEW cs, Nested(p, m, fs, cs), NEW k \in 1 .. Len(cs)
  PROVE  \/ Below(fs, cs, k, UpTo(fs, k)) = Begin(cs, k)
         \/ \E j \in 1 .. Len(fs) : fs[j].level = k /\ Below(fs, cs, k, j - 1) = Begin(cs, k)
<1> DEFINE N == Len(fs)
           h == k - 1
           x == UpTo(fs, h)
           y == UpTo(fs, k)
<1>1. N \in Nat /\ Len(cs) \in Nat /\ \A j \in 1 .. N : fs[j].level \in Nat
  BY NestedFacts DEF FrameRecord
<1>2. h \in Nat /\ k \in Nat /\ h = k - 1 BY <1>1
<1> HIDE DEF h
<1>3. /\ x \in 0 .. N /\ \A j \in 1 .. x : fs[j].level <= h
      /\ \A j \in x + 1 .. N : h < fs[j].level
  BY <1>2, CutsAscend DEF Cut
<1>4. /\ y \in 0 .. N /\ \A j \in 1 .. y : fs[j].level <= k
      /\ \A j \in y + 1 .. N : k < fs[j].level
  BY <1>2, CutsAscend DEF Cut
<1> HIDE DEF x, y, N
<1>5. x > 0 => fs[x].level # k
  <2>1. x > 0 => x \in 1 .. x /\ x \in 1 .. N BY <1>1, <1>3
  <2>2. QED BY <1>1, <1>2, <1>3, <2>1
<1>6. Below(fs, cs, k, x) = Begin(cs, k) BY <1>5 DEF Below
<1>7. CASE y = x BY <1>6, <1>7 DEF y
<1>8. CASE y # x
  <2> DEFINE j == x + 1
  <2>1. x < y
    <3>1. ASSUME y < x PROVE FALSE
      <4>1. x \in 1 .. x /\ x \in y + 1 .. N /\ x \in 1 .. N BY <1>1, <1>3, <1>4, <3>1
      <4>2. fs[x].level <= h /\ k < fs[x].level /\ fs[x].level \in Nat BY <1>1, <1>3, <1>4, <4>1
      <4>3. QED BY <1>2, <4>2
    <3>2. QED BY <1>1, <1>3, <1>4, <1>8, <3>1
  <2>2. j \in 1 .. y /\ j \in x + 1 .. N /\ j \in 1 .. N /\ j - 1 = x BY <1>1, <1>3, <1>4, <2>1
  <2>3. fs[j].level <= k /\ h < fs[j].level /\ fs[j].level \in Nat BY <1>1, <1>3, <1>4, <2>2
  <2>4. fs[j].level = k BY <1>2, <2>3
  <2>5. Below(fs, cs, k, j - 1) = Begin(cs, k) BY <1>6, <2>2
  <2> HIDE DEF j
  <2>6. QED BY <2>2, <2>4, <2>5 DEF N
<1>9. QED BY <1>7, <1>8

LEMMA BelowIsFrame ==
  ASSUME NEW fs, NEW cs, DOMAIN cs = 1 .. Len(cs), DOMAIN fs = 1 .. Len(fs), Len(fs) \in Nat,
         NEW k \in 1 .. Len(cs), NEW n \in 0 .. Len(fs)
  PROVE  Below(fs, cs, k, n) \in FramesIn(fs, cs)
<1>1. n > 0 => n \in DOMAIN fs OBVIOUS
<1>2. k \in DOMAIN cs OBVIOUS
<1>3. n > 0 => fs[n].ps \in FramesIn(fs, cs) BY <1>1 DEF FramesIn
<1>4. Begin(cs, k) \in FramesIn(fs, cs) BY <1>2 DEF FramesIn
<1>5. QED BY <1>3, <1>4 DEF Below

LEMMA LiveSeen ==
  ASSUME NEW p, NEW c, NEW m, NEW fs, NEW cs, Nested(p, m, fs, cs)
  PROVE  Q!Live(CallsIn(c, m, fs, cs)) = InUseIn(fs, cs)
<1> DEFINE s == CallsIn(c, m, fs, cs)
           N == Len(fs)
           L == Len(cs)
           Places == {s[q].ps : q \in 1 .. N + L} \cup {s[q].base : q \in 1 .. N + L}
<1>1. /\ N \in Nat /\ L \in Nat /\ DOMAIN fs = 1 .. N /\ DOMAIN cs = 1 .. L
      /\ \A j \in 1 .. N : fs[j].level \in 1 .. L
  <2>1. fs \in Seq(FrameRecord) /\ cs \in Seq(ActivationRecord) BY DEF Nested
  <2>2. QED BY <2>1, NestedFacts
<1>2. /\ s = [n \in 1 .. N + L |-> s[n]]
      /\ \A k \in 1 .. L : s[UpTo(fs, k) + k] = InnermostIn(c, m, fs, cs, k)
      /\ \A j \in 1 .. N : s[j + fs[j].level - 1] = WaitingIn(c, fs, cs, j)
  BY CallsPlaced
<1>3. ASSUME NEW k \in 1 .. L
      PROVE  LET q == UpTo(fs, k) + k
             IN  /\ UpTo(fs, k) \in 0 .. N /\ q \in 1 .. N + L
                 /\ s[q].ps = cs[k].ps /\ s[q].base = Below(fs, cs, k, UpTo(fs, k))
  <2> DEFINE n == UpTo(fs, k)
  <2>1. n \in 0 .. N /\ n \in Nat
    <3>1. k \in Nat BY <1>1
    <3>2. QED BY <1>1, <3>1, CutsAscend
  <2>2. n + k \in 1 .. N + L BY PlacesApart
  <2>3. s[n + k] = InnermostIn(c, m, fs, cs, k) BY <1>2
  <2> HIDE DEF s, n
  <2>4. s[n + k].ps = cs[k].ps /\ s[n + k].base = Below(fs, cs, k, n)
    <3> DEFINE a == cs[k]
    <3>1. CASE a.inSyscall
      <4>1. s[n + k] = CallIn(c, fs, cs, k, n, FetchWord(m, a.ps), a.ps, a.ofs, FetchWord(m, a.ps + 4))
        BY <2>3, <3>1 DEF InnermostIn, n
      <4>2. QED BY <2>1, <4>1, CallForm
    <3>2. CASE ~ a.inSyscall
      <4>1. s[n + k] = CallIn(c, fs, cs, k, n, a.pc, a.ps, a.ofs, -1) BY <2>3, <3>2 DEF InnermostIn, n
      <4>2. QED BY <2>1, <4>1, CallForm
    <3>3. QED BY <3>1, <3>2
  <2>5. QED BY <2>1, <2>2, <2>4 DEF n
<1>4. ASSUME NEW j \in 1 .. N
      PROVE  LET q == j + fs[j].level - 1
             IN  /\ q \in 1 .. N + L /\ j - 1 \in 0 .. N
                 /\ s[q].ps = fs[j].ps /\ s[q].base = Below(fs, cs, fs[j].level, j - 1)
  <2> DEFINE q == j + fs[j].level - 1
             n == j - 1
             f == fs[j]
  <2>1. q \in 1 .. N + L BY PlacesApart
  <2>2. n \in 0 .. N /\ n \in Nat BY <1>1
  <2>3. s[q] = WaitingIn(c, fs, cs, j) BY <1>2
  <2> HIDE DEF s
  <2>4. s[q] = CallIn(c, fs, cs, f.level, n, f.ret, f.ps, f.base, -1) BY <2>3 DEF WaitingIn
  <2> HIDE DEF n, q
  <2>5. s[q].ps = f.ps /\ s[q].base = Below(fs, cs, f.level, n) BY <2>2, <2>4, CallForm
  <2>6. QED BY <2>1, <2>2, <2>5 DEF n, q
<1> HIDE DEF s, N, L
<1>5. ASSUME NEW q \in 1 .. N + L PROVE s[q].ps \in FramesIn(fs, cs) /\ s[q].base \in FramesIn(fs, cs)
  <2>1. CASE \E k \in 1 .. L : q = UpTo(fs, k) + k
    <3>1. PICK k \in 1 .. L : q = UpTo(fs, k) + k BY <2>1
    <3>2. s[q].ps = cs[k].ps /\ s[q].base = Below(fs, cs, k, UpTo(fs, k)) /\ UpTo(fs, k) \in 0 .. N
      BY <1>3, <3>1
    <3>3. cs[k].ps \in FramesIn(fs, cs) BY <1>1 DEF FramesIn
    <3>4. Below(fs, cs, k, UpTo(fs, k)) \in FramesIn(fs, cs) BY <1>1, <3>2, BelowIsFrame DEF N, L
    <3>5. QED BY <3>2, <3>3, <3>4
  <2>2. CASE \E j \in 1 .. N : q = j + fs[j].level - 1
    <3>1. PICK j \in 1 .. N : q = j + fs[j].level - 1 BY <2>2
    <3> DEFINE n == j - 1
               k == fs[j].level
    <3>2. s[q].ps = fs[j].ps /\ s[q].base = Below(fs, cs, k, n) /\ n \in 0 .. N BY <1>4, <3>1
    <3>3. fs[j].ps \in FramesIn(fs, cs) BY <1>1 DEF FramesIn
    <3>4. k \in 1 .. L BY <1>1
    <3> HIDE DEF n, k
    <3>5. Below(fs, cs, k, n) \in FramesIn(fs, cs) BY <1>1, <3>2, <3>4, BelowIsFrame DEF N, L
    <3>6. QED BY <3>2, <3>3, <3>5
  <2>3. QED BY <2>1, <2>2, PlacesFilled DEF N, L
<1>6. ASSUME NEW a \in FramesIn(fs, cs) PROVE a \in Places
  <2>1. CASE \E j \in 1 .. N : a = fs[j].ps BY <1>4, <2>1
  <2>2. CASE \E k \in 1 .. L : a = cs[k].ps
    <3>1. PICK k \in 1 .. L : a = cs[k].ps BY <2>2
    <3>2. UpTo(fs, k) + k \in 1 .. N + L /\ s[UpTo(fs, k) + k].ps = a BY <1>3, <3>1
    <3>3. QED BY <3>2
  <2>3. CASE \E k \in 1 .. L : a = Begin(cs, k)
    <3>1. PICK k \in 1 .. L : a = Begin(cs, k) BY <2>3
    <3>2. CASE Below(fs, cs, k, UpTo(fs, k)) = Begin(cs, k)
      <4>1. UpTo(fs, k) + k \in 1 .. N + L /\ s[UpTo(fs, k) + k].base = a BY <1>3, <3>1, <3>2
      <4>2. QED BY <4>1
    <3>3. CASE \E j \in 1 .. N : fs[j].level = k /\ Below(fs, cs, k, j - 1) = Begin(cs, k)
      <4>1. PICK j \in 1 .. N : fs[j].level = k /\ Below(fs, cs, k, j - 1) = Begin(cs, k) BY <3>3
      <4>2. j + fs[j].level - 1 \in 1 .. N + L /\ s[j + fs[j].level - 1].base = a BY <1>4, <3>1, <4>1
      <4>3. QED BY <4>2
    <3>4. QED BY <3>2, <3>3, FirstOf DEF N, L
  <2>4. QED BY <1>1, <1>6, <2>1, <2>2, <2>3 DEF FramesIn
<1>7. FramesIn(fs, cs) = Places BY <1>5, <1>6
<1>8. DOMAIN s = 1 .. N + L BY <1>2
<1>9. UNION {Q!Linkage(s[q]) : q \in DOMAIN s} = UNION {a .. a + 7 : a \in FramesIn(fs, cs)}
  <2>1. UNION {Q!Linkage(s[q]) : q \in 1 .. N + L} = UNION {a .. a + 7 : a \in Places}
    BY DEF Q!Linkage
  <2> HIDE DEF Places
  <2>2. QED BY <1>7, <1>8, <2>1
<1>10. Q!Lowest(s) = IF L = 0 THEN MemSize ELSE cs[L].ps
  <2>1. CASE L = 0
    <3>1. N = 0
      <4>1. N > 0 => 1 \in 1 .. N BY <1>1
      <4>2. QED BY <1>1, <2>1, <4>1
    <3>2. DOMAIN s = {} BY <1>1, <1>8, <2>1, <3>1
    <3>3. s = <<>> BY <1>2, <1>8, <3>2
    <3>4. QED BY <2>1, <3>3 DEF Q!Lowest
  <2>2. CASE L # 0
    <3> DEFINE K == N + L
               D == {s[n] : n \in 1 .. K}
    <3>1. K \in Nat /\ K > 0 BY <1>1, <2>2
    <3> HIDE DEF K
    <3>2. s \in [1 .. K -> D] BY <1>2 DEF K
    <3> HIDE DEF D
    <3>3. Len(s) = K /\ s \in Seq(D) BY <3>1, <3>2, AsSequence
    <3>4. s[K].ps = cs[L].ps
      <4>1. UpTo(fs, L) = N BY LastPlace DEF N, L
      <4>2. L \in 1 .. L BY <1>1, <2>2
      <4>3. s[UpTo(fs, L) + L].ps = cs[L].ps BY <1>3, <4>2
      <4>4. QED BY <4>1, <4>3 DEF K
    <3>5. s # <<>> BY <3>1, <3>3
    <3>6. QED BY <2>2, <3>3, <3>4, <3>5 DEF Q!Lowest
  <2>3. QED BY <2>1, <2>2
<1>11. QED BY <1>9, <1>10, SameInstructions DEF Q!Live, InUseIn, L, s

\* What is in use before and after a step keeps its bytes.
LEMMA KeptSeen ==
  ASSUME Alive, Alive', NestedNow', status' = "ok",
         \A a \in InUse \cap InUse' : image'[a] = image[a]
  PROVE  Q!MemoryKept(QvmCalls')
<1> DEFINE cs2 == acts'
           fs2 == frames'
           m2  == image'
           c2  == code'
           p2  == prog'
           use == InUse'
           s   == CallsIn(c2, m2, fs2, cs2)
<1>1. QvmCalls' = s BY CallsSeenNext
<1>2. Nested(p2, m2, fs2, cs2) BY DEF NestedNow
<1>3. use = InUseIn(fs2, cs2) BY InUseSeen
<1>4. QvmMem = [a \in InUse |-> image[a]] /\ QvmMem' = [a \in use |-> m2[a]] BY DEF QvmMem
<1> HIDE DEF cs2, fs2, m2, c2, p2, s, use
<1>5. Q!Live(s) = use BY <1>2, <1>3, LiveSeen DEF s
<1>6. \A a \in InUse \cap use : m2[a] = image[a] BY DEF m2, use
<1> HIDE DEF InUse
<1>7. QED BY <1>1, <1>4, <1>5, <1>6 DEF Q!MemoryKept

LEMMA LinkageApart ==
  ASSUME Sound, Level > 0 PROVE \A x \in A.ps .. A.ps + 7 : x \notin InUse
<1>1. Level \in DOMAIN acts BY SoundFacts
<1>2. A.ps \in Frames BY <1>1 DEF Frames, A
<1>3. QED BY <1>2 DEF InUse, Reserved

-----------------------------------------------------------------------------
(* System calls.                                                           *)

LEMMA NumberPut ==
  ASSUME Sound, At({"CALL"}), A.r0 < 0
  PROVE  LET m == Put(SavedPc(image), A.ps + 4, 4, -1 - A.r0)
         IN  /\ FetchWord(m, A.ps) = A.pc + 1 /\ Noted(m, A.ps) = -1 - A.r0
             /\ SameOwned(image, m, frames, acts)
             /\ \A x \in 0 .. MemSize + 3 : x \notin A.ps .. A.ps + 7 => m[x] = image[x]
<1> DEFINE B == Below(frames, acts, Level, Calls)
           v == -1 - A.r0
           m1 == SavedPc(image)
           m == Put(m1, A.ps + 4, 4, v)
<1>1. Running BY DEF At
<1>2. A.ps \in Int /\ Level > 0 /\ A.r0 \in Word BY <1>1, RunningTyped DEF Sound
<1>3. /\ Roomy(A.ps) /\ A.ps + 8 <= B /\ B \in Int
      /\ m1 \in Memory /\ FetchWord(m1, A.ps) = A.pc + 1
      /\ \A x \in 0 .. MemSize + 3 : x >= B => m1[x] = image[x]
  BY Calling
<1>4. v \in Word
  <2>1. HalfMod \in Nat BY WordSizes
  <2>2. QED BY <1>2, <2>1 DEF Word
<1>5. DOMAIN image = 0 .. MemSize + 3 BY SoundFacts DEF Memory
<1>6. \A x \in 0 .. MemSize + 3 : x \notin A.ps .. A.ps + 3 => m1[x] = image[x]
  BY <1>2, <1>5 DEF SavedPc, Put
<1> HIDE DEF m1, v
<1>7. /\ A.ps \in Int /\ A.ps + 4 \in Int /\ m1 \in [0 .. MemSize + 3 -> Byte]
      /\ DOMAIN m1 = 0 .. MemSize + 3
      /\ A.ps .. A.ps + 3 \subseteq 0 .. MemSize + 3
      /\ (A.ps + 4) .. (A.ps + 4) + 3 \subseteq 0 .. MemSize + 3
  BY <1>2, <1>3, Sizes DEF Roomy, Memory
<1>8. Noted(m, A.ps) = v BY <1>4, <1>7, PutThere DEF Noted
<1>9. FetchWord(m, A.ps) = A.pc + 1
  <2> DEFINE a == A.ps
  <2>1. \A x \in a .. a + 3 : m[x] = m1[x] BY <1>7 DEF Put
  <2>2. a \in Int BY <1>7
  <2> HIDE DEF m, a
  <2>3. FetchWord(m, a) = FetchWord(m1, a) BY <2>1, <2>2, SameFetch
  <2>4. QED BY <1>3, <2>3 DEF a
<1>10. SameOwned(image, m, frames, acts)
  <2>1. \A x \in 0 .. MemSize + 3 : x >= B => m[x] = image[x]
    <3> HIDE DEF B
    <3>1. QED BY <1>2, <1>3, <1>7 DEF Put
  <2> HIDE DEF m
  <2>2. QED BY <1>2, <2>1, LowStores
<1>11. \A x \in 0 .. MemSize + 3 : x \notin A.ps .. A.ps + 7 => m[x] = image[x]
  BY <1>2, <1>6, <1>7, Sizes DEF Put
<1>12. QED BY <1>8, <1>9, <1>10, <1>11 DEF m, m1, v

LEMMA SystemSeen == ASSUME Good, NestedNow', status' = "ok", CallSystem PROVE Q!CallSystem
<1> DEFINE L == Level
           N == Calls
           B == BaseOf(frames, L, N)
           o == A.ofs - 1
           t == FetchWord(image, A.ps + 4)
           m == Put(SavedPc(image), A.ps + 4, 4, -1 - A.r0)
           b == [[A EXCEPT !.ofs = o] EXCEPT !.pc = A.r0, !.inSyscall = TRUE, !.stomped = t]
           base == Below(frames, acts, L, N)
           cmd  == CommandOf(frames, acts, L, N)
           ops  == {"CALL"}
<1>1. At(ops) /\ Running /\ Sound /\ Alive /\ TypeInv BY DEF CallSystem, At, Good, Proper, Sound
<1>2. /\ A \in ActivationRecord /\ A.ofs \in Slots /\ A.ofs \in Int /\ A.ps \in Int
      /\ Level > 0 /\ A.opStack \in [Slots -> Word]
  BY <1>1, RunningTyped DEF Sound
<1>3. /\ A.r0 < 0 /\ image' = m /\ acts' = [acts EXCEPT ![Level] = b]
      /\ UNCHANGED <<prog, code, frames, status, result>>
  <2>1. Slot(o) = o BY <1>1, Calling
  <2>2. Called = [A EXCEPT !.ofs = o] BY <2>1 DEF Called
  <2>3. ~ Halt("undefined") BY DEF Halt
  <2>4. QED BY <2>2, <2>3 DEF CallSystem, Continue
<1>4. /\ FetchWord(m, A.ps) = A.pc + 1 /\ Noted(m, A.ps) = -1 - A.r0
      /\ SameOwned(image, m, frames, acts)
      /\ \A x \in 0 .. MemSize + 3 : x \notin A.ps .. A.ps + 7 => m[x] = image[x]
  BY <1>1, <1>3, NumberPut
<1>5. /\ b.entry = A.entry /\ b.inSyscall /\ b.ps = A.ps /\ b.ofs = o
      /\ b.opStack = A.opStack /\ b.command = A.command
  <2> HIDE DEF t, o
  <2>1. QED BY <1>2 DEF ActivationRecord
<1> HIDE DEF b, m
<1>6. PICK e \in Indices(Insns), i \in Indices(Insns) : Here(e, i) BY <1>1, SomewhereHere
<1> DEFINE d == prog.depth[i]
           j == i + 1
           q == Ops(A.opStack, B, d)
<1>7. /\ Opcode \in ops /\ d \in Nat /\ d >= Pops(Opcode) /\ B \in Nat /\ A.ofs = B + d
      /\ j \in Indices(Insns) /\ Place(prog, j) = A.pc + 1 /\ Pops(Opcode) = 1
  <2>1. /\ Opcode = Op(Insns, i) /\ Opcode \in ops /\ d \in Nat /\ d >= Pops(Opcode) /\ B \in Nat
        /\ A.ofs = B + d
        /\ Opcode \notin Diverts =>
             i + 1 \in Indices(Insns) /\ Place(prog, i + 1) = A.pc + 1 + OperandWords(Opcode)
    BY <1>1, <1>6, NextInstruction
  <2>2. Opcode \notin Diverts /\ Pops(Opcode) = 1 /\ OperandWords(Opcode) = 0
    BY <2>1, Effects DEF Diverts
  <2>3. A.pc \in Int BY <1>1, RunningTyped DEF Sound
  <2>4. QED BY <2>1, <2>2, <2>3
<1>8. Q!Top = Q!Call(i, A.ps, base, q, -1, cmd) /\ QvmStatus = "ok" /\ QvmCalls # <<>>
  BY <1>1, <1>6, SeenHere
<1>9. Q!Executes(ops) /\ Q!Holding(1) /\ Q!Operand(1) = A.r0 BY <1>1, <1>7, OperandsSeen
<1>10. IndexIn(code, A.pc + 1) = j BY <1>1, <1>7, PlaceFound
<1>11. Q!Below(1) = Ops(A.opStack, B, o - B)
  <2>1. d - 1 \in 0 .. d /\ o - B = d - 1 /\ B + d \in Slots BY <1>2, <1>7
  <2> HIDE DEF B, d, o
  <2>2. Len(q) = d BY <1>2, <1>7, <2>1, OpsTyped
  <2>3. SubSeq(q, 1, d - 1) = Ops(A.opStack, B, d - 1) BY <1>7, <2>1, OpsDropped
  <2> HIDE DEF q
  <2>4. QED BY <1>8, <2>1, <2>2, <2>3 DEF Q!Below, Q!Call
<1>12. /\ Alive' /\ QvmStatus' = "ok"
       /\ QvmCalls' =
            Append(Q!Callers,
                   Q!Call(IndexIn(code, IF b.inSyscall THEN FetchWord(image', b.ps) ELSE b.pc),
                          b.ps, base, Ops(b.opStack, B, b.ofs - B),
                          IF b.inSyscall THEN Noted(image', b.ps) ELSE -1, cmd))
  <2>1. SameOwned(image, image', frames, acts) BY <1>3, <1>4
  <2>2. \A s \in 1 .. BaseOf(frames, Level, Calls) : b.opStack[s] = A.opStack[s] BY <1>5
  <2>3. QED BY <1>2, <1>3, <1>5, <2>1, <2>2, TopGoes
<1>13. QvmMem' = QvmMem
  <2>1. InUse' = InUse BY <1>1, <1>2, <1>3, <1>5, UsedAlike
  <2>2. ASSUME NEW x \in InUse PROVE image'[x] = image[x]
    <3>1. x \notin A.ps .. A.ps + 7 BY <1>1, <1>2, LinkageApart
    <3>2. x \in 0 .. MemSize + 3 BY InUseInside, Sizes
    <3>3. QED BY <1>3, <1>4, <3>1, <3>2
  <2>3. QED BY <1>1, <1>12, <2>1, <2>2, MemorySeen
<1> HIDE DEF base, cmd, q, o, B, L, N, d, j
<1> DEFINE r == Ops(A.opStack, B, o - B)
           v == -1 - A.r0
<1> HIDE DEF r, v
<1>14. QvmCalls' = Append(Q!Callers, Q!Call(j, A.ps, base, r, v, cmd))
  BY <1>3, <1>4, <1>5, <1>10, <1>12 DEF r, v
<1>15. Suspending(Q!Top, j, r, v) = Q!Call(j, A.ps, base, r, v, cmd) BY <1>8, CallMoved
<1>16. Q!Top.pc + 1 = j BY <1>8 DEF Q!Call, j
<1>17. Q!TopBecomes(Suspending(Q!Top, Q!Top.pc + 1, Q!Below(1), -1 - Q!Operand(1)))
  BY <1>9, <1>11, <1>14, <1>15, <1>16 DEF Q!TopBecomes, r, v
<1>18. UNCHANGED <<prog.insns, QvmMem, QvmStatus, IF Alive THEN result ELSE <<>>>>
  BY <1>1, <1>3, <1>8, <1>12, <1>13
<1>19. QED BY <1>3, <1>9, <1>17, <1>18 DEF Q!CallSystem, Suspending

\* While the host has control.
LEMMA SeenSuspended ==
  ASSUME Good, Level > 0, A.inSyscall
  PROVE  /\ Q!Top = Q!Call(IndexIn(code, FetchWord(image, A.ps)), A.ps,
                           Below(frames, acts, Level, Calls),
                           Ops(A.opStack, BaseOf(frames, Level, Calls),
                               A.ofs - BaseOf(frames, Level, Calls)),
                           -1 - A.pc, CommandOf(frames, acts, Level, Calls))
         /\ QvmStatus = "ok" /\ QvmCalls # <<>> /\ Q!Top.sys # -1
         /\ A \in ActivationRecord /\ Grounded(A) /\ Roomy(A.ps)
<1> DEFINE L == Level
           N == Calls
           B == BaseOf(frames, L, N)
           base == Below(frames, acts, L, N)
           cmd  == CommandOf(frames, acts, L, N)
           t == CallsIn(code, image, frames, acts)[N + L]
<1>1. /\ Sound /\ Alive /\ Nested(prog, image, frames, acts) /\ L = Len(acts) /\ N = Len(frames)
      /\ L \in 1 .. L /\ acts \in Seq(ActivationRecord) /\ status = "ok"
  BY SoundFacts DEF Good, Proper, Sound, Calls
<1>2. A \in ActivationRecord /\ Grounded(A) BY <1>1 DEF Good, Proper, StackInv, A
<1>3. A.pc \in Int /\ A.pc < 0 BY <1>2 DEF Grounded, ActivationRecord
<1>4. Noted(image, A.ps) = -1 - A.pc /\ Roomy(A.ps) BY <1>1, SuspendedHere DEF Suspended, A
<1>5. QvmStatus = "ok" /\ QvmCalls # <<>> /\ Q!Top = t
  BY <1>1, SeenCalls
<1>6. t = [pc |-> IndexIn(code, IF A.inSyscall THEN FetchWord(image, A.ps) ELSE A.pc),
           ps |-> A.ps, base |-> base, ops |-> Ops(A.opStack, B, A.ofs - B),
           sys |-> IF A.inSyscall THEN Noted(image, A.ps) ELSE -1, cmd |-> cmd]
  BY <1>1, LastCall DEF A
<1> HIDE DEF t, L, N, B, base, cmd
<1>7. t = Q!Call(IndexIn(code, FetchWord(image, A.ps)), A.ps, base, Ops(A.opStack, B, A.ofs - B),
                 -1 - A.pc, cmd)
  BY <1>4, <1>6 DEF Q!Call
<1>8. t.sys # -1 BY <1>3, <1>7 DEF Q!Call
<1>9. QED BY <1>2, <1>4, <1>5, <1>7, <1>8 DEF t, L, N, B, base, cmd

LEMMA AnswerPut ==
  ASSUME Good, Level > 0, A.inSyscall, NEW w \in HostWrites
  PROVE  LET m == Restored(Overwritten(image, w))
         IN  /\ FetchWord(m, A.ps) = FetchWord(image, A.ps)
             /\ SameOwned(image, m, frames, acts)
             /\ \A x \in InUse : m[x] = IF x \in DOMAIN w THEN w[x] ELSE image[x]
<1> DEFINE B == Below(frames, acts, Level, Calls)
           m1 == Overwritten(image, w)
           m == Restored(m1)
<1>1. Sound /\ image \in Memory /\ DOMAIN image = 0 .. MemSize + 3
  BY SoundFacts DEF Good, Proper, Memory
<1>2. A.ps \in Int BY SeenSuspended DEF ActivationRecord
<1>3. Roomy(A.ps) /\ Under(frames, acts, A.ps, Level, Calls)
  BY <1>1, SuspendedHere DEF Suspended, A
<1>4. B \in Int /\ Roomy(B) BY <1>1, Lowest
<1>5. A.ps + 8 <= B
  <2>1. Level \in Nat /\ Level \in 1 .. Level /\ Calls \in Nat BY <1>1, SoundFacts
  <2>2. A.ps + 8 <= Begin(acts, Level) /\ \A j \in 1 .. Calls : A.ps + 8 <= frames[j].ps
    BY <1>3, <2>1 DEF Under
  <2>3. QED BY <2>1, <2>2 DEF Below
<1>6. SameOwned(image, m1, frames, acts) /\ SameAt(image, m1, A.ps)
  <2>1. DOMAIN w \cap Reserved = {} BY <1>1, SoundFacts DEF WellBehaved, InSyscall, Sound
  <2>2. \A x \in (0 .. MemSize + 3) \cap Reserved : m1[x] = image[x] BY <1>1, <2>1 DEF Overwritten
  <2>3. m1 \in Memory
    <3>1. \A x \in DOMAIN w : w[x] \in Byte BY HostAssumption
    <3>2. QED BY <1>1, <3>1 DEF Overwritten, Memory
  <2> HIDE DEF m1
  <2>4. QED BY <1>1, <1>3, <2>2, <2>3, OtherStores
<1>7. DOMAIN m1 = 0 .. MemSize + 3 BY <1>1 DEF Overwritten
<1>8. \A x \in 0 .. MemSize + 3 : m1[x] = IF x \in DOMAIN w THEN w[x] ELSE image[x]
  BY <1>1 DEF Overwritten
<1>9. m = Put(m1, A.ps + 4, 4, A.stomped) BY DEF Restored
<1> HIDE DEF m1, m, B
<1>10. \A x \in 0 .. MemSize + 3 : x \notin (A.ps + 4) .. (A.ps + 4) + 3 => m[x] = m1[x]
  BY <1>7, <1>9 DEF Put
<1>11. FetchWord(m, A.ps) = FetchWord(image, A.ps)
  <2> DEFINE a == A.ps
  <2>1. \A x \in a .. a + 3 : m[x] = m1[x] BY <1>2, <1>3, <1>10, Sizes DEF Roomy
  <2>2. a \in Int BY <1>2
  <2> HIDE DEF a
  <2>3. FetchWord(m, a) = FetchWord(m1, a) BY <2>1, <2>2, SameFetch
  <2>4. QED BY <1>6, <2>3 DEF SameAt, a
<1>12. SameOwned(image, m, frames, acts)
  <2>1. \A x \in 0 .. MemSize + 3 : x >= B => m[x] = m1[x] BY <1>2, <1>4, <1>5, <1>10
  <2>2. SameOwned(m1, m, frames, acts) BY <1>1, <2>1, LowerStores DEF B
  <2>3. QED BY <1>6, <2>2 DEF SameOwned, SameAt
<1>13. ASSUME NEW x \in InUse PROVE m[x] = IF x \in DOMAIN w THEN w[x] ELSE image[x]
  <2>1. x \in 0 .. MemSize + 3 BY InUseInside, Sizes
  <2>2. x \notin A.ps .. A.ps + 7 BY <1>1, LinkageApart
  <2>3. x \notin (A.ps + 4) .. (A.ps + 4) + 3 BY <1>2, <2>2
  <2>4. QED BY <1>8, <1>10, <2>1, <2>3
<1>14. QED BY <1>11, <1>12, <1>13 DEF m, m1

LEMMA AnswerSeen ==
  ASSUME Good, NestedNow', NEW v \in HostReplies, NEW w \in HostWrites, SystemCallReturns(v, w)
  PROVE  Q!SystemCallReturns
<1> DEFINE L == Level
           N == Calls
           B == BaseOf(frames, L, N)
           k == A.ofs - B
           n == A.ofs + 1
           m == Restored(Overwritten(image, w))
           pc == FetchWord(m, A.ps)
           c == [A EXCEPT !.inSyscall = FALSE, !.ofs = Slot(n), !.opStack[Slot(n)] = v, !.pc = pc]
           b == Reloaded(c)
           base == Below(frames, acts, L, N)
           cmd  == CommandOf(frames, acts, L, N)
           q == Ops(A.opStack, B, k)
           at == IndexIn(code, FetchWord(image, A.ps))
<1>1. InSyscall /\ Level > 0 /\ A.inSyscall /\ Sound /\ status = "ok" /\ Alive
  BY DEF SystemCallReturns, InSyscall, Good, Proper, Sound
<1>2. /\ Q!Top = Q!Call(at, A.ps, base, q, -1 - A.pc, cmd)
      /\ QvmStatus = "ok" /\ QvmCalls # <<>> /\ Q!Top.sys # -1
      /\ A \in ActivationRecord /\ Grounded(A) /\ Roomy(A.ps)
  BY <1>1, SeenSuspended
<1>3. A.ofs \in Slots /\ A.ofs \in Nat /\ A.ps \in Int /\ A.ps > StackBottom /\ DOMAIN A.opStack = Slots
      /\ A.opStack \in [Slots -> Word]
  BY <1>1, <1>2, Sizes DEF ActivationRecord, Slots, Grounded
<1>4. /\ image' = m /\ acts' = [acts EXCEPT ![Level] = b]
      /\ UNCHANGED <<prog, code, vm, frames, status, result>>
  BY DEF SystemCallReturns, Dispatch, Continue
<1>5. n \in Slots /\ B \in Nat /\ k \in Nat
  <2>1. PICK e \in Indices(Insns), i \in Indices(Insns) :
          /\ InFunction(Insns, e, i) /\ Op(Insns, i) = "CALL"
          /\ A.ofs + 1 = B + prog.depth[i] /\ A.ofs + 1 <= OpSlots - 1
    BY <1>1, SuspendedHere DEF Suspended, Waits, Insns, A
  <2>2. prog.depth[i] \in Nat /\ prog.depth[i] >= 1
    <3>1. prog.depth[i] \in Nat /\ prog.depth[i] >= Pops(Op(Insns, i))
      BY <1>1, SoundFacts DEF WellFormed, ConsistentDepths
    <3>2. QED BY <2>1, <3>1, Effects
  <2>3. B \in Nat
    <3>1. N > 0 => frames[N] \in FrameRecord
      <4>1. N \in Nat /\ (N > 0 => N \in 1 .. N) BY <1>1, SoundFacts
      <4>2. QED BY <1>1, <4>1, SoundFacts, NestedFacts DEF Calls
    <3>2. QED BY <3>1, Sizes DEF BaseOf, FrameRecord, Slots
  <2> HIDE DEF B
  <2>4. k \in Nat BY <1>3, <2>1, <2>2, <2>3
  <2>5. QED BY <1>3, <2>1, <2>3, <2>4, Sizes DEF Slots
<1>6. Slot(n) = n /\ B + k = A.ofs /\ n = B + k + 1
  <2> HIDE DEF B
  <2>1. QED BY <1>3, <1>5, Unwrapped
<1>7. /\ pc = FetchWord(image, A.ps) /\ SameOwned(image, image', frames, acts)
      /\ \A x \in InUse : image'[x] = IF x \in DOMAIN w THEN w[x] ELSE image[x]
  BY <1>1, <1>4, AnswerPut
<1> HIDE DEF m
<1>8. /\ b.entry = A.entry /\ ~ b.inSyscall /\ b.pc = pc /\ b.ps = A.ps /\ b.ofs = n
      /\ b.command = A.command /\ b.opStack = [A.opStack EXCEPT ![n] = v]
  <2> HIDE DEF n, pc
  <2>1. c.entry = A.entry /\ ~ c.inSyscall /\ c.pc = pc /\ c.ps = A.ps /\ c.ofs = n /\ DOMAIN c = DOMAIN A
        /\ c.command = A.command /\ c.opStack = [A.opStack EXCEPT ![n] = v]
    BY <1>2, <1>6 DEF ActivationRecord
  <2> HIDE DEF c
  <2>2. QED BY <1>2, <2>1 DEF Reloaded, ActivationRecord
<1> HIDE DEF b, pc
<1>9. b.opStack[n] = v /\ Alike(A.opStack, b.opStack, B, k) /\ \A s \in 1 .. B : b.opStack[s] = A.opStack[s]
  <2>1. \A s \in 1 .. B + k : s \in Slots /\ s # n
    <3> HIDE DEF B, k
    <3>1. QED BY <1>3, <1>5, <1>6, Sizes DEF Slots
  <2>2. \A s \in 1 .. B + k : b.opStack[s] = A.opStack[s] BY <1>3, <1>8, <2>1
  <2>3. (\A s \in 1 .. k : B + s \in 1 .. B + k) /\ \A s \in 1 .. B : s \in 1 .. B + k
    <3> HIDE DEF B, k
    <3>1. QED BY <1>5
  <2> HIDE DEF B, k
  <2>4. QED BY <1>3, <1>5, <1>8, <2>2, <2>3 DEF Alike
<1>10. /\ Alive' /\ QvmStatus' = "ok"
       /\ QvmCalls' =
            Append(Q!Callers,
                   Q!Call(IndexIn(code, IF b.inSyscall THEN FetchWord(image', b.ps) ELSE b.pc),
                          b.ps, base, Ops(b.opStack, B, b.ofs - B),
                          IF b.inSyscall THEN Noted(image', b.ps) ELSE -1, cmd))
  <2>1. \A s \in 1 .. BaseOf(frames, Level, Calls) : b.opStack[s] = A.opStack[s] BY <1>9
  <2>2. b.ps \in Int /\ b.ps > StackBottom /\ status' = "ok" /\ prog' = prog /\ code' = code
        /\ frames' = frames
    BY <1>1, <1>3, <1>4, <1>8
  <2>3. QED BY <1>1, <1>4, <1>7, <1>8, <2>1, <2>2, TopGoes
<1>11. InUse' = InUse
  <2>1. frames' = frames BY <1>4
  <2>2. QED BY <1>1, <1>4, <1>8, <2>1, UsedAlike
<1>12. QvmMem' = Overwritten(QvmMem, w)
  <2>1. QvmMem = [x \in InUse |-> image[x]] /\ QvmMem' = [x \in InUse |-> image'[x]]
    BY <1>1, <1>10, <1>11, MemorySeen
  <2> HIDE DEF InUse
  <2>2. QED BY <1>7, <2>1 DEF Overwritten
<1> HIDE DEF base, cmd, B, L, N, k, n, at
<1> DEFINE s1 == A.opStack
           s2 == b.opStack
           r == Ops(s2, B, n - B)
<1>13. r = Append(q, v)
  <2>1. Alike(s1, s2, B, k) BY <1>9
  <2>2. s2[B + k + 1] = v /\ n - B = k + 1 BY <1>5, <1>6, <1>9
  <2> HIDE DEF s1, s2
  <2>3. Append(Ops(s1, B, k), s2[B + k + 1]) = Ops(s2, B, k + 1) BY <1>5, <2>1, OpsPushed
  <2>4. QED BY <2>2, <2>3 DEF s1
<1> HIDE DEF r, q
<1>14. QvmCalls' = Append(Q!Callers, Q!Call(at, A.ps, base, r, -1, cmd))
  BY <1>7, <1>8, <1>10 DEF r, at
<1>15. Answered(Q!Top, r) = Q!Call(at, A.ps, base, r, -1, cmd)
  <2> DEFINE x == -1 - A.pc
             p == A.ps
  <2>1. Q!Top = Q!Call(at, p, base, q, x, cmd) BY <1>2
  <2> HIDE DEF x, p
  <2>2. Answered(Q!Top, r) = Q!Call(at, p, base, r, -1, cmd) BY <2>1, CallMoved
  <2>3. QED BY <2>2 DEF p
<1>16. Q!Top.ops = q BY <1>2 DEF Q!Call
<1>17. Q!TopBecomes(Answered(Q!Top, Append(Q!Top.ops, v)))
  BY <1>13, <1>14, <1>15, <1>16 DEF Q!TopBecomes
<1>18. UNCHANGED <<prog.insns, QvmStatus, IF Alive THEN result ELSE <<>>>>
  BY <1>1, <1>2, <1>4, <1>10
<1>19. QED BY <1>2, <1>12, <1>17, <1>18, SameWords DEF Q!SystemCallReturns, Answered

-----------------------------------------------------------------------------
(* Frames come.                                                            *)

\* The program stack is full.
LEMMA StackFull ==
  ASSUME Overflown', status' = "ok", prog' = prog PROVE Q!Ends("overflow")
<1>1. QvmStatus' = "overflow" BY DEF QvmStatus
<1>2. ~ Alive' BY <1>1 DEF Alive
<1>3. QvmMem' = <<>> BY <1>2 DEF QvmMem
<1>4. QvmCalls' = <<>> BY <1>2, CallsSeenNext
<1>5. QED BY <1>1, <1>2, <1>3, <1>4 DEF Q!Ends

LEMMA FramePut ==
  ASSUME Sound, At({"ENTER"}), NEW m2, m2 = Put(image, FrameNote, 4, A.ps)
  PROVE  /\ R2 \in Int /\ R2 >= 8 /\ A.ps = Below(frames, acts, Level, Calls) /\ A.ps \in Int
         /\ SameOwned(image, m2, frames, acts)
         /\ \A x \in 0 .. MemSize + 3 : x < A.ps - R2 \/ A.ps <= x => m2[x] = image[x]
<1>1. Running BY DEF At
<1>2. A.ps \in Int /\ Level > 0 BY <1>1, RunningTyped DEF Sound
<1>3. PICK e \in Indices(Insns), i \in Indices(Insns) : Here(e, i) BY <1>1, SomewhereHere
<1>4. /\ Opcode = Op(Insns, i) /\ Opcode \in {"ENTER"}
      /\ Opcode \in HasOperand \ CondBranch => R2 = Arg(Insns, i)
  BY <1>1, <1>3, NextInstruction
<1>5. "ENTER" \in HasOperand \ CondBranch
  BY DEF HasOperand, HasI4Operand, CondBranch, IntBranch, FloatBranch
<1>6. R2 \in Int /\ R2 >= 8
  <2>1. Arg(Insns, i) \in Int BY CodeTyped DEF Sound
  <2>2. Arg(Insns, i) >= 8 BY <1>4, SoundFacts DEF WellFormed
  <2>3. QED BY <1>4, <1>5, <2>1, <2>2
<1>7. A.ps = Below(frames, acts, Level, Calls) BY <1>3, <1>4 DEF Here, RunsAt, A, Insns
<1>8. DOMAIN image = 0 .. MemSize + 3 BY SoundFacts DEF Memory
<1>9. \A x \in 0 .. MemSize + 3 : x < A.ps - R2 \/ A.ps <= x => m2[x] = image[x]
  <2> DEFINE r == R2
             p == A.ps
  <2>1. m2 = Put(image, p - r + 4, 4, p) BY DEF FrameNote
  <2>2. r \in Int /\ r >= 8 /\ p \in Int BY <1>2, <1>6
  <2> HIDE DEF r, p
  <2>3. \A x \in 0 .. MemSize + 3 : x < p - r \/ p <= x => m2[x] = image[x]
    BY <1>8, <2>1, <2>2, Sizes DEF Put
  <2>4. QED BY <2>3 DEF r, p
<1>10. SameOwned(image, m2, frames, acts)
  <2>1. \A x \in 0 .. MemSize + 3 : x >= Below(frames, acts, Level, Calls) => m2[x] = image[x]
    BY <1>2, <1>7, <1>9, Sizes
  <2>2. QED BY <1>2, <2>1, LowStores
<1>11. QED BY <1>2, <1>6, <1>7, <1>9, <1>10

LEMMA EnterSeen == ASSUME Good, NestedNow', status' = "ok", Enter PROVE Q!Enter
<1> DEFINE L == Level
           N == Calls
           B == BaseOf(frames, L, N)
           pc == A.pc + 2
           ps == A.ps - R2
           c == [A EXCEPT !.pc = pc, !.ps = ps]
           b == Reloaded(c)
           base == Below(frames, acts, L, N)
           cmd  == CommandOf(frames, acts, L, N)
           ops  == {"ENTER"}
           m    == Put(image, FrameNote, 4, A.ps)
<1>1. At(ops) /\ Running /\ Sound /\ Alive /\ TypeInv BY DEF Enter, At, Good, Proper, Sound
<1>2. /\ A \in ActivationRecord /\ A.ofs \in Slots /\ A.ofs \in Int /\ A.ps \in Int /\ A.pc \in Int
      /\ Level > 0 /\ A.opStack \in [Slots -> Word] /\ ~ A.inSyscall
  BY <1>1, RunningTyped DEF Sound
<1>3. /\ image' = m /\ acts' = [acts EXCEPT ![Level] = b]
      /\ UNCHANGED <<prog, code, frames, status, result>>
  <2>1. ~ Halt("undefined") BY DEF Halt
  <2>2. QED BY <2>1 DEF Enter, Dispatch, Continue
<1>4. /\ R2 \in Int /\ R2 >= 8 /\ SameOwned(image, image', frames, acts)
      /\ \A x \in 0 .. MemSize + 3 : x < ps \/ A.ps <= x => image'[x] = image[x]
  <2> HIDE DEF m
  <2>1. m = Put(image, FrameNote, 4, A.ps) BY DEF m
  <2>2. QED BY <1>1, <1>3, <2>1, FramePut
<1> HIDE DEF m
<1>5. /\ b.entry = A.entry /\ ~ b.inSyscall /\ b.ps = ps /\ b.ofs = A.ofs /\ b.pc = pc
      /\ b.opStack = A.opStack /\ b.command = A.command
  <2> HIDE DEF ps, pc
  <2>1. c.entry = A.entry /\ ~ c.inSyscall /\ c.pc = pc /\ c.ps = ps /\ c.ofs = A.ofs
        /\ DOMAIN c = DOMAIN A /\ c.command = A.command /\ c.opStack = A.opStack
    BY <1>2 DEF ActivationRecord
  <2> HIDE DEF c
  <2>2. QED BY <1>2, <2>1 DEF Reloaded, ActivationRecord
<1> HIDE DEF b
<1>6. PICK e \in Indices(Insns), i \in Indices(Insns) : Here(e, i) BY <1>1, SomewhereHere
<1> DEFINE d == prog.depth[i]
           j == i + 1
           q == Ops(A.opStack, B, d)
<1>7. /\ Opcode \in ops /\ d \in Nat /\ B \in Nat /\ A.ofs = B + d
      /\ j \in Indices(Insns) /\ Place(prog, j) = pc /\ Opcode \in HasOperand \ CondBranch
  <2>1. /\ Opcode = Op(Insns, i) /\ Opcode \in ops /\ d \in Nat /\ B \in Nat /\ A.ofs = B + d
        /\ Opcode \notin Diverts =>
             i + 1 \in Indices(Insns) /\ Place(prog, i + 1) = A.pc + 1 + OperandWords(Opcode)
    BY <1>1, <1>6, NextInstruction
  <2>2. Opcode \notin Diverts /\ OperandWords(Opcode) = 1 BY <2>1, Effects DEF Diverts
  <2>3. Opcode \in HasOperand \ CondBranch
    BY <2>1 DEF HasOperand, HasI4Operand, CondBranch, IntBranch, FloatBranch
  <2>4. QED BY <1>2, <2>1, <2>2, <2>3
<1>8. Q!Top = Q!Call(i, A.ps, base, q, -1, cmd) /\ QvmStatus = "ok" /\ QvmCalls # <<>>
  BY <1>1, <1>6, SeenHere
<1>9. Q!Executes(ops) /\ Q!V = R2 /\ Q!Top.ps = A.ps BY <1>1, <1>7, OperandsSeen
<1>10. IndexIn(code, pc) = j BY <1>1, <1>7, PlaceFound
<1>11. Level' = Level /\ A' = b
  <2>1. L \in Nat /\ Len(acts) = L /\ DOMAIN acts = 1 .. L /\ acts \in Seq(ActivationRecord)
    BY <1>1, SoundFacts
  <2>2. Len(acts') = L /\ acts'[L] = b BY <1>2, <1>3, <2>1
  <2>3. QED BY <2>2 DEF Level, A
<1>12. CASE ps <= StackBottom
  <2>1. Overflown' BY <1>2, <1>5, <1>11, <1>12 DEF Overflown, StackBottom
  <2>2. Q!Ends("overflow") BY <1>3, <2>1, StackFull
  <2>3. QED BY <1>9, <1>12, <2>2, SameInstructions DEF Q!Enter
<1>13. CASE ~ (ps <= StackBottom)
  <2>1. ps \in Int /\ ps > StackBottom BY <1>2, <1>4, <1>13, Sizes DEF StackBottom
  <2>2. /\ Alive' /\ QvmStatus' = "ok"
        /\ QvmCalls' =
             Append(Q!Callers,
                    Q!Call(IndexIn(code, IF b.inSyscall THEN FetchWord(image', b.ps) ELSE b.pc),
                           b.ps, base, Ops(b.opStack, B, b.ofs - B),
                           IF b.inSyscall THEN Noted(image', b.ps) ELSE -1, cmd))
    <3>1. \A s \in 1 .. BaseOf(frames, Level, Calls) : b.opStack[s] = A.opStack[s] BY <1>5
    <3>2. b.ps \in Int /\ b.ps > StackBottom BY <1>5, <2>1
    <3>3. QED BY <1>2, <1>3, <1>4, <1>5, <3>1, <3>2, TopGoes
  <2>3. A.ofs - B = d BY <1>2, <1>7
  <2> HIDE DEF base, cmd, B, L, N, d, j, ps, pc
  <2>4. QvmCalls' = Append(Q!Callers, Q!Call(j, ps, base, q, -1, cmd))
    BY <1>5, <1>10, <2>2, <2>3 DEF q
  <2> HIDE DEF q
  <2>5. Framed(Q!Top, j, ps) = Q!Call(j, ps, base, q, -1, cmd)
    <3> DEFINE p == A.ps
    <3>1. Q!Top = Q!Call(i, p, base, q, -1, cmd) BY <1>8
    <3> HIDE DEF p
    <3>2. QED BY <3>1, CallMoved
  <2>6. Q!Top.pc + 1 = j BY <1>8 DEF Q!Call, j
  <2>7. QvmCalls' = Append(Q!Callers, Framed(Q!Top, Q!Top.pc + 1, Q!Top.ps - Q!V))
    BY <1>9, <2>4, <2>5, <2>6 DEF ps
  <2>8. ASSUME NEW x \in InUse PROVE image'[x] = image[x]
    <3>1. x \in 0 .. MemSize - 1 /\ (x < StackBottom \/ A.ps <= x) /\ StackBottom \in Int
      <4>1. Level # 0 BY <1>2
      <4>2. x \in 0 .. StackBottom - 1 \/ x \in A.ps .. MemSize - 1 BY <4>1 DEF InUse
      <4>3. QED BY <4>2, InUseInside, <1>2, Sizes DEF StackBottom
    <3>2. x \in 0 .. MemSize + 3 /\ (x < ps \/ A.ps <= x) BY <2>1, <3>1, Sizes
    <3>3. QED BY <1>4, <3>2 DEF ps
  <2>9. Q!MemoryKept(QvmCalls') BY <1>1, <1>3, <2>2, <2>8, KeptSeen
  <2>10. UNCHANGED <<prog.insns, QvmStatus, IF Alive THEN result ELSE <<>>>>
    BY <1>1, <1>3, <1>8, <2>2
  <2>11. ~ (Q!Top.ps - Q!V <= Q!StackBottom) BY <1>9, <1>13, SameInstructions DEF ps
  <2>12. QED BY <1>9, <2>7, <2>9, <2>10, <2>11 DEF Q!Enter, Framed
<1>14. QED BY <1>12, <1>13

-----------------------------------------------------------------------------
(* Calls come and go.                                                      *)

LEMMA FirstOnes ==
  ASSUME NEW D, NEW s \in Seq(D), NEW k \in 0 .. Len(s)
  PROVE  /\ SubSeq(s, 1, k) \in Seq(D) /\ Len(SubSeq(s, 1, k)) = k
         /\ \A i \in 1 .. k : SubSeq(s, 1, k)[i] = s[i]
OBVIOUS

LEMMA OneMore ==
  ASSUME NEW D, NEW s \in Seq(D), NEW x \in D
  PROVE  /\ Append(s, x) \in Seq(D) /\ Len(Append(s, x)) = Len(s) + 1
         /\ Append(s, x)[Len(s) + 1] = x /\ \A i \in 1 .. Len(s) : Append(s, x)[i] = s[i]
OBVIOUS

LEMMA TwoMore ==
  ASSUME NEW D, NEW s \in Seq(D), NEW x \in D, NEW y \in D
  PROVE  s \o <<x, y>> = Append(Append(s, x), y)
OBVIOUS

LEMMA TwoAppended ==
  ASSUME NEW x \in Nat, NEW k \in 0 .. x, NEW g, g = [i \in 1 .. x |-> g[i]],
         NEW f, f = [i \in 1 .. k + 2 |-> f[i]], Begins(g, f, k)
  PROVE  f = SubSeq(g, 1, k) \o <<f[k + 1], f[k + 2]>>
<1> DEFINE d == f[k + 1]
           e == f[k + 2]
           S == {g[i] : i \in 1 .. x} \cup {d, e}
           h == SubSeq(g, 1, k)
<1>1. g \in [1 .. x -> S] OBVIOUS
<1>2. d \in S /\ e \in S OBVIOUS
<1> HIDE DEF S
<1>3. g \in Seq(S) /\ Len(g) = x BY <1>1, AsSequence
<1> HIDE DEF d, e
<1>4. h \in Seq(S) /\ Len(h) = k /\ \A i \in 1 .. k : h[i] = g[i] BY <1>3, FirstOnes
<1> HIDE DEF h
<1> DEFINE t == Append(h, d)
           r == Append(t, e)
<1>5. t \in Seq(S) /\ Len(t) = k + 1 /\ t[k + 1] = d /\ \A i \in 1 .. k : t[i] = h[i]
  BY <1>2, <1>4, OneMore
<1> HIDE DEF t
<1>6. /\ r \in Seq(S) /\ Len(r) = (k + 1) + 1 /\ r[(k + 1) + 1] = e
      /\ \A i \in 1 .. k + 1 : r[i] = t[i]
  BY <1>2, <1>5, OneMore
<1> HIDE DEF r
<1>7. r = [i \in 1 .. k + 2 |-> r[i]]
  <2>1. (k + 1) + 1 = k + 2 OBVIOUS
  <2>2. QED BY <1>6, <2>1, AsFunction
<1>8. \A i \in 1 .. k + 2 : r[i] = f[i]
  <2>1. \A i \in 1 .. k : r[i] = f[i]
    <3>1. \A i \in 1 .. k : i \in 1 .. k + 1 OBVIOUS
    <3>2. \A i \in 1 .. k : f[i] = g[i] BY DEF Begins
    <3>3. QED BY <1>4, <1>5, <1>6, <3>1, <3>2
  <2>2. r[k + 1] = d /\ r[k + 2] = e
    <3>1. k + 1 \in 1 .. k + 1 /\ (k + 1) + 1 = k + 2 OBVIOUS
    <3>2. QED BY <1>5, <1>6, <3>1
  <2>3. \A i \in 1 .. k + 2 : i \in 1 .. k \/ i = k + 1 \/ i = k + 2 OBVIOUS
  <2>4. QED BY <2>1, <2>2, <2>3 DEF d, e
<1>9. h \o <<d, e>> = r BY <1>2, <1>4, TwoMore DEF r, t
<1>10. QED BY <1>7, <1>8, <1>9 DEF h, d, e

\* The innermost activation becomes b, the first n pending calls stay.
LEMMA TopPrefix ==
  ASSUME Sound, Level > 0, NEW b, NEW cs2, cs2 = [acts EXCEPT ![Level] = b],
         b.entry = A.entry, b.command = A.command, b.opStack = A.opStack,
         NEW n \in 0 .. Calls, \A j \in n + 1 .. Calls : frames[j].level = Level,
         NEW fs2, n <= Len(fs2), \A j \in 1 .. n : fs2[j] = frames[j],
         \A j \in n + 1 .. Len(fs2) : fs2[j].level = Level,
         NEW m2, SameOwned(image, m2, frames, acts)
  PROVE  SamePrefix(image, frames, acts, m2, fs2, cs2, Level - 1, n)
<1> DEFINE L == Level
           h == L - 1
<1>1. /\ L \in Nat /\ L = Len(acts) /\ DOMAIN acts = 1 .. L /\ L \in 1 .. L /\ L > 0 /\ A = acts[L]
      /\ Calls \in Nat /\ Calls = Len(frames) /\ acts \in Seq(ActivationRecord)
      /\ Nested(prog, image, frames, acts)
  BY SoundFacts DEF Calls, A
<1>2. Len(cs2) = L BY <1>1
<1>3. cs2[L] = b /\ (\A k \in 1 .. L : k # L => cs2[k] = acts[k]) BY <1>1
<1>4. h \in 0 .. L /\ h < L /\ h + 1 = L BY <1>1
<1> HIDE DEF L
<1>5. \A i \in 1 .. h : cs2[i] = acts[i] /\ SameAt(image, m2, acts[i].ps)
  <2>1. \A i \in 1 .. h : i \in 1 .. L /\ i # L BY <1>1
  <2>2. \A i \in 1 .. h : SameAt(image, m2, acts[i].ps) BY <1>1 DEF SameOwned
  <2>3. QED BY <1>3, <2>1, <2>2
<1>6. ASSUME NEW j \in 1 .. n
      PROVE  LET k == frames[j].level
             IN  /\ cs2[k].command = acts[k].command /\ cs2[k].entry = acts[k].entry
                 /\ \A s \in 1 .. frames[j].base : cs2[k].opStack[s] = acts[k].opStack[s]
  <2>1. j \in 1 .. Len(frames) BY <1>1
  <2>2. frames[j].level \in 1 .. L BY <1>1, <2>1, NestedFacts
  <2>3. QED BY <1>1, <1>3, <2>2
<1> HIDE DEF h
<1>7. /\ \A j \in n + 1 .. Len(frames) : h < frames[j].level
      /\ \A j \in n + 1 .. Len(fs2) : h < fs2[j].level
  BY <1>1, <1>4 DEF L
<1>8. SamePrefix(image, frames, acts, m2, fs2, cs2, h, n)
  BY <1>1, <1>2, <1>4, <1>5, <1>6, <1>7 DEF SamePrefix
<1>9. QED BY <1>8 DEF h, L

\* A call is pending where the innermost activation has its frame.
LEMMA UsedAlikeCalling ==
  ASSUME Sound, Level > 0, NEW b, acts' = [acts EXCEPT ![Level] = b],
         b.entry = A.entry, b.ps = A.ps, NEW f, frames' = Append(frames, f), f.ps = A.ps
  PROVE  InUse' = InUse
<1> DEFINE cs == [acts EXCEPT ![Level] = b]
           fs == Append(frames, f)
<1>1. /\ Level \in 1 .. Level /\ DOMAIN acts = 1 .. Level /\ Level \in Nat /\ Len(acts) = Level
      /\ acts \in Seq(ActivationRecord) /\ frames \in Seq(FrameRecord) /\ DOMAIN frames = 1 .. Calls
      /\ Calls \in Nat
  BY SoundFacts
<1>2. /\ Len(cs) = Level /\ DOMAIN cs = 1 .. Level
      /\ \A k \in 1 .. Level : cs[k].ps = acts[k].ps /\ Begin(cs, k) = Begin(acts, k)
  BY <1>1 DEF Begin, A
<1>3. DOMAIN fs = 1 .. Calls + 1 /\ fs[Calls + 1] = f /\ \A j \in 1 .. Calls : fs[j] = frames[j]
  BY <1>1 DEF Calls
<1> HIDE DEF cs, fs
<1>4. {fs[j].ps : j \in DOMAIN fs} = {frames[j].ps : j \in DOMAIN frames} \cup {A.ps}
  <2>1. \A j \in 1 .. Calls + 1 : j \in 1 .. Calls \/ j = Calls + 1 BY <1>1
  <2>2. \A j \in 1 .. Calls : j \in 1 .. Calls + 1 BY <1>1
  <2>3. Calls + 1 \in 1 .. Calls + 1 BY <1>1
  <2> HIDE DEF Calls
  <2>4. QED BY <1>1, <1>3, <2>1, <2>2, <2>3
<1>5. {{cs[k].ps, Begin(cs, k)} : k \in DOMAIN cs} = {{acts[k].ps, Begin(acts, k)} : k \in DOMAIN acts}
  BY <1>1, <1>2
<1>6. A.ps \in UNION {{acts[k].ps, Begin(acts, k)} : k \in DOMAIN acts} BY <1>1 DEF A
<1>7. FramesIn(fs, cs) = FramesIn(frames, acts)
  <2> DEFINE X == UNION {{acts[k].ps, Begin(acts, k)} : k \in DOMAIN acts}
             Y == {frames[j].ps : j \in DOMAIN frames}
  <2>1. FramesIn(fs, cs) = (Y \cup {A.ps}) \cup X BY <1>4, <1>5 DEF FramesIn
  <2>2. FramesIn(frames, acts) = Y \cup X BY DEF FramesIn
  <2> HIDE DEF X, Y
  <2>3. A.ps \in X BY <1>6 DEF X
  <2>4. QED BY <2>1, <2>2, <2>3
<1>8. InUseIn(fs, cs) = InUseIn(frames, acts)
  <2>1. cs[Len(cs)].ps = acts[Len(acts)].ps /\ Len(cs) = Len(acts) BY <1>1, <1>2
  <2>2. QED BY <1>7, <2>1 DEF InUseIn
<1>9. QED BY <1>8, InUseSeen DEF cs, fs

LEMMA FunctionSeen == ASSUME Good, NestedNow', CallFunction PROVE Q!CallFunction
<1> DEFINE L == Level
           N == Calls
           B == BaseOf(frames, L, N)
           o == A.ofs - 1
           h == A.r0
           pc == code.pointers[h]
           m == SavedPc(image)
           c == [[A EXCEPT !.ofs = o] EXCEPT !.pc = pc]
           b == Reloaded(c)
           f == [level |-> L, ret |-> A.pc + 1, ps |-> A.ps, base |-> o]
           base == Below(frames, acts, L, N)
           cmd  == CommandOf(frames, acts, L, N)
           ops  == {"CALL"}
<1>1. At(ops) /\ Running /\ Sound /\ Alive /\ TypeInv /\ status = "ok"
  BY DEF CallFunction, At, Good, Proper, Sound
<1>2. /\ A \in ActivationRecord /\ A.ofs \in Slots /\ A.ofs \in Int /\ A.ps \in Int /\ A.pc \in Int
      /\ Level > 0 /\ A.opStack \in [Slots -> Word] /\ ~ A.inSyscall
  BY <1>1, RunningTyped DEF Sound
<1>3. /\ L \in Nat /\ L = Len(acts) /\ N \in Nat /\ N = Len(frames) /\ DOMAIN acts = 1 .. L
      /\ Nested(prog, image, frames, acts) /\ frames \in Seq(FrameRecord)
      /\ acts \in Seq(ActivationRecord) /\ A = acts[L]
  BY <1>1, SoundFacts DEF Calls, A
<1>4. /\ h \in 0 .. code.count - 1 /\ image' = m /\ acts' = [acts EXCEPT ![Level] = b]
      /\ frames' = Append(frames, f) /\ UNCHANGED <<prog, code, status, result>>
  <2>1. Slot(o) = o BY <1>1, Calling
  <2>2. Called = [A EXCEPT !.ofs = o] BY <2>1 DEF Called
  <2>3. Called.ofs = o BY <1>2, <2>2 DEF ActivationRecord
  <2>4. Pending = frames BY <1>1, NonePast
  <2>5. QED BY <2>2, <2>3, <2>4 DEF CallFunction, Dispatch, Continue
<1>5. h \in Indices(Insns) /\ pc = Place(prog, h) /\ IndexIn(code, pc) = h /\ Op(Insns, h) = "ENTER"
  <2>1. h \in Indices(Insns) BY <1>1, <1>4, CodeFacts DEF Indices, Insns, Sound
  <2> HIDE DEF h
  <2>2. pc = Place(prog, h) BY <1>1, <2>1, CodeAt
  <2>3. IndexIn(code, pc) = h BY <1>1, <2>1, <2>2, PlaceFound
  <2>4. Op(Insns, h) = "ENTER" BY <1>1, <2>1, SoundFacts DEF WellBehaved, Insns, h
  <2>5. QED BY <2>1, <2>2, <2>3, <2>4
<1>6. /\ b.entry = A.entry /\ ~ b.inSyscall /\ b.ps = A.ps /\ b.ofs = o /\ b.pc = pc
      /\ b.opStack = A.opStack /\ b.command = A.command
  <2> HIDE DEF o, pc
  <2>1. c.entry = A.entry /\ ~ c.inSyscall /\ c.pc = pc /\ c.ps = A.ps /\ c.ofs = o
        /\ DOMAIN c = DOMAIN A /\ c.command = A.command /\ c.opStack = A.opStack
    BY <1>2 DEF ActivationRecord
  <2> HIDE DEF c
  <2>2. QED BY <1>2, <2>1 DEF Reloaded, ActivationRecord
<1>7. f.level = L /\ f.ret = A.pc + 1 /\ f.ps = A.ps /\ f.base = o OBVIOUS
<1> HIDE DEF b, f, m
<1>8. SameOwned(image, image', frames, acts) /\ \A x \in InUse : image'[x] = image[x]
  <2>1. \A x \in 0 .. MemSize + 3 : x >= Below(frames, acts, Level, Calls) => m[x] = image[x]
    BY <1>1, Calling DEF m
  <2>2. SameOwned(image, m, frames, acts) BY <1>1, <1>2, <2>1, LowStores
  <2>3. ASSUME NEW x \in InUse PROVE m[x] = image[x]
    <3>1. x \in 0 .. MemSize + 3 BY InUseInside, Sizes
    <3>2. x \notin A.ps .. A.ps + 7 BY <1>1, <1>2, LinkageApart
    <3>3. x \notin A.ps .. A.ps + 4 - 1 BY <1>2, <3>2
    <3>4. DOMAIN image = 0 .. MemSize + 3 BY <1>1, SoundFacts DEF Memory
    <3>5. QED BY <3>1, <3>3, <3>4 DEF m, SavedPc, Put
  <2>4. QED BY <1>4, <2>2, <2>3
<1>9. PICK e \in Indices(Insns), i \in Indices(Insns) : Here(e, i) BY <1>1, SomewhereHere
<1> DEFINE d == prog.depth[i]
           j == i + 1
           q == Ops(A.opStack, B, d)
           r == Ops(A.opStack, B, o - B)
<1>10. /\ Opcode \in ops /\ d \in Nat /\ d >= Pops(Opcode) /\ B \in Nat /\ A.ofs = B + d
       /\ j \in Indices(Insns) /\ Place(prog, j) = A.pc + 1 /\ Pops(Opcode) = 1
  <2>1. /\ Opcode = Op(Insns, i) /\ Opcode \in ops /\ d \in Nat /\ d >= Pops(Opcode) /\ B \in Nat
        /\ A.ofs = B + d
        /\ Opcode \notin Diverts =>
             i + 1 \in Indices(Insns) /\ Place(prog, i + 1) = A.pc + 1 + OperandWords(Opcode)
    BY <1>1, <1>9, NextInstruction
  <2>2. Opcode \notin Diverts /\ Pops(Opcode) = 1 /\ OperandWords(Opcode) = 0
    BY <2>1, Effects DEF Diverts
  <2>3. QED BY <1>2, <2>1, <2>2
<1>11. Q!Top = Q!Call(i, A.ps, base, q, -1, cmd) /\ QvmStatus = "ok" /\ QvmCalls # <<>>
  BY <1>1, <1>9, SeenHere
<1>12. Q!Executes(ops) /\ Q!Holding(1) /\ Q!Operand(1) = h /\ Q!Top.ps = A.ps
  BY <1>1, <1>10, OperandsSeen
<1>13. IndexIn(code, A.pc + 1) = j BY <1>1, <1>10, PlaceFound
<1>14. Q!Below(1) = r
  <2>1. d - 1 \in 0 .. d /\ o - B = d - 1 /\ B + d \in Slots BY <1>2, <1>10
  <2> HIDE DEF B, d, o
  <2>2. Len(q) = d BY <1>2, <1>10, <2>1, OpsTyped
  <2>3. SubSeq(q, 1, d - 1) = Ops(A.opStack, B, d - 1) BY <1>10, <2>1, OpsDropped
  <2> HIDE DEF q
  <2>4. QED BY <1>11, <2>1, <2>2, <2>3 DEF Q!Below, Q!Call
<1> DEFINE m2  == image'
           fs2 == frames'
           cs2 == acts'
<1>15. /\ Len(cs2) = L /\ cs2[L] = b /\ Len(fs2) = N + 1 /\ fs2[N + 1] = f
       /\ \A k \in 1 .. N : fs2[k] = frames[k]
  <2>1. cs2 = [acts EXCEPT ![L] = b] /\ fs2 = Append(frames, f) /\ L \in 1 .. L BY <1>2, <1>3, <1>4
  <2> HIDE DEF cs2, fs2, L, N
  <2>2. Len(cs2) = L /\ cs2[L] = b BY <1>3, <2>1
  <2>3. Len(fs2) = N + 1 /\ fs2[N + 1] = f /\ \A k \in 1 .. N : fs2[k] = frames[k] BY <1>3, <2>1
  <2>4. QED BY <2>2, <2>3
<1>16. Level' = L /\ A' = b BY <1>15 DEF Level, A
<1>17. ~ Overflown' /\ Alive' /\ QvmStatus' = "ok"
  <2>1. A.ps > StackBottom BY <1>1, <1>2, Sizes DEF Alive, QvmStatus, Overflown, StackBottom
  <2>2. ~ Overflown' BY <1>2, <1>6, <1>16, <2>1, Sizes DEF Overflown, StackBottom
  <2>3. QED BY <1>1, <1>4, <2>2 DEF Alive, QvmStatus
<1>18. InUse' = InUse
  <2>1. frames' = Append(frames, f) BY <1>4
  <2>2. QED BY <1>1, <1>2, <1>4, <1>6, <1>7, <2>1, UsedAlikeCalling
<1>19. QvmMem' = QvmMem BY <1>1, <1>8, <1>17, <1>18, MemorySeen
<1>20. QvmCalls' = CallsIn(code, m2, fs2, cs2) BY <1>4, <1>17, CallsSeenNext
<1>21. Nested(prog, m2, fs2, cs2) BY <1>1, <1>4 DEF NestedNow
<1> DEFINE s  == CallsIn(code, image, frames, acts)
           s2 == CallsIn(code, m2, fs2, cs2)
           k  == L - 1
           K  == N + L - 1
<1>22. SamePrefix(image, frames, acts, m2, fs2, cs2, k, N)
  <2>1. cs2 = [acts EXCEPT ![Level] = b] BY <1>4
  <2>2. SameOwned(image, m2, frames, acts) BY <1>8
  <2>3. N \in 0 .. Calls /\ N <= Len(fs2) BY <1>3, <1>15
  <2>4. N + 1 .. Calls = {} /\ N + 1 .. Len(fs2) = {N + 1} BY <1>3, <1>15
  <2>5. /\ \A x \in 1 .. N : fs2[x] = frames[x]
        /\ \A x \in N + 1 .. Calls : frames[x].level = Level
        /\ \A x \in N + 1 .. Len(fs2) : fs2[x].level = Level
    BY <1>7, <1>15, <2>4
  <2> HIDE DEF m2, fs2, cs2, N
  <2>6. QED BY <1>1, <1>2, <1>6, <2>1, <2>2, <2>3, <2>5, TopPrefix
<1> HIDE DEF m2, fs2, cs2
<1>23. K \in 0 .. N + L /\ \A x \in 1 .. K : s2[x] = s[x]
  <2>1. Len(acts) <= k + 1 /\ k + N = K BY <1>3
  <2>2. Nested(prog, image, frames, acts) BY <1>3
  <2> HIDE DEF k, N
  <2>3. SamePrefix(image, frames, acts, m2, fs2, cs2, k, N) BY <1>22
  <2>4. \A x \in 1 .. k + N : s2[x] = s[x]
    BY <1>21, <2>1, <2>2, <2>3, PrefixKept
  <2>5. K \in 0 .. N + L BY <1>2, <1>3
  <2>6. QED BY <2>1, <2>4, <2>5
<1>24. /\ s2 = [x \in 1 .. K + 2 |-> s2[x]]
       /\ s2[K + 2] = CallSeen(code, m2, fs2, cs2)
  <2>1. Len(cs2) > 0 BY <1>2, <1>15
  <2>2. Len(fs2) + Len(cs2) = K + 2 BY <1>3, <1>15
  <2> HIDE DEF K
  <2>3. QED BY <1>21, <2>1, <2>2, LastCall DEF CallSeen
<1>25. s2[K + 1] = WaitingIn(code, fs2, cs2, N + 1)
  <2>1. N + 1 \in 1 .. Len(fs2) BY <1>3, <1>15
  <2>2. s2[(N + 1) + fs2[N + 1].level - 1] = WaitingIn(code, fs2, cs2, N + 1)
    BY <1>21, <2>1, CallsPlaced
  <2>3. (N + 1) + fs2[N + 1].level - 1 = K + 1 BY <1>3, <1>7, <1>15
  <2>4. QED BY <2>2, <2>3
<1>26. s2[K + 1] = Q!Call(j, A.ps, base, r, -1, cmd)
  <2>1. Below(fs2, cs2, L, N) = base /\ BaseOf(fs2, L, N) = B /\ CommandOf(fs2, cs2, L, N) = cmd
    <3>1. N > 0 => fs2[N] = frames[N]
      <4>1. N > 0 => N \in 1 .. N BY <1>3
      <4>2. QED BY <1>15, <4>1
    <3> HIDE DEF N, L
    <3>2. QED BY <1>3, <1>6, <1>15, <3>1 DEF Below, BaseOf, CommandOf, Begin
  <2>2. WaitingIn(code, fs2, cs2, N + 1) = CallIn(code, fs2, cs2, L, N, A.pc + 1, A.ps, o, -1)
    <3>1. (N + 1) - 1 = N BY <1>3
    <3>2. QED BY <1>7, <1>15, <3>1 DEF WaitingIn
  <2> DEFINE w == A.pc + 1
             p == A.ps
  <2> HIDE DEF L, N, B, base, cmd, o, r, j, w, p
  <2>3. CallIn(code, fs2, cs2, L, N, w, p, o, -1) =
          [pc |-> IndexIn(code, w), ps |-> p, base |-> Below(fs2, cs2, L, N),
           ops |-> Ops(cs2[L].opStack, BaseOf(fs2, L, N), o - BaseOf(fs2, L, N)),
           sys |-> -1, cmd |-> CommandOf(fs2, cs2, L, N)]
    BY <1>3, CallForm
  <2>4. Ops(cs2[L].opStack, B, o - B) = r BY <1>6, <1>15 DEF r
  <2>5. QED BY <1>13, <1>25, <2>1, <2>2, <2>3, <2>4 DEF Q!Call, w, p
<1>27. s2[K + 2] = Q!Call(h, A.ps, A.ps, <<>>, -1, <<>>)
  <2> DEFINE M == N + 1
  <2>1. M > 0 /\ Len(fs2) = M /\ fs2[M] = f /\ Len(cs2) = L BY <1>3, <1>15
  <2> HIDE DEF M, L
  <2>2. Below(fs2, cs2, L, M) = A.ps /\ BaseOf(fs2, L, M) = o /\ CommandOf(fs2, cs2, L, M) = <<>>
    BY <1>7, <2>1 DEF Below, BaseOf, CommandOf
  <2>3. Ops(A.opStack, o, o - o) = <<>>
    <3>1. 1 .. o - o = {} BY <1>2
    <3> HIDE DEF o
    <3>2. QED BY <3>1 DEF Ops
  <2>4. IndexIn(code, b.pc) = h BY <1>5, <1>6
  <2> HIDE DEF o, h
  <2>5. QED BY <1>6, <1>15, <1>24, <2>1, <2>2, <2>3, <2>4 DEF CallSeen, Q!Call
<1>28. s = [x \in 1 .. N + L |-> s[x]] /\ Q!Callers = SubSeq(s, 1, K) /\ N + L \in Nat
  <2>1. /\ QvmCalls = s /\ QvmCalls = [x \in 1 .. N + L |-> QvmCalls[x]]
        /\ Q!Callers = SubSeq(QvmCalls, 1, (N + L) - 1) /\ N + L \in Nat
    BY <1>1, SeenCalls
  <2>2. (N + L) - 1 = K BY <1>3
  <2> HIDE DEF s, K, N, L
  <2>3. QED BY <2>1, <2>2
<1> DEFINE z == N + L
<1> HIDE DEF s, s2, z, K, N, L, base, cmd, j, r, o, h, q, B
<1>29. s2 = SubSeq(s, 1, K) \o <<s2[K + 1], s2[K + 2]>>
  <2>1. Begins(s, s2, K) BY <1>23 DEF Begins
  <2>2. z \in Nat /\ K \in 0 .. z /\ s = [x \in 1 .. z |-> s[x]] BY <1>23, <1>28 DEF z
  <2>3. QED BY <1>24, <2>1, <2>2, TwoAppended
<1>30. Going(Q!Top, j, r) = Q!Call(j, A.ps, base, r, -1, cmd)
  <2> DEFINE p == A.ps
  <2>1. Q!Top = Q!Call(i, p, base, q, -1, cmd) BY <1>11
  <2> HIDE DEF p
  <2>2. QED BY <2>1, CallMoved DEF p
<1>31. Q!Top.pc + 1 = j BY <1>11 DEF Q!Call, j
<1>32. QvmCalls' = Q!Callers \o <<Going(Q!Top, Q!Top.pc + 1, Q!Below(1)),
                                  Q!Call(Q!Operand(1), Q!Top.ps, Q!Top.ps, <<>>, -1, <<>>)>>
  BY <1>12, <1>14, <1>20, <1>26, <1>27, <1>28, <1>29, <1>30, <1>31 DEF s2
<1>33. Q!Operand(1) \in Q!Indices(prog.insns) /\ Q!Op(prog.insns, Q!Operand(1)) = "ENTER"
  BY <1>5, <1>12, SameInstructions DEF Insns
<1>34. UNCHANGED <<prog.insns, QvmMem, QvmStatus, IF Alive THEN result ELSE <<>>>>
  BY <1>1, <1>4, <1>11, <1>17, <1>19
<1>35. QED BY <1>12, <1>32, <1>33, <1>34 DEF Q!CallFunction, Going

\* OP_LEAVE finds one operand and the frame of the caller.
LEMMA LeavingSeen ==
  ASSUME Good, At({"LEAVE"})
  PROVE  /\ Q!Leaving /\ Q!Operand(1) = A.opStack[A.ofs] /\ QvmStatus = "ok"
         /\ Q!Top.cmd = CommandOf(frames, acts, Level, Calls)
         /\ A.ps \in Int /\ CallerPs \in Int /\ A.ps < CallerPs
<1> DEFINE L == Level
           N == Calls
           B == BaseOf(frames, L, N)
           base == Below(frames, acts, L, N)
           cmd  == CommandOf(frames, acts, L, N)
           ops  == {"LEAVE"}
<1>1. At(ops) /\ Running /\ Sound /\ Alive /\ TypeInv BY DEF At, Good, Proper, Sound
<1>2. /\ A \in ActivationRecord /\ A.ofs \in Slots /\ A.ofs \in Int /\ A.ps \in Int /\ A.pc \in Int
      /\ Level > 0 /\ A.opStack \in [Slots -> Word]
  BY <1>1, RunningTyped DEF Sound
<1>3. CallerPs = base /\ A.ofs = B + 1 BY <1>1, Leaving
<1>4. PICK e \in Indices(Insns), i \in Indices(Insns) : Here(e, i) BY <1>1, SomewhereHere
<1> DEFINE d == prog.depth[i]
           q == Ops(A.opStack, B, d)
<1>5. /\ Opcode = Op(Insns, i) /\ Opcode \in ops /\ B \in Nat /\ d \in Nat /\ A.ofs = B + d
      /\ InFunction(Insns, e, i)
  BY <1>1, <1>4, NextInstruction
<1>6. d = 1
  <2> HIDE DEF B, d
  <2>1. QED BY <1>3, <1>5
<1>7. Opcode \in HasOperand \ CondBranch
  BY <1>5 DEF HasOperand, HasI4Operand, CondBranch, IntBranch, FloatBranch
<1>8. Q!Top = Q!Call(i, A.ps, base, q, -1, cmd) /\ QvmStatus = "ok" BY <1>1, <1>4, SeenHere
<1>9. Q!Executes(ops) /\ Q!V = R2 /\ Q!Top.ps = A.ps BY <1>1, <1>7, OperandsSeen
<1>10. CallerPs = A.ps + R2 BY DEF CallerPs
<1>11. R2 \in Int /\ R2 >= 8
  <2>1. R2 = Arg(Insns, i) BY <1>1, <1>4, <1>7, NextInstruction
  <2>2. Arg(Insns, i) = Arg(Insns, e) /\ Arg(Insns, e) >= 8 /\ Arg(Insns, e) \in Int
    <3>1. WellFormed(Insns, prog.depth) BY <1>1, SoundFacts
    <3>2. Op(Insns, e) = "ENTER" /\ Op(Insns, i) = "LEAVE" BY <1>5 DEF InFunction
    <3>3. QED BY <1>1, <1>5, <3>1, <3>2, CodeTyped DEF WellFormed, Sound
  <2>3. QED BY <2>1, <2>2
<1>12. Len(q) = 1 /\ q[1] = A.opStack[A.ofs]
  <2>1. 1 \in Nat /\ B + 1 \in Slots /\ 1 \in 1 .. 1 BY <1>2, <1>3
  <2> HIDE DEF B
  <2>2. Len(Ops(A.opStack, B, 1)) = 1 /\ Ops(A.opStack, B, 1)[1] = A.opStack[B + 1]
    BY <1>2, <1>5, <2>1, OpsTyped
  <2>3. QED BY <1>3, <1>6, <2>2
<1> HIDE DEF q, base, cmd, d, B
<1>13. Q!Top.ops = q /\ Q!Top.base = base /\ Q!Top.cmd = cmd BY <1>8 DEF Q!Call
<1>14. Q!Operand(1) = A.opStack[A.ofs]
  <2>1. Q!Operand(1) = q[Len(q) + 1 - 1] BY <1>13 DEF Q!Operand
  <2>2. Len(q) + 1 - 1 = 1 BY <1>12
  <2>3. QED BY <1>12, <2>1, <2>2
<1>15. Q!Leaving BY <1>3, <1>9, <1>10, <1>12, <1>13 DEF Q!Leaving
<1>16. QED BY <1>2, <1>8, <1>10, <1>11, <1>13, <1>14, <1>15 DEF cmd

\* A function returns: the call below it gets the result.
LEMMA LeaveSeen == ASSUME Good, NestedNow', status' = "ok", Leave PROVE Q!Leave
<1> DEFINE L == Level
           N == Calls
           n == N - 1
           f == frames[N]
           c == [A EXCEPT !.pc = SavedReturn, !.ps = CallerPs]
           b == Reloaded(c)
           B == BaseOf(frames, L, n)
           k == f.base - B
           base == Below(frames, acts, L, n)
           cmd  == CommandOf(frames, acts, L, n)
           x == A.opStack[A.ofs]
           q == Ops(A.opStack, B, k)
           r == Ops(A.opStack, B, k + 1)
           at == IndexIn(code, f.ret)
<1>1. At({"LEAVE"}) /\ Running /\ Sound /\ Alive /\ TypeInv /\ status = "ok" /\ SavedReturn # -1
  BY DEF Leave, At, Good, Proper, Sound
<1>2. /\ A \in ActivationRecord /\ A.ofs \in Slots /\ A.ofs \in Int /\ A.ps \in Int /\ A.pc \in Int
      /\ Level > 0 /\ A.opStack \in [Slots -> Word] /\ ~ A.inSyscall
  BY <1>1, RunningTyped DEF Sound
<1>3. /\ L \in Nat /\ L = Len(acts) /\ N \in Nat /\ N = Len(frames) /\ DOMAIN acts = 1 .. L
      /\ Nested(prog, image, frames, acts) /\ frames \in Seq(FrameRecord)
      /\ acts \in Seq(ActivationRecord) /\ A = acts[L]
  BY <1>1, SoundFacts DEF Calls, A
<1>4. /\ N > 0 /\ f.level = L /\ FrameRight(prog, image, frames, acts, N) /\ CallerPs = f.ps
      /\ SavedReturn = f.ret /\ A.ofs = f.base + 1
  BY <1>1, ReturnWord
<1>5. /\ n \in Nat /\ N = n + 1 /\ N \in 1 .. N /\ f.base \in Nat /\ f.ps \in Int /\ n \in 0 .. N
  <2>1. n \in Nat /\ N = n + 1 /\ N \in 1 .. N /\ n \in 0 .. N BY <1>3, <1>4
  <2>2. f \in FrameRecord BY <1>3, <2>1
  <2>3. QED BY <2>1, <2>2, Sizes DEF FrameRecord, Slots
<1>6. /\ frames' = SubSeq(frames, 1, Len(frames) - 1) /\ acts' = [acts EXCEPT ![Level] = b]
      /\ UNCHANGED <<prog, code, image, status, result>>
  <2>1. frames # <<>> /\ frames[Len(frames)].level = Level BY <1>3, <1>4
  <2>2. ~ Halt("error") BY <1>1 DEF Halt
  <2>3. QED BY <2>1, <2>2 DEF Leave, Dispatch, Continue
<1>7. B \in Nat /\ k \in Nat
  <2>1. PICK e, i \in Indices(Insns) : Op(Insns, i) = "CALL" /\ f.base + 1 = B + prog.depth[i]
    BY <1>4 DEF FrameRight, Waits, Insns
  <2>2. prog.depth[i] \in Nat /\ prog.depth[i] >= 1
    <3>1. prog.depth[i] \in Nat /\ prog.depth[i] >= Pops(Op(Insns, i))
      BY <1>1, SoundFacts DEF WellFormed, ConsistentDepths
    <3>2. QED BY <2>1, <3>1, Effects
  <2>3. B \in Nat
    <3>1. n > 0 => frames[n] \in FrameRecord
      <4>1. n > 0 => n \in 1 .. N BY <1>5
      <4>2. QED BY <1>3, <4>1
    <3> HIDE DEF n
    <3>2. QED BY <3>1, Sizes DEF BaseOf, FrameRecord, Slots
  <2> HIDE DEF B, f
  <2>4. QED BY <1>5, <2>1, <2>2, <2>3
<1>8. /\ b.entry = A.entry /\ ~ b.inSyscall /\ b.pc = f.ret /\ b.ps = f.ps /\ b.ofs = A.ofs
      /\ b.opStack = A.opStack /\ b.command = A.command
  <2> HIDE DEF f
  <2>1. c.entry = A.entry /\ ~ c.inSyscall /\ c.pc = f.ret /\ c.ps = f.ps /\ c.ofs = A.ofs
        /\ DOMAIN c = DOMAIN A /\ c.command = A.command /\ c.opStack = A.opStack
    BY <1>2, <1>4 DEF ActivationRecord
  <2> HIDE DEF c
  <2>2. QED BY <1>2, <2>1 DEF Reloaded, ActivationRecord
<1> HIDE DEF b, x
<1>9. /\ Q!Leaving /\ Q!Operand(1) = x /\ QvmStatus = "ok"
      /\ Q!Top.cmd = CommandOf(frames, acts, L, N) /\ A.ps < f.ps
  BY <1>1, <1>4, LeavingSeen DEF x
<1>10. Q!Top.cmd = <<>> BY <1>4, <1>9 DEF CommandOf
<1> DEFINE fs2 == frames'
           cs2 == acts'
<1>11. /\ Len(cs2) = L /\ cs2[L] = b /\ Len(fs2) = n /\ \A y \in 1 .. n : fs2[y] = frames[y]
  <2>1. cs2 = [acts EXCEPT ![L] = b] /\ fs2 = SubSeq(frames, 1, Len(frames) - 1) /\ L \in 1 .. L
    BY <1>2, <1>3, <1>6
  <2> HIDE DEF cs2, fs2, L, N
  <2>2. Len(cs2) = L /\ cs2[L] = b BY <1>3, <2>1
  <2>3. Len(fs2) = n /\ \A y \in 1 .. n : fs2[y] = frames[y] BY <1>3, <1>5, <2>1
  <2>4. QED BY <2>2, <2>3
<1>12. Level' = L /\ A' = b BY <1>11 DEF Level, A
<1>13. ~ Overflown' /\ Alive' /\ QvmStatus' = "ok"
  <2>1. A.ps > StackBottom BY <1>1, <1>2, Sizes DEF Alive, QvmStatus, Overflown, StackBottom
  <2>2. ~ (f.ps <= StackBottom)
    <3> HIDE DEF f
    <3>1. QED BY <1>2, <1>5, <1>9, <2>1, Sizes DEF StackBottom
  <2>3. ~ Overflown' BY <1>8, <1>12, <2>2 DEF Overflown, StackBottom
  <2>4. QED BY <1>1, <1>6, <2>3 DEF Alive, QvmStatus
<1>14. Q!MemoryKept(QvmCalls') BY <1>1, <1>6, <1>13, KeptSeen
<1>15. QvmCalls' = CallsIn(code, image, fs2, cs2) BY <1>6, <1>13, CallsSeenNext
<1>16. Nested(prog, image, fs2, cs2) BY <1>1, <1>6 DEF NestedNow
<1> DEFINE s  == CallsIn(code, image, frames, acts)
           s2 == CallsIn(code, image, fs2, cs2)
           h  == L - 1
           K  == N + L - 1
<1>17. SamePrefix(image, frames, acts, image, fs2, cs2, h, n)
  <2>1. cs2 = [acts EXCEPT ![Level] = b] BY <1>6
  <2>2. SameOwned(image, image, frames, acts) BY DEF SameOwned, SameAt
  <2>3. n \in 0 .. Calls /\ n <= Len(fs2) BY <1>5, <1>11
  <2>4. n + 1 .. Calls = {N} /\ n + 1 .. Len(fs2) = {} BY <1>5, <1>11
  <2>5. /\ \A y \in 1 .. n : fs2[y] = frames[y]
        /\ \A y \in n + 1 .. Calls : frames[y].level = Level
        /\ \A y \in n + 1 .. Len(fs2) : fs2[y].level = Level
    BY <1>4, <1>11, <2>4
  <2> HIDE DEF fs2, cs2, n
  <2>6. QED BY <1>1, <1>2, <1>8, <2>1, <2>2, <2>3, <2>5, TopPrefix
<1> HIDE DEF fs2, cs2
<1>18. h + n = K - 1 /\ K \in Nat /\ K > 0 /\ K - 1 \in Nat /\ n + L = K /\ N + L = K + 1 /\ K \in 0 .. N + L
  <2>1. L > 0 BY <1>2
  <2> HIDE DEF N, L
  <2>2. QED BY <1>3, <1>4, <2>1
<1>19. \A y \in 1 .. K - 1 : s2[y] = s[y]
  <2>1. Len(acts) <= h + 1 BY <1>3
  <2>2. Nested(prog, image, frames, acts) BY <1>3
  <2> HIDE DEF h, n, K
  <2>3. SamePrefix(image, frames, acts, image, fs2, cs2, h, n) BY <1>17
  <2>4. \A y \in 1 .. h + n : s2[y] = s[y] BY <1>16, <2>1, <2>2, <2>3, PrefixKept
  <2>5. QED BY <1>18, <2>4
<1>20. /\ s2 = [y \in 1 .. K |-> s2[y]] /\ s2[K] = CallSeen(code, image, fs2, cs2)
  <2>1. Len(cs2) > 0 BY <1>2, <1>11
  <2>2. Len(fs2) + Len(cs2) = K BY <1>11, <1>18
  <2> HIDE DEF K
  <2>3. QED BY <1>16, <2>1, <2>2, LastCall DEF CallSeen
<1>21. s[K] = WaitingIn(code, frames, acts, N)
  <2>1. N \in 1 .. Len(frames) BY <1>3, <1>4
  <2>2. s[N + frames[N].level - 1] = WaitingIn(code, frames, acts, N)
    BY <1>3, <2>1, CallsPlaced
  <2>3. N + frames[N].level - 1 = K BY <1>4
  <2>4. QED BY <2>2, <2>3
<1>22. s[K] = Q!Call(at, f.ps, base, q, -1, cmd)
  <2>1. WaitingIn(code, frames, acts, N) = CallIn(code, frames, acts, L, n, f.ret, f.ps, f.base, -1)
    BY <1>4 DEF WaitingIn
  <2> DEFINE w == f.ret
             p == f.ps
             o == f.base
  <2>2. q = Ops(acts[L].opStack, B, o - B) BY <1>3
  <2> HIDE DEF L, n, B, base, cmd, w, p, o, q
  <2>3. CallIn(code, frames, acts, L, n, w, p, o, -1) =
          [pc |-> IndexIn(code, w), ps |-> p, base |-> Below(frames, acts, L, n),
           ops |-> Ops(acts[L].opStack, BaseOf(frames, L, n), o - BaseOf(frames, L, n)),
           sys |-> -1, cmd |-> CommandOf(frames, acts, L, n)]
    BY <1>5, CallForm
  <2>4. QED BY <1>21, <2>1, <2>2, <2>3 DEF Q!Call, w, p, o, B, base, cmd
<1>23. s2[K] = Q!Call(at, f.ps, base, r, -1, cmd)
  <2>1. n > 0 => fs2[n] = frames[n]
    <3>1. n > 0 => n \in 1 .. n BY <1>5
    <3>2. QED BY <1>11, <3>1
  <2>2. Below(fs2, cs2, L, n) = base /\ BaseOf(fs2, L, n) = B /\ CommandOf(fs2, cs2, L, n) = cmd
    <3> HIDE DEF n, L
    <3>1. QED BY <1>3, <1>8, <1>11, <2>1 DEF Below, BaseOf, CommandOf, Begin
  <2>3. A.ofs - B = k + 1
    <3> HIDE DEF B
    <3>1. QED BY <1>4, <1>5, <1>7
  <2> HIDE DEF n, L, B, base, cmd, k
  <2>4. QED BY <1>8, <1>11, <1>20, <2>2, <2>3 DEF CallSeen, Q!Call
<1>24. r = Append(q, x)
  <2> DEFINE st == A.opStack
  <2>1. Alike(st, st, B, k) BY DEF Alike
  <2>2. A.ofs = B + k + 1
    <3> HIDE DEF B
    <3>1. QED BY <1>4, <1>5, <1>7
  <2>3. x = st[B + k + 1] BY <2>2 DEF x
  <2> HIDE DEF st, B, k
  <2>4. Append(Ops(st, B, k), st[B + k + 1]) = Ops(st, B, k + 1) BY <1>7, <2>1, OpsPushed
  <2>5. QED BY <2>3, <2>4 DEF st
<1>25. /\ s = [y \in 1 .. N + L |-> s[y]] /\ Q!Callers = SubSeq(s, 1, K) /\ Len(QvmCalls) = K + 1
       /\ N + L \in Nat
  <2>1. /\ QvmCalls = s /\ QvmCalls = [y \in 1 .. N + L |-> QvmCalls[y]]
        /\ Q!Callers = SubSeq(QvmCalls, 1, (N + L) - 1) /\ N + L \in Nat /\ Len(QvmCalls) = N + L
    BY <1>1, SeenCalls
  <2>2. (N + L) - 1 = K BY <1>3
  <2> HIDE DEF s, K, N, L
  <2>3. QED BY <1>18, <2>1, <2>2
<1> HIDE DEF s, s2, K, N, L, base, cmd, r, q, at, B, k, f
<1>26. s[K].ops = q BY <1>22 DEF Q!Call
<1>27. Receiving(s[K], Append(s[K].ops, x)) = s2[K]
  <2> DEFINE p == f.ps
  <2>1. s[K] = Q!Call(at, p, base, q, -1, cmd) /\ s2[K] = Q!Call(at, p, base, r, -1, cmd)
    BY <1>22, <1>23
  <2> HIDE DEF p
  <2>2. Append(s[K].ops, x) = r BY <1>24, <1>26
  <2>3. Receiving(s[K], r) = Q!Call(at, p, base, r, -1, cmd) BY <2>1, CallMoved
  <2>4. QED BY <2>1, <2>2, <2>3
<1> DEFINE g == SubSeq(s, 1, K)
           z == N + L
<1>28. g = [y \in 1 .. K |-> g[y]] /\ \A y \in 1 .. K : g[y] = s[y]
  <2> DEFINE D == {s[y] : y \in 1 .. z}
  <2>1. s \in [1 .. z -> D] /\ z \in Nat BY <1>25
  <2> HIDE DEF D, z
  <2>2. s \in Seq(D) /\ Len(s) = z BY <2>1, AsSequence
  <2>3. K \in 0 .. Len(s) BY <1>18, <2>2 DEF z
  <2>4. g \in Seq(D) /\ Len(g) = K /\ \A y \in 1 .. K : g[y] = s[y] BY <2>2, <2>3, FirstOnes
  <2> HIDE DEF g
  <2>5. QED BY <2>4, AsFunction
<1> HIDE DEF g
<1>29. s2 = [g EXCEPT ![K].ops = Append(@, x)]
  <2>1. K \in 1 .. K BY <1>18
  <2>2. [g EXCEPT ![K].ops = Append(@, x)] = [g EXCEPT ![K] = Receiving(g[K], Append(g[K].ops, x))]
    BY Zenon DEF Receiving
  <2>3. \A y \in 1 .. K : y # K => s2[y] = g[y]
    <3>1. \A y \in 1 .. K : y # K => y \in 1 .. K - 1 BY <1>18
    <3>2. QED BY <1>19, <1>28, <3>1
  <2>4. s2[K] = Receiving(g[K], Append(g[K].ops, x)) BY <1>27, <1>28, <2>1
  <2>5. [g EXCEPT ![K] = s2[K]] = [y \in 1 .. K |-> IF y = K THEN s2[K] ELSE g[y]] BY <1>28
  <2>6. s2 = [y \in 1 .. K |-> IF y = K THEN s2[K] ELSE g[y]] BY <1>20, <2>3
  <2>7. QED BY <2>2, <2>4, <2>5, <2>6
<1>30. UNCHANGED <<prog.insns, QvmStatus, IF Alive THEN result ELSE <<>>>>
  BY <1>1, <1>6, <1>9, <1>13
<1>31. Len(QvmCalls) - 1 = K BY <1>18, <1>25
<1>32. QvmCalls' = [Q!Callers EXCEPT ![Len(QvmCalls) - 1].ops = Append(@, Q!Operand(1))]
  BY <1>9, <1>15, <1>25, <1>29, <1>31 DEF s2, g
<1>33. QED BY <1>9, <1>10, <1>14, <1>30, <1>32 DEF Q!Leave

\* vmMain returns to the host.
LEMMA LeaveMainSeen == ASSUME Good, NestedNow', status' = "ok", LeaveVM PROVE Q!LeaveMain
<1> DEFINE L == Level
           N == Calls
           h == L - 1
           x == A.opStack[A.ofs]
           K == N + L - 1
<1>1. /\ At({"LEAVE"}) /\ Running /\ Sound /\ Alive /\ TypeInv /\ status = "ok" /\ SavedReturn = -1
      /\ Level > 0
  BY DEF LeaveVM, At, Good, Proper, Sound, Running
<1>2. /\ L \in Nat /\ L = Len(acts) /\ N \in Nat /\ N = Len(frames) /\ DOMAIN acts = 1 .. L
      /\ Nested(prog, image, frames, acts) /\ frames \in Seq(FrameRecord) /\ DOMAIN frames = 1 .. N
      /\ acts \in Seq(ActivationRecord) /\ A = acts[L]
  BY <1>1, SoundFacts DEF Calls, A
<1>3. \A j \in 1 .. N : frames[j].level < L
  <2>1. frames[Calls].ret \in Nat => frames[Calls].ret # -1 OBVIOUS
  <2>2. QED BY <1>1, <2>1, ReturnWord
<1>4. /\ frames' = frames /\ acts' = SubSeq(acts, 1, h) /\ result' = <<A.command, x>>
      /\ UNCHANGED <<prog, code, image, status>>
  <2>1. ~ Halt("error") BY <1>1 DEF Halt
  <2>2. FramesUpTo(Outer) = frames
    <3>1. Outer \in SUBSET DOMAIN frames BY DEF Outer
    <3>2. DOMAIN frames \subseteq Outer BY <1>2, <1>3 DEF Outer
    <3>3. QED BY <1>1, <3>1, <3>2, AllPending
  <2>3. QED BY <2>1, <2>2 DEF LeaveVM
<1> HIDE DEF x
<1>5. /\ Q!Leaving /\ Q!Operand(1) = x /\ QvmStatus = "ok"
      /\ Q!Top.cmd = CommandOf(frames, acts, L, N)
  BY <1>1, LeavingSeen DEF x
<1>6. Q!Top.cmd = <<A.command>>
  <2>1. ~ (N > 0 /\ frames[N].level = L)
    <3>1. N > 0 => N \in 1 .. N BY <1>2
    <3>2. frames[N].level < L => frames[N].level # L BY <1>2
    <3>3. QED BY <1>3, <3>1, <3>2
  <2> HIDE DEF N, L
  <2>2. QED BY <1>2, <1>5, <2>1 DEF CommandOf
<1> DEFINE cs2 == acts'
<1>7. h \in Nat /\ h < L /\ h + 1 = L /\ Len(cs2) = h /\ \A y \in 1 .. h : cs2[y] = acts[y]
  <2>1. cs2 = SubSeq(acts, 1, h) /\ L > 0 BY <1>1, <1>4
  <2> HIDE DEF cs2, L
  <2>2. QED BY <1>2, <2>1
<1>8. Level' = h /\ (h > 0 => A'.inSyscall)
  <2>1. Level' = h BY <1>7 DEF Level
  <2>2. h > 0 => h \in 1 .. h /\ h \in 1 .. Level - 1 BY <1>7
  <2>3. h > 0 => acts'[h] = acts[h] /\ acts[h].inSyscall BY <1>2, <1>7, <2>2 DEF Nested
  <2>4. QED BY <2>1, <2>3 DEF A
<1>9. ~ Overflown' /\ Alive' /\ QvmStatus' = "ok"
  <2>1. ~ Overflown' BY <1>8 DEF Overflown
  <2>2. QED BY <1>1, <1>4, <2>1 DEF Alive, QvmStatus
<1>10. Q!MemoryKept(QvmCalls') BY <1>1, <1>4, <1>9, KeptSeen
<1>11. QvmCalls' = CallsIn(code, image, frames, cs2) BY <1>4, <1>9, CallsSeenNext
<1>12. Nested(prog, image, frames, cs2) BY <1>4 DEF NestedNow
<1> DEFINE s  == CallsIn(code, image, frames, acts)
           s2 == CallsIn(code, image, frames, cs2)
<1> HIDE DEF cs2
<1>13. SamePrefix(image, frames, acts, image, frames, cs2, h, N)
  <2>1. /\ \A i \in 1 .. h : i \in 1 .. Len(acts) /\ i \in 1 .. Len(cs2)
        /\ \A i \in 1 .. h : SameAt(image, image, acts[i].ps)
    BY <1>2, <1>7 DEF SameAt
  <2>2. \A j \in 1 .. N : frames[j].level \in 1 .. h
    <3>1. \A j \in 1 .. N : frames[j].level \in 1 .. L BY <1>2, NestedFacts
    <3> HIDE DEF L, h
    <3>2. QED BY <1>2, <1>3, <1>7, <3>1
  <2>3. N + 1 .. Len(frames) = {} BY <1>2
  <2> HIDE DEF h, N, L
  <2>4. QED BY <1>2, <1>7, <2>1, <2>2, <2>3 DEF SamePrefix
<1>14. h + N = K /\ K \in Nat /\ K + 1 = N + L /\ K \in 0 .. N + L /\ N + h = K
  <2> HIDE DEF N, L
  <2>1. QED BY <1>2, <1>7
<1>15. \A y \in 1 .. K : s2[y] = s[y]
  <2>1. Len(acts) <= h + 1 BY <1>2, <1>7
  <2>2. Nested(prog, image, frames, acts) BY <1>2
  <2> HIDE DEF h, N, K
  <2>3. SamePrefix(image, frames, acts, image, frames, cs2, h, N) BY <1>13
  <2>4. \A y \in 1 .. h + N : s2[y] = s[y] BY <1>12, <2>1, <2>2, <2>3, PrefixKept
  <2>5. QED BY <1>14, <2>4
<1>16. s2 = [y \in 1 .. K |-> s2[y]]
  <2>1. Len(frames) + Len(cs2) = K BY <1>2, <1>7, <1>14
  <2> HIDE DEF K
  <2>2. QED BY <1>12, <2>1, CallsPlaced
<1>17. s = [y \in 1 .. N + L |-> s[y]] /\ Q!Callers = SubSeq(s, 1, K) /\ N + L \in Nat
  <2>1. /\ QvmCalls = s /\ QvmCalls = [y \in 1 .. N + L |-> QvmCalls[y]]
        /\ Q!Callers = SubSeq(QvmCalls, 1, (N + L) - 1) /\ N + L \in Nat
    BY <1>1, SeenCalls
  <2>2. (N + L) - 1 = K BY <1>2
  <2> HIDE DEF s, K, N, L
  <2>3. QED BY <2>1, <2>2
<1> DEFINE z == N + L
<1> HIDE DEF s, s2, K, z
<1>18. s2 = SubSeq(s, 1, K)
  <2>1. Begins(s, s2, K) BY <1>15 DEF Begins
  <2>2. z \in Nat /\ K \in 0 .. z /\ s = [y \in 1 .. z |-> s[y]] BY <1>14, <1>17 DEF z
  <2>3. QED BY <1>16, <2>1, <2>2, NoneAppended
<1>19. QvmCalls' = Q!Callers BY <1>11, <1>17, <1>18 DEF s2
<1>20. (IF Alive' THEN result' ELSE <<>>) = <<Q!Top.cmd[1], Q!Operand(1)>>
  <2>1. Q!Top.cmd[1] = A.command BY <1>6
  <2>2. QED BY <1>4, <1>5, <1>9, <2>1
<1>21. Q!Top.cmd # <<>> BY <1>6
<1>22. UNCHANGED <<prog.insns, QvmStatus>> BY <1>4, <1>5, <1>9
<1>23. QED BY <1>5, <1>10, <1>19, <1>20, <1>21, <1>22 DEF Q!LeaveMain

-----------------------------------------------------------------------------
(* The host calls.                                                         *)

LEMMA TwoBefore ==
  ASSUME NEW D, NEW x \in D, NEW y \in D, NEW t \in Seq(D), NEW n \in Nat, Len(t) = n
  PROVE  \A k \in 1 .. n : (<<x, y>> \o t)[(k + 1) + 1] = t[k]
OBVIOUS

\* c is the address of word k behind a.
WordAt(a, k, c) == c = a + 4 * k

LEMMA WordPut ==
  ASSUME NEW S, NEW m \in [S -> Byte], NEW a \in Int, NEW n \in Nat, NEW ws
  PROVE  \A k \in 0 .. n - 1 : \A c :
           WordAt(a, k, c) /\ c .. c + 3 \subseteq S /\ ws[k + 1] \in Word =>
             FetchWord(PutWords(m, a, n, ws), c) = ws[k + 1]
<1> SUFFICES ASSUME NEW k \in 0 .. n - 1, NEW c,
                    WordAt(a, k, c), c .. c + 3 \subseteq S, ws[k + 1] \in Word
             PROVE  FetchWord(PutWords(m, a, n, ws), c) = ws[k + 1]
  OBVIOUS
<1> DEFINE m2 == PutWords(m, a, n, ws)
           m1 == Put(m, c, 4, ws[k + 1])
<1>1. c \in Int /\ k \in Nat /\ k < n /\ c = a + 4 * k BY DEF WordAt
<1>2. ASSUME NEW b \in c .. c + 3 PROVE m2[b] = m1[b]
  <2> DEFINE j == b - c
             e == b - a
  <2>1. b \in Int /\ j \in 0 .. 3 /\ b = c + j BY <1>1
  <2>2. b \in a .. a + 4 * n - 1 BY <1>1, <2>1
  <2>3. e = 4 * k + j BY <1>1, <2>1
  <2>4. e \div 4 = k /\ e % 4 = j
    <3> HIDE DEF e, j
    <3>1. QED BY <1>1, <2>1, <2>3
  <2>5. m2[b] = ByteOf(ws[e \div 4 + 1], e % 4) BY <2>2 DEF PutWords
  <2>6. m1[b] = ByteOf(ws[k + 1], j) BY <1>1 DEF Put
  <2> HIDE DEF e, j
  <2>7. QED BY <2>4, <2>5, <2>6
<1>3. FetchWord(m1, c) = ws[k + 1] BY <1>1, PutThere
<1> HIDE DEF m1, m2
<1>4. FetchWord(m2, c) = FetchWord(m1, c) BY <1>1, <1>2, SameFetch
<1>5. QED BY <1>3, <1>4 DEF m2

\* What the calls own lies above the frame that VM_Call makes.
LEMMA OwnedAbove ==
  ASSUME Sound, HostMayCall
  PROVE  /\ vm.programStack \in Int /\ vm.programStack <= MemSize
         /\ \A a \in Frames : a \in Int /\ vm.programStack <= a
         /\ Level = 0 => vm.programStack = MemSize /\ QvmCalls = <<>>
         /\ Level > 0 => vm.programStack = A.ps - 4 /\ A.ps \in Int /\ InSyscall
<1> DEFINE p == vm.programStack
<1>1. /\ Level \in Nat /\ Level = Len(acts) /\ Calls \in Nat /\ Calls = Len(frames)
      /\ Nested(prog, image, frames, acts) /\ ReentryNests /\ acts \in Seq(ActivationRecord)
      /\ DOMAIN acts = 1 .. Level /\ DOMAIN frames = 1 .. Calls
  BY SoundFacts DEF Calls
<1>2. CASE Level = 0
  <2>1. p = MemSize
    <3>1. acts \in Seq(ActivationRecord) /\ Len(acts) = 0 BY <1>1, <1>2
    <3>2. acts = <<>> BY <3>1, SMT
    <3>3. QED BY <1>1, <3>2 DEF ReentryNests
  <2>2. Calls = 0
    <3>1. ASSUME Calls # 0 PROVE FALSE
      <4>1. Calls \in 1 .. Calls BY <1>1, <3>1
      <4>2. frames[Calls].level \in 1 .. 0 BY <1>1, <1>2, <4>1, NestedFacts
      <4>3. QED BY <4>2
    <3>2. QED BY <3>1
  <2>3. DOMAIN acts = {} /\ DOMAIN frames = {} BY <1>1, <1>2, <2>2
  <2>4. Frames = {} BY <2>3 DEF Frames
  <2>5. QvmCalls = <<>>
    <3>1. Alive => QvmCalls = <<>> BY <1>2, SeenCalls
    <3>2. ~ Alive => QvmCalls = <<>> BY CallsSeen
    <3>3. QED BY <3>1, <3>2
  <2> HIDE DEF p
  <2>6. QED BY <1>2, <2>1, <2>4, <2>5, Sizes DEF p
<1>3. CASE Level # 0
  <2>1. Level > 0 /\ A.inSyscall /\ Level \in 1 .. Level /\ status = "ok" BY <1>1, <1>3 DEF HostMayCall
  <2>2. Suspended(prog, image, frames, acts, Level, Calls) BY <2>1, SuspendedHere
  <2> DEFINE a == acts[Level].ps
  <2>3. p = a - 4 /\ a \in Int
    <3>1. acts # <<>> BY <1>1, <2>1
    <3>2. acts[Len(acts)].inSyscall BY <1>1, <2>1 DEF A
    <3>3. vm.programStack = acts[Len(acts)].ps - 4 BY <1>1, <3>1, <3>2 DEF ReentryNests
    <3>4. QED BY <1>1, <2>1, <3>3, NestedFacts
  <2>4. Roomy(a) /\ Under(frames, acts, a, Level, Calls) BY <2>2 DEF Suspended
  <2>5. /\ \A j \in 1 .. Calls : frames[j].ps \in Int
        /\ \A k \in 1 .. Level : Begin(acts, k) \in Int
        /\ \A k \in 1 .. Level - 1 : acts[k].ps \in Int
    <3>1. \A k \in 1 .. Level - 1 : k \in 1 .. Level BY <1>1
    <3>2. QED BY <1>1, <3>1, PlacesInside, NestedFacts
  <2> HIDE DEF p, a
  <2>6. /\ \A j \in 1 .. Calls : p <= frames[j].ps
        /\ \A k \in 1 .. Level : p <= Begin(acts, k)
        /\ \A k \in 1 .. Level - 1 : p <= acts[k].ps
        /\ p <= a
    BY <2>3, <2>4, <2>5 DEF Under
  <2>7. \A k \in 1 .. Level : acts[k].ps \in Int /\ p <= acts[k].ps
    <3>1. \A k \in 1 .. Level : k \in 1 .. Level - 1 \/ k = Level BY <1>1
    <3>2. QED BY <2>3, <2>5, <2>6, <3>1 DEF a
  <2>8. \A x \in Frames : x \in Int /\ p <= x
    <3>1. ASSUME NEW x \in Frames
          PROVE  \/ \E j \in 1 .. Calls : x = frames[j].ps
                 \/ \E k \in 1 .. Level : x = acts[k].ps \/ x = Begin(acts, k)
      BY <1>1 DEF Frames, Begin
    <3>2. QED BY <2>5, <2>6, <2>7, <3>1
  <2>9. p \in Int /\ p <= MemSize BY <2>3, <2>4, Sizes DEF Roomy
  <2>10. QED BY <1>3, <2>1, <2>3, <2>8, <2>9 DEF p, a, A, InSyscall
<1>4. QED BY <1>2, <1>3

\* The arguments are in the new frame, and nothing of it is anyone else's.
LEMMA ArgumentsPut ==
  ASSUME Sound, HostMayCall, NEW args \in HostArgs, NEW a, a = vm.programStack - FrameBytes,
         Within(image, a, FrameBytes), Alive', NEW b, acts' = Append(acts, b), b.ps = a,
         b.entry = vm.programStack, frames' = frames,
         image' = PutWords(image, a, NArgs + 2, <<-1, 0>> \o args)
  PROVE  \A k \in 1 .. NArgs : FetchWord(QvmMem', a + 4 + 4 * k) = args[k]
<1> DEFINE p  == vm.programStack
           n  == NArgs + 2
           ws == <<-1, 0>> \o args
           cs == Append(acts, b)
           S  == 0 .. MemSize + 3
           U  == InUseIn(frames, cs)
           m  == image'
<1>1. /\ Level \in Nat /\ Level = Len(acts) /\ DOMAIN acts = 1 .. Level /\ image \in [S -> Byte]
      /\ acts \in Seq(ActivationRecord) /\ DOMAIN image = S
  BY SoundFacts DEF Memory
<1>2. p \in Int /\ p <= MemSize /\ \A x \in Frames : x \in Int /\ p <= x BY OwnedAbove
<1>3. NArgs \in Nat /\ n \in Nat /\ FrameBytes = 4 * n /\ MemSize \in Nat BY Sizes DEF FrameBytes
<1>4. a \in Int /\ p = a + 4 * n /\ a .. a + 4 * n - 1 \subseteq S
  <2>1. a .. a + FrameBytes - 1 \subseteq S BY <1>1 DEF Within
  <2>2. a = p - 4 * n /\ a .. a + 4 * n - 1 \subseteq S BY <1>3, <2>1
  <2> HIDE DEF p, n, S
  <2>3. QED BY <1>2, <1>3, <2>2
<1>5. \A k \in 1 .. NArgs : ws[(k + 1) + 1] = args[k] /\ args[k] \in Word
  <2>1. args \in [1 .. NArgs -> Word] BY HostAssumption
  <2>2. args \in Seq(Word) /\ Len(args) = NArgs BY <1>3, <2>1, AsSequence
  <2> DEFINE x == -1
             y == 0
  <2>3. x \in Int /\ y \in Int OBVIOUS
  <2>4. args \in Seq(Int) /\ Len(args) = NArgs
    <3>1. Word \subseteq Int BY WordSizes DEF Word
    <3>2. args \in [1 .. NArgs -> Int] BY <2>1, <3>1
    <3>3. QED BY <1>3, <3>2, AsSequence
  <2>5. ASSUME NEW k \in 1 .. NArgs PROVE ws[(k + 1) + 1] = args[k] /\ args[k] \in Word
    <3>1. args[k] \in Word BY <2>1
    <3> HIDE DEF x, y
    <3>2. (<<x, y>> \o args)[(k + 1) + 1] = args[k] BY <1>3, <2>3, <2>4, TwoBefore
    <3>3. QED BY <3>1, <3>2 DEF x, y
  <2>6. QED BY <2>5
<1>6. Len(cs) = Level + 1 /\ cs[Level + 1] = b /\ \A k \in 1 .. Level : cs[k] = acts[k]
  BY <1>1
<1> HIDE DEF cs
<1>7. \A x \in FramesIn(frames, cs) : x = a \/ (x \in Int /\ p <= x)
  <2>1. DOMAIN cs = 1 .. Level + 1 /\ \A k \in 1 .. Level + 1 : k = Level + 1 \/ k \in 1 .. Level
    <3>1. cs \in Seq(ActivationRecord \cup {b})
      <4>1. acts \in Seq(ActivationRecord \cup {b}) BY <1>1
      <4>2. QED BY <4>1 DEF cs
    <3>2. QED BY <1>1, <1>6, <3>1
  <2>2. Begin(cs, Level + 1) = a /\ cs[Level + 1].ps = a BY <1>6 DEF Begin
  <2>3. \A k \in 1 .. Level : cs[k].ps = acts[k].ps /\ Begin(cs, k) = Begin(acts, k) BY <1>6 DEF Begin
  <2>4. /\ \A k \in 1 .. Level : acts[k].ps \in Frames /\ Begin(acts, k) \in Frames
        /\ \A j \in DOMAIN frames : frames[j].ps \in Frames
    <3>1. ASSUME NEW k \in 1 .. Level PROVE acts[k].ps \in Frames /\ Begin(acts, k) \in Frames
      <4>1. k \in DOMAIN acts BY <1>1
      <4>2. QED BY <4>1 DEF Frames, Begin
    <3>2. \A j \in DOMAIN frames : frames[j].ps \in Frames BY DEF Frames
    <3>3. QED BY <3>1, <3>2
  <2>5. ASSUME NEW x \in FramesIn(frames, cs)
        PROVE  \/ \E j \in DOMAIN frames : x = frames[j].ps
               \/ \E k \in 1 .. Level + 1 : x = cs[k].ps \/ x = Begin(cs, k)
    BY <2>1 DEF FramesIn
  <2>6. ASSUME NEW x \in FramesIn(frames, cs) PROVE x = a \/ x \in Frames
    BY <2>1, <2>2, <2>3, <2>4, <2>5
  <2>7. QED BY <1>2, <2>6
<1>8. QvmMem' = [x \in U |-> m[x]]
  <2>1. InUse' = InUseIn(frames', acts') BY InUseSeen
  <2>2. InUse' = U BY <2>1 DEF cs
  <2>3. QvmMem' = [x \in InUse' |-> image'[x]] BY DEF QvmMem
  <2>4. QED BY <2>2, <2>3
<1>9. m = PutWords(image, a, n, ws) OBVIOUS
<1> HIDE DEF m, n, ws, S
<1>10. ASSUME NEW k \in 1 .. NArgs PROVE FetchWord(QvmMem', a + 4 + 4 * k) = args[k]
  <2> DEFINE c == a + 4 + 4 * k
             i == k + 1
             f == [x \in U |-> m[x]]
  <2>1. k \in Int /\ 1 <= k /\ k <= NArgs BY <1>3
  <2>2. i \in 0 .. n - 1 /\ c = a + 4 * i BY <1>3, <1>4, <2>1 DEF n
  <2>3. c \in Int /\ a + 8 <= c /\ c + 3 < p BY <1>3, <1>4, <2>1 DEF n
  <2>4. c .. c + 3 \subseteq S
    <3>1. \A x \in c .. c + 3 : x \in a .. a + 4 * n - 1
      <4> HIDE DEF p, c
      <4>1. QED BY <1>3, <1>4, <2>3
    <3> HIDE DEF c
    <3>2. QED BY <1>4, <3>1
  <2>5. ws[i + 1] = args[k] /\ ws[i + 1] \in Word BY <1>5
  <2>6. image \in [S -> Byte] BY <1>1
  <2>7. FetchWord(m, c) = args[k]
    <3>1. WordAt(a, i, c) BY <2>2 DEF WordAt
    <3> HIDE DEF c, i
    <3>2. \A y \in 0 .. n - 1 : \A z :
            WordAt(a, y, z) /\ z .. z + 3 \subseteq S /\ ws[y + 1] \in Word =>
              FetchWord(PutWords(image, a, n, ws), z) = ws[y + 1]
      BY <1>3, <1>4, <2>6, WordPut
    <3>3. FetchWord(PutWords(image, a, n, ws), c) = ws[i + 1]
      BY <2>2, <2>4, <2>5, <3>1, <3>2, Zenon
    <3>4. QED BY <1>9, <2>5, <3>3
  <2> HIDE DEF c, i
  <2>8. \A x \in c .. c + 3 : x \in U
    <3> HIDE DEF p
    <3>1. \A x \in c .. c + 3 : x \in Int /\ x >= a + 8 /\ x < p BY <1>2, <2>3
    <3>2. \A x \in c .. c + 3 : x \in a .. MemSize - 1 BY <1>2, <1>3, <1>4, <3>1
    <3>3. ASSUME NEW x \in c .. c + 3, NEW y \in FramesIn(frames, cs) PROVE x \notin y .. y + 7
      BY <1>2, <1>4, <1>7, <3>1
    <3>4. cs[Len(cs)].ps = a /\ Len(cs) # 0 BY <1>1, <1>6
    <3>5. QED BY <3>2, <3>3, <3>4 DEF InUseIn
  <2>9. \A x \in c .. c + 3 : f[x] = m[x] BY <2>8
  <2> HIDE DEF f, U
  <2>10. FetchWord(f, c) = FetchWord(m, c) BY <2>3, <2>9, SameFetch
  <2>11. QED BY <1>8, <2>7, <2>10 DEF f, c
<1>11. QED BY <1>10

\* The host calls vmMain.
LEMMA HostCallSeen ==
  ASSUME Good, NestedNow', status' = "ok", NEW args \in HostArgs, NEW garbage \in Garbage,
         VM_Call(args, garbage)
  PROVE  Q!HostCalls
<1> DEFINE L == Level
           N == Calls
           p == vm.programStack
           a == p - FrameBytes
           b == Activation(p, args[1], garbage)
           m == PutWords(image, a, NArgs + 2, <<-1, 0>> \o args)
           J == L + 1
           K == L + N
           gap == IF L = 0 THEN 0 ELSE 4
<1>1. HostMayCall /\ Sound /\ Alive /\ TypeInv /\ status = "ok" BY DEF VM_Call, Good, Proper, Sound
<1>2. /\ L \in Nat /\ L = Len(acts) /\ N \in Nat /\ N = Len(frames) /\ DOMAIN acts = 1 .. L
      /\ Nested(prog, image, frames, acts) /\ frames \in Seq(FrameRecord) /\ J \in Nat /\ J > 0
      /\ acts \in Seq(ActivationRecord) /\ image \in [0 .. MemSize + 3 -> Byte]
      /\ DOMAIN image = 0 .. MemSize + 3
  BY <1>1, SoundFacts DEF Calls, Memory
<1>3. /\ p \in Int /\ p <= MemSize /\ FrameBytes \in Nat /\ a \in Int
      /\ Level = 0 => p = MemSize /\ QvmCalls = <<>>
      /\ Level > 0 => p = A.ps - 4 /\ A.ps \in Int /\ InSyscall
  BY <1>1, OwnedAbove, Sizes DEF FrameBytes
<1>4. b.ps = a /\ b.entry = p /\ b.pc = 0 /\ b.ofs = 0 /\ ~ b.inSyscall /\ b.command = args[1]
  BY DEF Activation, Reloaded
<1>5. /\ Within(image, a, FrameBytes) /\ image' = m /\ acts' = Append(acts, b)
      /\ UNCHANGED <<prog, code, frames, status, result>>
  <2>1. ~ Halt("undefined") BY <1>1 DEF Halt
  <2>2. QED BY <1>4, <2>1 DEF VM_Call
<1>6. \A x \in 0 .. MemSize + 3 : x < a \/ p <= x => m[x] = image[x]
  <2> DEFINE n == NArgs + 2
             ws == <<-1, 0>> \o args
  <2>1. n \in Nat /\ p = a + 4 * n
    <3>1. NArgs \in Nat /\ FrameBytes = 4 * n BY Sizes DEF FrameBytes
    <3> HIDE DEF p
    <3>2. QED BY <1>3, <3>1
  <2>2. m = PutWords(image, a, n, ws) OBVIOUS
  <2> HIDE DEF n, ws, m, a, p
  <2>3. \A x \in 0 .. MemSize + 3 : x < a \/ p <= x => x \notin a .. a + 4 * n - 1
    BY <1>3, <2>1
  <2>4. QED BY <1>2, <2>2, <2>3 DEF PutWords
<1> HIDE DEF b, m
<1>7. QvmStatus = "ok" /\ Q!StackBottom = StackBottom /\ Q!FrameBytes = FrameBytes
  BY <1>1, SameInstructions DEF Alive
<1>8. gap \in {0, 4} /\ Q!Lowest(QvmCalls) - gap - Q!FrameBytes = a /\ (QvmCalls # <<>> => Q!Top.sys # -1)
  <2>1. CASE L = 0
    <3>1. Q!Lowest(QvmCalls) = MemSize BY <1>3, <2>1 DEF Q!Lowest
    <3>2. QED BY <1>3, <1>7, <2>1, <3>1, Sizes
  <2>2. CASE L # 0
    <3>1. Level > 0 /\ A.inSyscall BY <1>1, <1>2, <2>2 DEF HostMayCall
    <3>2. Q!Top.ps = A.ps /\ QvmCalls # <<>> /\ Q!Top.sys # -1
      <4> DEFINE at   == IndexIn(code, FetchWord(image, A.ps))
                 base == Below(frames, acts, Level, Calls)
                 ops  == Ops(A.opStack, BaseOf(frames, Level, Calls),
                             A.ofs - BaseOf(frames, Level, Calls))
                 sys  == -1 - A.pc
                 cmd  == CommandOf(frames, acts, Level, Calls)
      <4>1. Q!Top = Q!Call(at, A.ps, base, ops, sys, cmd) /\ QvmCalls # <<>> /\ Q!Top.sys # -1
        BY <3>1, SeenSuspended
      <4> HIDE DEF at, base, ops, sys, cmd
      <4>2. QED BY <4>1 DEF Q!Call
    <3>3. Q!Lowest(QvmCalls) = A.ps BY <3>2 DEF Q!Lowest, Q!Top
    <3>4. p = A.ps - 4 /\ A.ps \in Int BY <1>3, <3>1
    <3> HIDE DEF p
    <3>5. QED BY <1>3, <1>7, <2>2, <3>2, <3>3, <3>4
  <2>3. QED BY <2>1, <2>2
<1> DEFINE cs2 == acts'
<1>9. Len(cs2) = J /\ cs2[J] = b /\ \A k \in 1 .. L : cs2[k] = acts[k]
  <2>1. cs2 = Append(acts, b) BY <1>5
  <2> HIDE DEF cs2
  <2>2. QED BY <1>2, <2>1
<1>10. Level' = J /\ A' = b BY <1>9 DEF Level, A
<1>11. prog.insns' = prog.insns BY <1>5
<1>12. CASE a <= StackBottom
  <2>1. Overflown' BY <1>2, <1>4, <1>10, <1>12 DEF Overflown, StackBottom
  <2>2. Q!Ends("overflow") BY <1>5, <2>1, StackFull
  <2>3. Q!Lowest(QvmCalls) - gap - Q!FrameBytes <= Q!StackBottom BY <1>7, <1>8, <1>12
  <2> HIDE DEF gap
  <2>4. QED BY <1>7, <1>8, <2>2, <2>3 DEF Q!HostCalls
<1>13. CASE ~ (a <= StackBottom)
  <2>1. ~ Overflown' /\ Alive' /\ QvmStatus' = "ok"
    <3>1. ~ Overflown' BY <1>4, <1>10, <1>13 DEF Overflown, StackBottom
    <3>2. QED BY <1>1, <1>5, <3>1 DEF Alive, QvmStatus
  <2>2. SameOwned(image, m, frames, acts) /\ (Level > 0 => SameAt(image, m, acts[Level].ps))
    <3>1. \A x \in 0 .. MemSize + 3 : x >= p => m[x] = image[x] BY <1>3, <1>6
    <3>2. QED BY <1>1, <3>1, HostCallsBelow
  <2>3. ASSUME NEW x \in InUse PROVE image'[x] = image[x]
    <3>1. x \in 0 .. MemSize - 1 /\ MemSize \in Nat BY InUseInside, Sizes
    <3>2. x < StackBottom \/ p <= x
      <4>1. x \in 0 .. StackBottom - 1 \/ x \in (IF Level = 0 THEN MemSize ELSE A.ps) .. MemSize - 1
        BY DEF InUse
      <4>2. StackBottom \in Int BY Sizes DEF StackBottom
      <4>3. (IF Level = 0 THEN MemSize ELSE A.ps) \in Int /\ (IF Level = 0 THEN MemSize ELSE A.ps) >= p
        BY <1>2, <1>3, Sizes
      <4> HIDE DEF p
      <4>4. QED BY <1>3, <3>1, <4>1, <4>2, <4>3
    <3>3. x \in 0 .. MemSize + 3 /\ (x < a \/ p <= x)
      <4>1. StackBottom \in Int BY Sizes DEF StackBottom
      <4> HIDE DEF a, p
      <4>2. QED BY <1>3, <1>13, <3>1, <3>2, <4>1
    <3>4. QED BY <1>5, <1>6, <3>3
  <2>4. Q!MemoryKept(QvmCalls') BY <1>1, <1>5, <2>1, <2>3, KeptSeen
  <2>5. QvmCalls' = CallsIn(code, m, frames, cs2) BY <1>5, <2>1, CallsSeenNext
  <2>6. Nested(prog, m, frames, cs2) BY <1>5 DEF NestedNow
  <2>7. \A k \in 1 .. NArgs : FetchWord(QvmMem', a + 4 + 4 * k) = args[k]
    <3>1. acts' = Append(acts, b) /\ b.ps = a /\ b.entry = p /\ frames' = frames
          /\ image' = PutWords(image, a, NArgs + 2, <<-1, 0>> \o args)
      BY <1>4, <1>5 DEF m
    <3>2. Within(image, a, FrameBytes) /\ a = vm.programStack - FrameBytes BY <1>5
    <3> HIDE DEF a
    <3>3. QED BY <1>1, <2>1, <3>1, <3>2, ArgumentsPut
  <2> DEFINE s  == CallsIn(code, image, frames, acts)
             s2 == CallsIn(code, m, frames, cs2)
  <2> HIDE DEF cs2
  <2>8. SamePrefix(image, frames, acts, m, frames, cs2, L, N)
    <3>1. \A i \in 1 .. L : SameAt(image, m, acts[i].ps)
      <4>1. \A i \in 1 .. L : i \in 1 .. L - 1 \/ i = L BY <1>2
      <4>2. \A i \in 1 .. L - 1 : SameAt(image, m, acts[i].ps) BY <1>2, <2>2 DEF SameOwned
      <4>3. QED BY <1>2, <2>2, <4>1, <4>2
    <3>2. \A j \in 1 .. N : frames[j].level \in 1 .. L BY <1>2, NestedFacts
    <3>3. N + 1 .. Len(frames) = {} /\ N \in 0 .. Len(frames) /\ L \in 0 .. Len(acts) /\ L <= Len(cs2)
      BY <1>2, <1>9
    <3> HIDE DEF N, L
    <3>4. QED BY <1>9, <3>1, <3>2, <3>3 DEF SamePrefix
  <2>9. K \in Nat /\ K + 1 = N + J /\ N + L = K BY <1>2
  <2>10. \A y \in 1 .. K : s2[y] = s[y]
    <3>1. Len(acts) <= L + 1 BY <1>2
    <3>2. Nested(prog, image, frames, acts) BY <1>2
    <3> HIDE DEF L, N
    <3>3. SamePrefix(image, frames, acts, m, frames, cs2, L, N) BY <2>8
    <3>4. \A y \in 1 .. L + N : s2[y] = s[y] BY <2>6, <3>1, <3>2, <3>3, PrefixKept
    <3>5. QED BY <3>4
  <2>11. /\ s2 = [y \in 1 .. K + 1 |-> s2[y]] /\ s2[K + 1] = CallSeen(code, m, frames, cs2)
    <3>1. Len(cs2) > 0 BY <1>2, <1>9
    <3>2. Len(frames) + Len(cs2) = K + 1 BY <1>2, <1>9, <2>9
    <3> HIDE DEF K
    <3>3. QED BY <2>6, <3>1, <3>2, LastCall DEF CallSeen
  <2>12. s2[K + 1] = Q!Call(0, a, a, <<>>, -1, <<args[1]>>)
    <3>1. ~ (N > 0 /\ frames[N].level = J)
      <4>1. ASSUME N > 0, frames[N].level = J PROVE FALSE
        <5>1. N \in 1 .. N BY <1>2, <4>1
        <5>2. frames[N].level \in 1 .. L BY <1>2, <5>1, NestedFacts
        <5>3. QED BY <1>2, <4>1, <5>2
      <4>2. QED BY <4>1
    <3>2. Begin(cs2, J) = a BY <1>4, <1>9 DEF Begin
    <3>3. IndexIn(code, 0) = 0
      <4>1. 0 \in Indices(Insns) BY <1>1, CodeTyped
      <4>2. WordsBefore(Insns)[0] = 0 BY <4>1, WordsBeforeStep
      <4>3. Place(prog, 0) = WordsBefore(Insns)[0] BY <4>1 DEF Place, Insns, Expanded
      <4>4. IndexIn(code, Place(prog, 0)) = 0 BY <1>1, <4>1, PlaceFound
      <4>5. QED BY <4>2, <4>3, <4>4
    <3>4. Ops(b.opStack, 0, 0 - 0) = <<>>
      <4>1. 1 .. 0 - 0 = {} OBVIOUS
      <4>2. QED BY <4>1 DEF Ops
    <3> HIDE DEF a, J, N, K
    <3>5. Below(frames, cs2, J, N) = a /\ BaseOf(frames, J, N) = 0 /\ CommandOf(frames, cs2, J, N) = <<args[1]>>
      BY <1>4, <1>9, <3>1, <3>2 DEF Below, BaseOf, CommandOf
    <3>6. QED BY <1>2, <1>4, <1>9, <2>11, <3>3, <3>4, <3>5 DEF CallSeen, Q!Call
  <2>13. QvmCalls = s /\ s = [y \in 1 .. K |-> s[y]] /\ SubSeq(s, 1, K) = s
    <3>1. QvmCalls = s /\ QvmCalls = [y \in 1 .. N + L |-> QvmCalls[y]] BY <1>1, SeenCalls
    <3> HIDE DEF s, K
    <3>2. s = [y \in 1 .. K |-> s[y]] BY <2>9, <3>1
    <3>3. K \in 0 .. K /\ Begins(s, s, K) BY <2>9 DEF Begins
    <3>4. s = SubSeq(s, 1, K) BY <2>9, <3>2, <3>3, NoneAppended
    <3>5. QED BY <3>1, <3>2, <3>4
  <2> HIDE DEF s, s2, K
  <2>14. QvmCalls' = Append(QvmCalls, Q!Call(0, a, a, <<>>, -1, <<args[1]>>))
    <3>1. Begins(s, s2, K) /\ K \in 0 .. K BY <2>9, <2>10 DEF Begins
    <3>2. s2 = Append(SubSeq(s, 1, K), s2[K + 1]) BY <2>9, <2>11, <2>13, <3>1, OneAppended
    <3>3. QED BY <2>5, <2>12, <2>13, <3>2 DEF s2
  <2>15. UNCHANGED <<prog.insns, QvmStatus, IF Alive THEN result ELSE <<>>>>
    BY <1>1, <1>5, <1>7, <2>1
  <2> DEFINE ps == Q!Lowest(QvmCalls) - gap - Q!FrameBytes
  <2>16. ps = a /\ ~ (ps <= Q!StackBottom) BY <1>7, <1>8, <1>13
  <2>17. QvmCalls' = Append(QvmCalls, Q!Call(0, ps, ps, <<>>, -1, <<args[1]>>)) BY <2>14, <2>16
  <2>18. \A k \in 1 .. NArgs : FetchWord(QvmMem', ps + 4 + 4 * k) = args[k] BY <2>7, <2>16
  <2>19. \A k \in 1 .. NArgs : Q!FetchWord(QvmMem', ps + 4 + 4 * k) = args[k]
    BY <2>18, SameWords
  <2> HIDE DEF gap
  <2>20. QED BY <1>7, <1>8, <2>4, <2>15, <2>16, <2>17, <2>19 DEF Q!HostCalls
<1>14. QED BY <1>12, <1>13

\* The host frees the vm, from a handler with an error.
LEMMA HostQuitSeen == ASSUME Good, VM_Free PROVE Q!HostQuits
<1>1. /\ HostMayCall /\ Sound /\ Alive /\ QvmStatus = "ok" /\ ReentryNests
      /\ Level \in Nat /\ Level = Len(acts)
  BY SoundFacts DEF VM_Free, Good, Proper, Sound, Alive
<1>2. QvmCalls # <<>> => Q!Top.sys # -1
  <2>1. Level = 0 => QvmCalls = <<>> BY <1>1, SeenCalls
  <2>2. Level # 0 => Level > 0 /\ A.inSyscall BY <1>1 DEF HostMayCall
  <2>3. Level > 0 /\ A.inSyscall => Q!Top.sys # -1 BY SeenSuspended
  <2>4. QED BY <2>1, <2>2, <2>3
<1>3. QvmStatus' = "freed" /\ prog' = prog
  <2>1. CASE Halt("error") /\ vm.callLevel # 0
    <3>1. Level > 0 /\ A.inSyscall BY <1>1, <2>1 DEF HostMayCall, ReentryNests
    <3>2. acts' = acts /\ status' = "error" /\ prog' = prog BY <2>1 DEF Halt
    <3>3. Level' = Level /\ A' = A BY <3>2 DEF Level, A
    <3>4. QED BY <3>1, <3>2, <3>3 DEF QvmStatus, Overflown
  <2>2. CASE Halt("freed") /\ vm.callLevel = 0
    <3>1. Level = 0 BY <1>1, <2>2 DEF ReentryNests
    <3>2. acts' = acts /\ status' = "freed" /\ prog' = prog BY <2>2 DEF Halt
    <3>3. Level' = 0 BY <3>1, <3>2 DEF Level
    <3>4. QED BY <3>2, <3>3 DEF QvmStatus, Overflown
  <2>3. QED BY <2>1, <2>2 DEF VM_Free
<1>4. ~ Alive' BY <1>3 DEF Alive
<1>5. QvmMem' = <<>> BY <1>4 DEF QvmMem
<1>6. QvmCalls' = <<>> BY <1>4, CallsSeenNext
<1>7. Q!Ends("freed") BY <1>3, <1>4, <1>5, <1>6 DEF Q!Ends
<1>8. QED BY <1>1, <1>2, <1>7 DEF Q!HostQuits

-----------------------------------------------------------------------------
(* Every step is one of the abstract machine, or none.                     *)

\* No check of vm.c stops a program that has room on its stack.
LEMMA Unstopped ==
  ASSUME Good, OnlyStackOverflow', Instruction PROVE status' = "ok"
<1>1. ASSUME Running, NEW s, Halt(s), s \in {"error", "undefined", "trap"} PROVE FALSE
  <2>1. A' = A /\ status' = s BY <1>1 DEF Halt, A, Level
  <2>2. s = "error" /\ (A.ps <= StackBottom \/ A.inSyscall)
    BY <1>1, <2>1 DEF OnlyStackOverflow, StackBottom
  <2>3. QED BY <1>1, <2>2 DEF Good, Alive, QvmStatus, Overflown, Running
<1>2. Running
  <2>1. \A ops : At(ops) => Running BY DEF At
  <2>2. QED
    BY <2>1 DEF Instruction, FetchError, OperandMissing, BadInstruction, Nothing, PushCached,
                LoadMisaligned, LoadValue, StoreValue, Argument, BlockCopy, CallWild, CallFunction,
                CallOutOfRange, CallSystem, PushStale, Pop, Enter, LeaveWild, Leave, LeaveVM,
                Jump, Branch, Unary, Binary
<1>3. ~ Halt("error") /\ ~ Halt("undefined") /\ ~ Halt("trap") BY <1>1, <1>2
<1>4. status' = status
  BY <1>3 DEF Instruction, FetchError, OperandMissing, BadInstruction, Nothing, PushCached,
              LoadMisaligned, LoadValue, StoreValue, Argument, BlockCopy, CallWild, CallFunction,
              CallOutOfRange, CallSystem, PushStale, Pop, Enter, LeaveWild, Leave, LeaveVM,
              Jump, Branch, Unary, Binary
<1>5. QED BY <1>2, <1>4 DEF Running

LEMMA InstructionSeen ==
  ASSUME Good, NestedNow', OnlyStackOverflow', Instruction PROVE Q!Next
<1>1. status' = "ok" BY Unstopped
<1>2. Running /\ ~ Halt("error") /\ ~ Halt("undefined")
  <2>1. status = "ok" BY DEF Good, Proper, Sound
  <2>2. ~ Halt("error") /\ ~ Halt("undefined") BY <1>1 DEF Halt
  <2>3. \A ops : At(ops) => Running BY DEF At
  <2>4. QED
    BY <2>2, <2>3 DEF Instruction, FetchError, OperandMissing, BadInstruction, Nothing, PushCached,
                LoadMisaligned, LoadValue, StoreValue, Argument, BlockCopy, CallWild, CallFunction,
                CallOutOfRange, CallSystem, PushStale, Pop, Enter, LeaveWild, Leave, LeaveVM,
                Jump, Branch, Unary, Binary
<1>3. CASE FetchError \/ OperandMissing \/ BadInstruction \/ LoadMisaligned
           \/ CallWild \/ CallOutOfRange \/ LeaveWild
  BY <1>2, <1>3 DEF FetchError, OperandMissing, BadInstruction, LoadMisaligned, CallWild,
                    CallOutOfRange, LeaveWild
<1>4. CASE Nothing BY <1>4, NothingSeen DEF Q!Next
<1>5. CASE PushCached BY <1>5, ConstantSeen DEF Q!Next
<1>6. CASE PushStale BY <1>6, PushSeen DEF Q!Next
<1>7. CASE Pop BY <1>7, PopSeen DEF Q!Next
<1>8. CASE LoadValue BY <1>8, LoadSeen DEF Q!Next
<1>9. CASE StoreValue BY <1>9, StoreSeen DEF Q!Next
<1>10. CASE Argument BY <1>10, ArgumentSeen DEF Q!Next
<1>11. CASE BlockCopy BY <1>11, BlockCopySeen DEF Q!Next
<1>12. CASE CallFunction BY <1>12, FunctionSeen DEF Q!Next
<1>13. CASE CallSystem BY <1>1, <1>13, SystemSeen DEF Q!Next
<1>14. CASE Enter BY <1>1, <1>14, EnterSeen DEF Q!Next
<1>15. CASE Leave BY <1>1, <1>15, LeaveSeen DEF Q!Next
<1>16. CASE LeaveVM BY <1>1, <1>16, LeaveMainSeen DEF Q!Next
<1>17. CASE Jump BY <1>17, JumpSeen DEF Q!Next
<1>18. CASE Branch BY <1>18, BranchSeen DEF Q!Next
<1>19. CASE Unary BY <1>19, UnarySeen DEF Q!Next
<1>20. CASE Binary BY <1>20, BinarySeen DEF Q!Next
<1>21. QED
  BY <1>3, <1>4, <1>5, <1>6, <1>7, <1>8, <1>9, <1>10, <1>11, <1>12, <1>13, <1>14, <1>15, <1>16,
     <1>17, <1>18, <1>19, <1>20 DEF Instruction

LEMMA NextSeen ==
  ASSUME Good, NestedNow', OnlyStackOverflow', Next PROVE Q!Next
<1>1. CASE Instruction BY <1>1, InstructionSeen
<1>2. CASE HostReturns
  <2>1. PICK v \in HostReplies, w \in HostWrites : SystemCallReturns(v, w) BY <1>2 DEF HostReturns
  <2>2. QED BY <2>1, AnswerSeen DEF Q!Next
<1>3. CASE HostCalls
  <2>1. PICK args \in HostArgs, garbage \in Garbage : VM_Call(args, garbage) BY <1>3 DEF HostCalls
  <2>2. status = "ok" BY DEF Good, Proper, Sound
  <2>3. status' = "ok"
    <3>1. ~ Halt("undefined") BY DEF Halt, OnlyStackOverflow
    <3>2. QED BY <2>1, <2>2, <3>1 DEF VM_Call
  <2>4. QED BY <2>1, <2>3, HostCallSeen DEF Q!Next
<1>4. CASE VM_Free BY <1>4, HostQuitSeen DEF Q!Next
<1>5. QED BY <1>1, <1>2, <1>3, <1>4 DEF Next

\* What has ended stays as it is, for the program.
LEMMA EndSeen ==
  ASSUME ~ Alive, QvmStatus' = QvmStatus, prog' = prog PROVE UNCHANGED Q!vars
<1>1. ~ Alive' BY DEF Alive
<1>2. QvmMem = <<>> /\ QvmMem' = <<>> BY <1>1 DEF QvmMem
<1>3. QvmCalls = <<>> /\ QvmCalls' = <<>> BY <1>1, CallsSeen, CallsSeenNext
<1>4. QED BY <1>1, <1>2, <1>3 DEF Q!vars

LEMMA IdleSeen == ASSUME UNCHANGED vars PROVE UNCHANGED Q!vars
<1>1. /\ prog' = prog /\ code' = code /\ image' = image /\ acts' = acts /\ frames' = frames
      /\ status' = status /\ result' = result
  BY DEF vars
<1>2. A' = A /\ Level' = Level BY <1>1 DEF A, Level
<1>3. QvmStatus' = QvmStatus BY <1>1, <1>2 DEF QvmStatus, Overflown, StackBottom
<1>4. Alive' <=> Alive BY <1>3 DEF Alive
<1>5. QvmCalls' = QvmCalls BY <1>1, <1>4, CallsSeen, CallsSeenNext
<1>6. QvmMem' = QvmMem
  <2>1. InUse' = InUse BY <1>1, InUseSeen
  <2>2. QED BY <1>1, <1>4, <2>1 DEF QvmMem
<1>7. QED BY <1>1, <1>3, <1>4, <1>5, <1>6 DEF Q!vars

\* The next instruction fetch finds the program stack full.
LEMMA FullSeen ==
  ASSUME Sound, ~ Alive, Next PROVE UNCHANGED Q!vars
<1>1. Overflown /\ status = "ok" BY DEF Alive, QvmStatus, Sound
<1>2. FetchFails /\ ~ A.inSyscall /\ Level > 0 BY <1>1 DEF Overflown, FetchFails
<1>3. \A ops : ~ At(ops) BY <1>2 DEF At
<1>4. ~ HostMayCall /\ ~ InSyscall BY <1>2 DEF HostMayCall, InSyscall
<1>5. ~ HostReturns /\ ~ HostCalls /\ ~ VM_Free
  BY <1>4 DEF HostReturns, HostCalls, VM_Free, SystemCallReturns, VM_Call
<1>6. FetchError
  BY <1>2, <1>3, <1>5 DEF Next, Instruction, OperandMissing, BadInstruction, Nothing, PushCached,
              LoadMisaligned, LoadValue, StoreValue, Argument, BlockCopy, CallWild, CallFunction,
              CallOutOfRange, CallSystem, PushStale, Pop, Enter, LeaveWild, Leave, LeaveVM,
              Jump, Branch, Unary, Binary
<1>7. prog' = prog /\ acts' = acts BY <1>6 DEF FetchError, Halt
<1>8. A' = A /\ Level' = Level BY <1>7 DEF A, Level
<1>9. QvmStatus' = QvmStatus BY <1>1, <1>8 DEF QvmStatus, Overflown, StackBottom
<1>10. QED BY <1>7, <1>9, EndSeen

\* What holds in every state of a compiled program.
Compliant ==
  /\ TypeInv /\ InterpInv /\ CompiledInv /\ Conventional /\ Faultless /\ Specified
  /\ OnlyStackOverflow /\ StackInv /\ NestedNow

LEMMA StepSeen ==
  ASSUME Compliant, NestedNow', OnlyStackOverflow', [Next]_vars PROVE [Q!Next]_Q!vars
<1>1. CASE UNCHANGED vars BY <1>1, IdleSeen
<1>2. CASE Next /\ status = "ok"
  <2>1. Proper /\ Specified /\ Sound BY <1>2 DEF Compliant, Proper, Sound
  <2>2. CASE Alive BY <1>2, <2>1, <2>2, NextSeen DEF Good
  <2>3. CASE ~ Alive BY <1>2, <2>1, <2>3, FullSeen
  <2>4. QED BY <2>2, <2>3
<1>3. CASE Next /\ status # "ok"
  <2>1. ~ Running /\ ~ InSyscall /\ ~ HostMayCall BY <1>3 DEF Running, InSyscall, HostMayCall
  <2>2. ~ Instruction
    BY <2>1 DEF Instruction, FetchError, OperandMissing, BadInstruction, Nothing, PushCached,
                LoadMisaligned, LoadValue, StoreValue, Argument, BlockCopy, CallWild, CallFunction,
                CallOutOfRange, CallSystem, PushStale, Pop, Enter, LeaveWild, Leave, LeaveVM,
                Jump, Branch, Unary, Binary, At
  <2>3. ~ HostReturns /\ ~ HostCalls /\ ~ VM_Free
    BY <2>1 DEF HostReturns, HostCalls, VM_Free, SystemCallReturns, VM_Call
  <2>4. QED BY <1>3, <2>2, <2>3 DEF Next
<1>4. QED BY <1>1, <1>2, <1>3

LEMMA StartSeen == ASSUME Compliant, Init PROVE Q!Init
<1>1. /\ prog \in Programs /\ image = [a \in 0 .. MemSize + 3 |-> 0] /\ acts = <<>>
      /\ status = "ok" /\ result = <<>>
  BY DEF Init
<1>2. Level = 0 BY <1>1 DEF Level
<1>3. QvmStatus = "ok" /\ Alive BY <1>1, <1>2 DEF QvmStatus, Overflown, Alive
<1>4. Sound /\ Nested(prog, image, frames, acts) BY <1>1 DEF Compliant, Sound, NestedNow
<1>5. QvmCalls = <<>> BY <1>2, <1>3, <1>4, SeenCalls
<1>6. QvmMem = [a \in Q!Live(<<>>) |-> 0]
  <2>1. QvmCalls = CallsIn(code, image, frames, acts) BY <1>3, CallsSeen
  <2>2. Q!Live(<<>>) = InUseIn(frames, acts) BY <1>4, <1>5, <2>1, LiveSeen
  <2>3. Q!Live(<<>>) = InUse BY <2>2, InUseSeen
  <2>4. InUse \subseteq 0 .. MemSize + 3
    <3>1. Good BY <1>3, <1>4 DEF Compliant, Good, Proper
    <3>2. QED BY <3>1, InUseInside, Sizes
  <2>5. QvmMem = [a \in InUse |-> image[a]] BY <1>3 DEF QvmMem
  <2> HIDE DEF InUse
  <2>6. QvmMem = [a \in InUse |-> 0] BY <1>1, <2>4, <2>5
  <2>7. QED BY <2>3, <2>6
<1>7. QED BY <1>1, <1>3, <1>5, <1>6 DEF Q!Init

(***************************************************************************)
(* VM_CallInterpreted runs a compiled program as the abstract machine      *)
(* does: every step is one the abstract machine may take with the pending  *)
(* calls, the operands of each and the bytes in use, or none at all.       *)
(***************************************************************************)
THEOREM RunsAsQvm ==
  Spec /\ [](Conventional /\ Faultless /\ Specified) => ImplementsQvm
<1>1. /\ TypeInv /\ InterpInv /\ CompiledInv /\ Conventional /\ Faultless /\ Specified
      /\ OnlyStackOverflow /\ StackInv
      => Compliant
  <2>1. ASSUME TypeInv, InterpInv, CompiledInv, Conventional PROVE NestedNow
    <3>1. status = "ok" => Sound BY <2>1 DEF Sound
    <3>2. QED BY <3>1, SoundFacts DEF NestedNow
  <2>2. QED BY <2>1 DEF Compliant
<1>2. Compliant /\ Init => Q!Init BY StartSeen
<1>3. Compliant /\ Compliant' /\ [Next]_vars => [Q!Next]_Q!vars
  <2>1. Compliant' => NestedNow' /\ OnlyStackOverflow' BY DEF Compliant
  <2>2. QED BY <2>1, StepSeen
<1>4. QED BY <1>1, <1>2, <1>3, CompiledInvHolds, StackInvHolds, PTL DEF Spec, ImplementsQvm, Q!Spec
=============================================================================
