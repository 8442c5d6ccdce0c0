------------------------------- MODULE Lemmas -------------------------------
(***************************************************************************)
(* What the proofs share.  Of the natural numbers: the least-number        *)
(* principle, least elements, induction and definition by recursion,       *)
(* stated with sets and functions so that a proof can cite them for any    *)
(* property that defines a subset of Nat; powers of two and sums over      *)
(* finite sets, which the provers know nothing of.  Of the machine: words, *)
(* bytes and memories of any width, and the code image of a program.       *)
(***************************************************************************)
EXTENDS CodeImage, Words, Integers, WellFoundedInduction, FiniteSetTheorems,
        FiniteSetsExt, TLAPS

-----------------------------------------------------------------------------
(* Numbers.                                                                *)

LEMMA LeastNumber ==
  ASSUME NEW T, T \subseteq Nat, T # {}
  PROVE  \E m \in T : \A k \in T : m <= k
<1> DEFINE R == {ss \in Nat \X Nat : ss[1] < ss[2]}
<1>1. IsWellFoundedOn(R, Nat) BY NatLessThanWellFounded DEF OpToRel
<1>2. \A k, m \in Nat : k < m => <<k, m>> \in R OBVIOUS
<1> HIDE DEF R
<1>3. PICK m \in T : \A k \in T : <<k, m>> \notin R BY <1>1, WFMin
<1>4. ASSUME NEW k \in T PROVE m <= k
  <2>1. k \in Nat /\ m \in Nat OBVIOUS
  <2>2. ~ (k < m) BY <1>2, <1>3, <2>1
  <2>3. QED BY <2>1, <2>2
<1>5. QED BY <1>4

LEMMA Least ==
  ASSUME NEW S, S \subseteq Nat, S # {}
  PROVE  Min(S) \in S /\ \A k \in S : Min(S) <= k
<1>1. \E m \in S : \A k \in S : m <= k BY LeastNumber
<1>2. QED BY <1>1 DEF Min

LEMMA Greatest ==
  ASSUME NEW n \in Nat, NEW S, S \subseteq 0 .. n, S # {}
  PROVE  Max(S) \in S /\ \A k \in S : k <= Max(S)
<1> DEFINE T == {n - k : k \in S}
<1>0. \A k \in S : k \in 0 .. n OBVIOUS
<1>1. T \subseteq Nat /\ T # {}
  <2>1. \A k \in S : n - k \in Nat BY <1>0
  <2>2. QED BY <2>1
<1>2. PICK m \in T : \A k \in T : m <= k BY <1>1, LeastNumber
<1>3. PICK x \in S : m = n - x BY <1>2
<1>4. \A k \in S : x >= k
  <2> SUFFICES ASSUME NEW k \in S PROVE x >= k OBVIOUS
  <2>1. n - k \in T /\ k \in Int /\ x \in Int BY <1>0
  <2>2. m <= n - k BY <1>2, <2>1
  <2>3. QED BY <1>3, <2>1, <2>2
<1>5. Max(S) \in S /\ \A k \in S : Max(S) >= k BY <1>4 DEF Max
<1>6. QED BY <1>5

LEMMA LeastOfTwo ==
  ASSUME NEW a \in Nat, NEW b \in Nat
  PROVE  Min({a, b}) = IF a <= b THEN a ELSE b
<1>1. Min({a, b}) \in {a, b} /\ Min({a, b}) <= a /\ Min({a, b}) <= b BY Least
<1>2. QED BY <1>1

\* Numbers above the least one do not matter.
LEMMA SameLeast ==
  ASSUME NEW S, S \subseteq Nat, NEW T, T \subseteq S, T # {},
         \A k \in S : \E m \in T : m <= k
  PROVE  Min(S) = Min(T)
<1>1. Min(T) \in T /\ \A k \in T : Min(T) <= k BY Least
<1>2. Min(S) \in S /\ \A k \in S : Min(S) <= k BY Least
<1>3. PICK m \in T : m <= Min(S) BY <1>2
<1>4. Min(T) <= m /\ Min(S) <= Min(T) BY <1>1, <1>2
<1>5. Min(T) \in Nat /\ Min(S) \in Nat /\ m \in Nat BY <1>1, <1>2
<1>6. QED BY <1>3, <1>4, <1>5

LEMMA Induction ==
  ASSUME NEW S, 0 \in S, \A n \in Nat : n \in S => n + 1 \in S
  PROVE  Nat \subseteq S
<1> DEFINE T == {n \in Nat : n \notin S}
<1> SUFFICES ASSUME T # {} PROVE FALSE OBVIOUS
<1>1. PICK m \in T : \A k \in T : m <= k BY LeastNumber
<1>2. m # 0 /\ m - 1 \in Nat /\ m - 1 \notin T BY <1>1
<1>3. QED BY <1>1, <1>2

\* Induction from 0 up to n.
LEMMA InductionTo ==
  ASSUME NEW n \in Nat, NEW S, 0 \in S, \A k \in 0 .. n - 1 : k \in S => k + 1 \in S
  PROVE  0 .. n \subseteq S
<1> DEFINE T == {k \in Nat : k <= n => k \in S}
<1>1. \A k \in Nat : k \in T => k + 1 \in T OBVIOUS
<1>2. 0 \in T OBVIOUS
<1> HIDE DEF T
<1>3. Nat \subseteq T BY <1>1, <1>2, Induction
<1>4. QED BY <1>3 DEF T

\* A sequence in which each element determines the next one ...
Iterates(n, D, first, F, w) ==
  w \in [0 .. n -> D] /\ w[0] = first /\ \A k \in 0 .. n - 1 : w[k + 1] = F[k][w[k]]
Iterable(n, D, first, F) == \E w : Iterates(n, D, first, F, w)

\* ... exists.
LEMMA RecursionIn ==
  ASSUME NEW n \in Nat, NEW D, NEW first \in D, NEW F \in [Nat -> [D -> D]]
  PROVE  Iterable(n, D, first, F)
<1> DEFINE Upto(m, w) ==
             /\ w \in [0 .. m -> D]
             /\ w[0] = first
             /\ \A k \in 0 .. m - 1 : w[k + 1] = F[k][w[k]]
           S == {m \in Nat : \E w : Upto(m, w)}
<1>1. 0 \in S
  <2>1. Upto(0, [k \in 0 .. 0 |-> first]) OBVIOUS
  <2>2. QED BY <2>1
<1>2. ASSUME NEW m \in Nat, m \in S PROVE m + 1 \in S
  <2>1. PICK w : Upto(m, w) BY <1>2
  <2> DEFINE c == F[m][w[m]]
             v == [k \in 0 .. m + 1 |-> IF k = m + 1 THEN c ELSE w[k]]
  <2>2. c \in D
    <3>1. w[m] \in D BY <2>1
    <3>2. QED BY <3>1
  <2> HIDE DEF c
  <2>3. v \in [0 .. m + 1 -> D] /\ v[0] = first
    <3>1. \A k \in 0 .. m + 1 : k # m + 1 => k \in 0 .. m OBVIOUS
    <3>2. w \in [0 .. m -> D] /\ w[0] = first BY <2>1
    <3> HIDE DEF Upto
    <3>3. v \in [0 .. m + 1 -> D] BY <2>2, <3>1, <3>2
    <3>4. 0 \in 0 .. m + 1 /\ 0 # m + 1 OBVIOUS
    <3>5. v[0] = w[0] BY <3>4
    <3> HIDE DEF v
    <3>6. QED BY <3>2, <3>3, <3>5
  <2>4. ASSUME NEW k \in 0 .. m PROVE v[k + 1] = F[k][v[k]]
    <3>1. v[k] = w[k] BY <2>4
    <3>2. CASE k = m BY <3>1, <3>2 DEF c
    <3>3. CASE k # m
      <4>1. k \in 0 .. m - 1 /\ v[k + 1] = w[k + 1] BY <3>3
      <4>2. QED BY <2>1, <3>1, <4>1
    <3>4. QED BY <3>2, <3>3
  <2> HIDE DEF v
  <2>5. Upto(m + 1, v)
    <3>1. \A k \in 0 .. (m + 1) - 1 : k \in 0 .. m OBVIOUS
    <3>2. QED BY <2>3, <2>4, <3>1, Zenon
  <2> HIDE DEF Upto
  <2>6. QED BY <2>5
<1> HIDE DEF S
<1>3. Nat \subseteq S BY <1>1, <1>2, Induction
<1>4. PICK w : Upto(n, w) BY <1>3 DEF S
<1>5. QED BY <1>4 DEF Iterable, Iterates

\* The same for numbers, from 0 on, as the equation of a recursive function.
LEMMA Recursion ==
  ASSUME NEW n \in Nat, NEW F \in [Nat -> [Nat -> Nat]]
  PROVE  \E w \in [0 .. n -> Nat] :
           w = [k \in 0 .. n |-> IF k = 0 THEN 0 ELSE F[k - 1][w[k - 1]]]
<1>0. Iterable(n, Nat, 0, F) BY RecursionIn
<1>1. PICK w \in [0 .. n -> Nat] :
        w[0] = 0 /\ \A k \in 0 .. n - 1 : w[k + 1] = F[k][w[k]]
      BY <1>0 DEF Iterable, Iterates
<1>2. ASSUME NEW k \in 0 .. n PROVE w[k] = IF k = 0 THEN 0 ELSE F[k - 1][w[k - 1]]
  <2>1. CASE k = 0 BY <1>1, <2>1
  <2>2. CASE k # 0
    <3>1. k - 1 \in 0 .. n - 1 /\ (k - 1) + 1 = k BY <2>2
    <3>2. w[(k - 1) + 1] = F[k - 1][w[k - 1]] BY <1>1, <3>1, Zenon
    <3>3. QED BY <2>2, <3>1, <3>2
  <2>3. QED BY <2>1, <2>2
<1>3. w = [k \in 0 .. n |-> w[k]] BY <1>1
<1>4. QED BY <1>1, <1>2, <1>3

-----------------------------------------------------------------------------
(* Powers of two count subsets.                                            *)

LEMMA SubsetsOf ==
  ASSUME NEW n \in Nat
  PROVE  IsFiniteSet(SUBSET (1 .. n)) /\ Cardinality(SUBSET (1 .. n)) = 2^n
<1>1. IsFiniteSet(1 .. n) /\ Cardinality(1 .. n) = n BY FS_Interval
<1>2. QED BY <1>1, FS_SUBSET

LEMMA PowerIsNatural == ASSUME NEW n \in Nat PROVE 2^n \in Nat \ {0}
<1> DEFINE S == SUBSET (1 .. n)
<1>1. IsFiniteSet(S) /\ Cardinality(S) = 2^n BY SubsetsOf
<1>2. S # {} OBVIOUS
<1> HIDE DEF S
<1>3. Cardinality(S) \in Nat BY <1>1, FS_CardinalityType
<1>4. Cardinality(S) # 0 BY <1>1, <1>2, FS_EmptySet
<1>5. QED BY <1>1, <1>3, <1>4

LEMMA PowerDoubles == ASSUME NEW n \in Nat PROVE 2^(n + 1) = 2 * 2^n
<1> DEFINE I == 1 .. n
           e == n + 1
           S == SUBSET I
           Q == {A \cup {e} : A \in S}
           f == [A \in S |-> A \cup {e}]
<1>1. IsFiniteSet(S) /\ Cardinality(S) = 2^n BY SubsetsOf
<1>2. Cardinality(SUBSET (1 .. n + 1)) = 2^(n + 1) BY SubsetsOf
<1>3. 1 .. n + 1 = I \cup {e} /\ e \notin I OBVIOUS
<1> HIDE DEF I, e
<1>4. f \in Bijection(S, Q)
  <2>1. f \in [S -> Q] OBVIOUS
  <2>2. \A A, B \in S : f[A] = f[B] => A = B
    <3> SUFFICES ASSUME NEW A \in S, NEW B \in S, A \cup {e} = B \cup {e} PROVE A = B OBVIOUS
    <3>1. e \notin A /\ e \notin B BY <1>3
    <3>2. QED BY <3>1
  <2>3. \A B \in Q : \E A \in S : f[A] = B OBVIOUS
  <2> HIDE DEF S, Q, f
  <2>4. QED BY <2>1, <2>2, <2>3 DEF Bijection, Injection, Surjection, IsInjective
<1>5. S \cup Q = SUBSET (I \cup {e})
  <2>1. ASSUME NEW B \in SUBSET (I \cup {e}), e \in B PROVE B \in Q
    <3>1. B \ {e} \in S /\ (B \ {e}) \cup {e} = B BY <2>1
    <3>2. QED BY <3>1
  <2>2. ASSUME NEW B \in SUBSET (I \cup {e}), e \notin B PROVE B \in S BY <2>2
  <2>3. S \subseteq SUBSET (I \cup {e}) OBVIOUS
  <2>4. Q \subseteq SUBSET (I \cup {e}) OBVIOUS
  <2> HIDE DEF S, Q
  <2>5. QED BY <2>1, <2>2, <2>3, <2>4
<1>6. S \cap Q = {} BY <1>3
<1> HIDE DEF f, S, Q
<1>7. IsFiniteSet(Q) /\ Cardinality(Q) = Cardinality(S)
      BY <1>1, <1>4, FS_Bijection DEF ExistsBijection
<1>8. Cardinality(S \cup Q) = Cardinality(S) + Cardinality(Q) - Cardinality(S \cap Q)
      BY <1>1, <1>7, FS_Union
<1>9. Cardinality(S \cap Q) = 0 BY <1>6, FS_EmptySet
<1> DEFINE x == 2^n
           y == 2^(n + 1)
<1>10. y = x + x - 0 /\ x \in Nat
       BY <1>1, <1>2, <1>3, <1>5, <1>7, <1>8, <1>9, PowerIsNatural
<1> HIDE DEF x, y
<1>11. y = 2 * x BY <1>10
<1>12. QED BY <1>11 DEF x, y

LEMMA PowersMultiply ==
  ASSUME NEW m \in Nat, NEW n \in Nat PROVE 2^(m + n) = 2^m * 2^n
<1> DEFINE S == {k \in Nat : 2^(m + k) = 2^m * 2^k}
<1>1. 0 \in S
  <2>1. m + 0 = m /\ 2^0 = 1 /\ 2^m \in Nat BY PowerIsNatural
  <2>2. QED BY <2>1
<1>2. ASSUME NEW k \in Nat, k \in S PROVE k + 1 \in S
  <2> DEFINE a == 2^m
             b == 2^k
             c == 2^(m + k)
  <2>1. c = a * b BY <1>2
  <2>2. (m + k) + 1 = m + (k + 1) /\ m + k \in Nat OBVIOUS
  <2>3. 2^((m + k) + 1) = 2 * c /\ 2^(k + 1) = 2 * b BY <2>2, PowerDoubles
  <2>4. a \in Nat /\ b \in Nat /\ c \in Nat BY <2>2, PowerIsNatural
  <2> HIDE DEF a, b, c
  <2>5. 2 * c = a * (2 * b) BY <2>1, <2>4
  <2>6. QED BY <2>2, <2>3, <2>5 DEF a
<1> HIDE DEF S
<1>3. n \in S BY <1>1, <1>2, Induction
<1>4. QED BY <1>3 DEF S

LEMMA PowersGrow ==
  ASSUME NEW m \in Nat, NEW n \in Nat, m <= n PROVE 2^m <= 2^n
<1>1. n - m \in Nat /\ m + (n - m) = n OBVIOUS
<1>2. 2^n = 2^m * 2^(n - m) BY <1>1, PowersMultiply
<1> DEFINE a == 2^m
           b == 2^(n - m)
<1>3. a \in Nat /\ b \in Nat \ {0} BY <1>1, PowerIsNatural
<1> HIDE DEF a, b
<1>4. a <= a * b BY <1>3
<1>5. QED BY <1>2, <1>4 DEF a, b

-----------------------------------------------------------------------------
(* Sums over finite sets.                                                  *)

Pick(T) == CHOOSE x \in T : TRUE
SumStep(S, f, g) ==
  [T \in SUBSET S |-> IF T = {} THEN 0 ELSE f[Pick(T)] + g[T \ {Pick(T)}]]

\* g[T] is the sum of f over T, for the parts T of S.
Sums(S, f, g) == g \in [SUBSET S -> Int] /\ g = SumStep(S, f, g)
HasSums(S, f) == \E g : Sums(S, f, g)

LEMMA Picked ==
  ASSUME NEW S, IsFiniteSet(S), NEW T \in SUBSET S, T # {}
  PROVE  /\ Pick(T) \in T /\ Pick(T) \in S /\ T \ {Pick(T)} \in SUBSET S
         /\ Cardinality(T) \in Nat /\ Cardinality(T \ {Pick(T)}) = Cardinality(T) - 1
<1>1. Pick(T) \in T BY DEF Pick
<1>2. IsFiniteSet(T) BY FS_Subset
<1>3. Cardinality(T \ {Pick(T)}) = Cardinality(T) - 1 BY <1>1, <1>2, FS_RemoveElement
<1>4. QED BY <1>1, <1>2, <1>3, FS_CardinalityType

LEMMA SumStepTyped ==
  ASSUME NEW S, NEW f \in [S -> Int], NEW g \in [SUBSET S -> Int]
  PROVE  SumStep(S, f, g) \in [SUBSET S -> Int]
<1>1. ASSUME NEW T \in SUBSET S, T # {} PROVE f[Pick(T)] + g[T \ {Pick(T)}] \in Int
  <2>1. Pick(T) \in S /\ T \ {Pick(T)} \in SUBSET S BY <1>1 DEF Pick
  <2>2. f[Pick(T)] \in Int /\ g[T \ {Pick(T)}] \in Int BY <2>1
  <2>3. QED BY <2>2
<1>2. QED BY <1>1 DEF SumStep

LEMMA SumsExist ==
  ASSUME NEW S, IsFiniteSet(S), NEW f \in [S -> Int] PROVE HasSums(S, f)
<1> DEFINE D == [SUBSET S -> Int]
           n == Cardinality(S)
           zero == [T \in SUBSET S |-> 0]
           Next(g) == SumStep(S, f, g)
           F == [k \in Nat |-> [g \in D |-> Next(g)]]
<1>1. n \in Nat BY FS_CardinalityType
<1>2. zero \in D OBVIOUS
<1>3. \A g \in D : Next(g) \in D BY SumStepTyped
<1> HIDE DEF D, n, zero, Next
<1>4. F \in [Nat -> [D -> D]] BY <1>3
<1>5. \A k \in Nat, g \in D : F[k][g] = Next(g) OBVIOUS
<1> HIDE DEF F
<1>6. n + 1 \in Nat BY <1>1
<1>7. PICK w : Iterates(n + 1, D, zero, F, w) BY <1>2, <1>4, <1>6, RecursionIn DEF Iterable
<1>8. w \in [0 .. n + 1 -> D] /\ w[0] = zero BY <1>7 DEF Iterates
<1>9. \A k \in 0 .. n : w[k] \in D /\ w[k + 1] = Next(w[k])
  <2> SUFFICES ASSUME NEW k \in 0 .. n PROVE w[k] \in D /\ w[k + 1] = Next(w[k]) OBVIOUS
  <2>1. k \in 0 .. n + 1 /\ k \in 0 .. (n + 1) - 1 /\ k \in Nat BY <1>1
  <2>2. w[k + 1] = F[k][w[k]] BY <1>7, <2>1 DEF Iterates
  <2>3. w[k] \in D BY <1>8, <2>1
  <2>4. QED BY <1>5, <2>1, <2>2, <2>3
<1> DEFINE Still == {k \in 0 .. n :
             \A T \in SUBSET S : Cardinality(T) <= k => w[k + 1][T] = w[k][T]}
<1>10. \A k \in 0 .. n, T \in SUBSET S :
         w[k + 1][T] = IF T = {} THEN 0 ELSE f[Pick(T)] + w[k][T \ {Pick(T)}]
  BY <1>9 DEF Next, SumStep
<1>11. 0 \in Still
  <2>1. 0 \in 0 .. n BY <1>1
  <2>2. ASSUME NEW T \in SUBSET S, Cardinality(T) <= 0 PROVE w[0 + 1][T] = w[0][T]
    <3>1. T = {}
      <4>1. IsFiniteSet(T) BY FS_Subset
      <4>2. Cardinality(T) = 0 BY <2>2, <4>1, FS_CardinalityType
      <4>3. QED BY <4>1, <4>2, FS_EmptySet
    <3>2. w[0][T] = 0 BY <1>8 DEF zero
    <3>3. QED BY <1>10, <2>1, <3>1, <3>2
  <2>3. QED BY <2>1, <2>2
<1>12. ASSUME NEW k \in 0 .. n - 1, k \in Still PROVE k + 1 \in Still
  <2>1. k \in 0 .. n /\ k + 1 \in 0 .. n BY <1>1
  <2>2. ASSUME NEW T \in SUBSET S, Cardinality(T) <= k + 1
        PROVE  w[(k + 1) + 1][T] = w[k + 1][T]
    <3>1. CASE T = {} BY <1>10, <2>1, <3>1
    <3>2. CASE T # {}
      <4> DEFINE U == T \ {Pick(T)}
      <4>1. U \in SUBSET S /\ Cardinality(U) <= k BY <2>2, <3>2, Picked
      <4>2. w[k + 1][U] = w[k][U] BY <1>12, <4>1
      <4>3. w[(k + 1) + 1][T] = f[Pick(T)] + w[k + 1][U] BY <1>10, <2>1, <3>2
      <4>4. w[k + 1][T] = f[Pick(T)] + w[k][U] BY <1>10, <2>1, <3>2
      <4>5. QED BY <4>2, <4>3, <4>4
    <3>3. QED BY <3>1, <3>2
  <2>3. QED BY <2>1, <2>2
<1> HIDE DEF Still
<1>13. n \in Still BY <1>1, <1>11, <1>12, InductionTo
<1>14. n \in 0 .. n BY <1>1
<1>15. ASSUME NEW T \in SUBSET S PROVE w[n + 1][T] = w[n][T]
  <2>1. Cardinality(T) <= n BY FS_Subset DEF n
  <2>2. QED BY <1>13, <2>1 DEF Still
<1>16. w[n] \in D /\ w[n + 1] = SumStep(S, f, w[n]) BY <1>9, <1>14 DEF Next
<1>17. w[n + 1] \in D BY <1>6, <1>8
<1>18. w[n + 1] = w[n] BY <1>15, <1>16, <1>17 DEF D
<1>19. Sums(S, f, w[n]) BY <1>16, <1>18 DEF Sums, D
<1>20. QED BY <1>19 DEF HasSums

\* What holds of {} and is kept by adding the element picked holds of all parts.
LEMMA PartsInduction ==
  ASSUME NEW S, IsFiniteSet(S), NEW Q, {} \in Q,
         \A T \in SUBSET S : T # {} /\ T \ {Pick(T)} \in Q => T \in Q
  PROVE  SUBSET S \subseteq Q
<1> DEFINE n == Cardinality(S)
           Good == {k \in 0 .. n : \A T \in SUBSET S : Cardinality(T) <= k => T \in Q}
<1>1. n \in Nat BY FS_CardinalityType
<1>2. 0 \in Good
  <2>1. ASSUME NEW T \in SUBSET S, Cardinality(T) <= 0 PROVE T = {}
    <3>1. IsFiniteSet(T) BY FS_Subset
    <3>2. Cardinality(T) = 0 BY <2>1, <3>1, FS_CardinalityType
    <3>3. QED BY <3>1, <3>2, FS_EmptySet
  <2>2. QED BY <1>1, <2>1
<1>3. ASSUME NEW k \in 0 .. n - 1, k \in Good PROVE k + 1 \in Good
  <2>1. ASSUME NEW T \in SUBSET S, Cardinality(T) <= k + 1 PROVE T \in Q
    <3>1. CASE T = {} BY <3>1
    <3>2. CASE T # {}
      <4>1. T \ {Pick(T)} \in SUBSET S /\ Cardinality(T \ {Pick(T)}) <= k
        BY <2>1, <3>2, Picked
      <4>2. QED BY <1>3, <3>2, <4>1
    <3>3. QED BY <3>1, <3>2
  <2>2. QED BY <1>1, <2>1
<1>4. \A T \in SUBSET S : Cardinality(T) <= n BY FS_Subset
<1> HIDE DEF Good, n
<1>5. n \in Good BY <1>1, <1>2, <1>3, InductionTo
<1>6. QED BY <1>4, <1>5 DEF Good

LEMMA SumsTyped ==
  ASSUME NEW S, IsFiniteSet(S), NEW f \in [S -> Int], NEW g, g = SumStep(S, f, g)
  PROVE  Sums(S, f, g)
<1> DEFINE Q == {T \in SUBSET S : g[T] \in Int}
<1>1. {} \in Q BY DEF SumStep
<1>2. ASSUME NEW T \in SUBSET S, T # {}, T \ {Pick(T)} \in Q PROVE T \in Q
  <2>1. Pick(T) \in S BY <1>2 DEF Pick
  <2>2. g[T] = f[Pick(T)] + g[T \ {Pick(T)}] BY <1>2 DEF SumStep
  <2>3. QED BY <1>2, <2>1, <2>2
<1> HIDE DEF Q
<1>3. SUBSET S \subseteq Q BY <1>1, <1>2, PartsInduction
<1>4. \A T \in SUBSET S : g[T] \in Int BY <1>3 DEF Q
<1>5. DOMAIN g = SUBSET S /\ g = [T \in DOMAIN g |-> g[T]] BY DEF SumStep
<1>6. QED BY <1>4, <1>5 DEF Sums

Total(f, S) == MapThenSumSet(LAMBDA s : f[s], S)

LEMMA SumIs ==
  ASSUME NEW S, IsFiniteSet(S), NEW f \in [S -> Int]
  PROVE  \E g : Sums(S, f, g) /\ Total(f, S) = g[S]
<1> DEFINE g == CHOOSE g : g = [T \in SUBSET S |->
                  IF T = {} THEN 0 ELSE f[CHOOSE x \in T : TRUE] + g[T \ {CHOOSE x \in T : TRUE}]]
<1>1. Total(f, S) = g[S]
  BY DEF Total, MapThenSumSet, MapThenFoldSet
<1>2. g = CHOOSE h : h = SumStep(S, f, h) BY Zenon DEF SumStep, Pick
<1> HIDE DEF g
<1>3. PICK h : h = SumStep(S, f, h) BY SumsExist DEF HasSums, Sums
<1>4. g = SumStep(S, f, g) BY <1>2, <1>3
<1>5. QED BY <1>1, <1>4, SumsTyped

\* One term has become greater by one.
LEMMA SumGrows ==
  ASSUME NEW S, IsFiniteSet(S), NEW f \in [S -> Int], NEW a \in S,
         NEW f2 \in [S -> Int], f2[a] = f[a] + 1, \A x \in S \ {a} : f2[x] = f[x]
  PROVE  Total(f2, S) = Total(f, S) + 1
<1>1. PICK g : Sums(S, f, g) /\ Total(f, S) = g[S] BY SumIs
<1>2. PICK h : Sums(S, f2, h) /\ Total(f2, S) = h[S] BY SumIs
<1> DEFINE Q == {T \in SUBSET S : h[T] = IF a \in T THEN g[T] + 1 ELSE g[T]}
<1>3. {} \in Q BY <1>1, <1>2 DEF Sums, SumStep
<1>4. ASSUME NEW T \in SUBSET S, T # {}, T \ {Pick(T)} \in Q PROVE T \in Q
  <2> DEFINE x == Pick(T)
             U == T \ {x}
  <2>1. x \in T /\ x \in S /\ U \in SUBSET S BY <1>4 DEF Pick
  <2>2. g[T] = f[x] + g[U] /\ h[T] = f2[x] + h[U]
    BY <1>1, <1>2, <1>4 DEF Sums, SumStep
  <2>3. g[U] \in Int /\ h[U] \in Int /\ f[x] \in Int BY <1>1, <1>2, <2>1 DEF Sums
  <2>4. f2[x] = IF x = a THEN f[x] + 1 ELSE f[x] BY <2>1
  <2>5. h[U] = IF a \in U THEN g[U] + 1 ELSE g[U] BY <1>4
  <2>6. (a \in U <=> a \in T /\ x # a) BY <2>1
  <2> HIDE DEF U, x
  <2>7. h[T] = IF a \in T THEN g[T] + 1 ELSE g[T]
    <3>1. CASE x = a BY <2>1, <2>2, <2>3, <2>4, <2>5, <2>6, <3>1
    <3>2. CASE x # a BY <2>1, <2>2, <2>3, <2>4, <2>5, <2>6, <3>2
    <3>3. QED BY <3>1, <3>2
  <2>8. QED BY <2>7
<1> HIDE DEF Q
<1>5. SUBSET S \subseteq Q BY <1>3, <1>4, PartsInduction
<1>6. S \in Q BY <1>5
<1>7. h[S] = g[S] + 1 BY <1>6 DEF Q
<1>8. QED BY <1>1, <1>2, <1>7

LEMMA SumOfNone ==
  ASSUME NEW S, IsFiniteSet(S), NEW f, f = [x \in S |-> 0]
  PROVE  Total(f, S) = 0
<1>1. f \in [S -> Int] OBVIOUS
<1>2. PICK g : Sums(S, f, g) /\ Total(f, S) = g[S] BY <1>1, SumIs
<1> DEFINE Q == {T \in SUBSET S : g[T] = 0}
<1>3. {} \in Q BY <1>2 DEF Sums, SumStep
<1>4. ASSUME NEW T \in SUBSET S, T # {}, T \ {Pick(T)} \in Q PROVE T \in Q
  <2>1. Pick(T) \in S BY <1>4 DEF Pick
  <2>2. g[T] = f[Pick(T)] + g[T \ {Pick(T)}] BY <1>2, <1>4 DEF Sums, SumStep
  <2>3. QED BY <1>4, <2>1, <2>2
<1> HIDE DEF Q
<1>5. SUBSET S \subseteq Q BY <1>3, <1>4, PartsInduction
<1>6. S \in Q BY <1>5
<1>7. QED BY <1>2, <1>6 DEF Q

USE DEF Indices

-----------------------------------------------------------------------------
(* Words.                                                                  *)

LEMMA WordSizes == HalfMod \in Nat \ {0} /\ WordMod = 2 * HalfMod /\ WordMod \in Nat
<1>1. WordBits - 1 \in Nat /\ WordBits = (WordBits - 1) + 1
      BY ByteBitsAssumption DEF WordBits
<1>2. HalfMod \in Nat \ {0} BY <1>1, PowerIsNatural DEF HalfMod
<1>3. WordMod = 2 * HalfMod BY <1>1, PowerDoubles DEF HalfMod, WordMod
<1>4. QED BY <1>2, <1>3

\* The remainder of a number that is at most one modulus away.
LEMMA RemainderNear ==
  ASSUME NEW m \in Nat \ {0}, NEW x \in -m .. 2 * m - 1
  PROVE  x % m = IF x < 0 THEN x + m ELSE IF x < m THEN x ELSE x - m
OBVIOUS

LEMMA UnsignedOf ==
  ASSUME NEW a \in Word
  PROVE  Unsigned(a) = (IF a < 0 THEN a + WordMod ELSE a) /\ Unsigned(a) \in 0 .. WordMod - 1
<1>1. a \in -HalfMod .. HalfMod - 1 BY DEF Word
<1>2. a \in -WordMod .. 2 * WordMod - 1 /\ WordMod \in Nat \ {0} BY <1>1, WordSizes
<1>3. Unsigned(a) = a % WordMod BY DEF Unsigned
<1>4. a % WordMod = IF a < 0 THEN a + WordMod ELSE IF a < WordMod THEN a ELSE a - WordMod
      BY <1>2, RemainderNear
<1>5. QED BY <1>1, <1>3, <1>4, WordSizes

LEMMA UnsignedSum ==
  ASSUME NEW s \in 0 .. 2 * WordMod - 1
  PROVE  Unsigned(s) = IF s < WordMod THEN s ELSE s - WordMod
<1>1. WordMod \in Nat \ {0} /\ s \in -WordMod .. 2 * WordMod - 1 /\ ~ (s < 0) BY WordSizes
<1>2. s % WordMod = IF s < 0 THEN s + WordMod ELSE IF s < WordMod THEN s ELSE s - WordMod
      BY <1>1, RemainderNear
<1>3. QED BY <1>1, <1>2 DEF Unsigned

LEMMA SignedIsWord == ASSUME NEW x \in Int PROVE Signed(x) \in Word
<1>1. HalfMod \in Nat \ {0} /\ WordMod = 2 * HalfMod /\ WordMod \in Nat \ {0} BY WordSizes
<1>2. (x + HalfMod) % WordMod \in 0 .. WordMod - 1 BY <1>1
<1>3. QED BY <1>1, <1>2 DEF Signed, Word

LEMMA SignedOfWord == ASSUME NEW x \in Word PROVE Signed(x) = x
<1>1. HalfMod \in Nat \ {0} /\ WordMod = 2 * HalfMod BY WordSizes
<1>2. x \in Int /\ x + HalfMod \in 0 .. WordMod - 1 BY <1>1 DEF Word
<1>3. (x + HalfMod) % WordMod = x + HalfMod BY <1>1, <1>2
<1>4. QED BY <1>1, <1>2, <1>3 DEF Signed

LEMMA UnsignedIsNatural == ASSUME NEW x \in Int PROVE Unsigned(x) \in 0 .. WordMod - 1
<1>1. HalfMod \in Nat \ {0} /\ WordMod = 2 * HalfMod BY WordSizes
<1>2. QED BY <1>1 DEF Unsigned

LEMMA SignedOfUnsigned == ASSUME NEW x \in Word PROVE Signed(Unsigned(x)) = x
<1>1. HalfMod \in Nat \ {0} /\ WordMod = 2 * HalfMod BY WordSizes
<1>2. x \in -HalfMod .. HalfMod - 1 BY DEF Word
<1>3. Unsigned(x) = IF x < 0 THEN x + WordMod ELSE x BY UnsignedOf
<1>4. CASE x < 0
  <2> DEFINE y == x + WordMod + HalfMod
  <2>1. y \in -WordMod .. 2 * WordMod - 1 /\ WordMod \in Nat \ {0} /\ ~ (y < WordMod) /\ ~ (y < 0)
    BY <1>1, <1>2, <1>4
  <2> HIDE DEF y
  <2>2. y % WordMod = IF y < 0 THEN y + WordMod ELSE IF y < WordMod THEN y ELSE y - WordMod
    BY <2>1, RemainderNear
  <2>3. (x + WordMod + HalfMod) % WordMod = x + HalfMod BY <1>1, <1>2, <2>1, <2>2 DEF y
  <2>4. QED BY <1>1, <1>2, <1>3, <1>4, <2>3 DEF Signed
<1>5. CASE ~ (x < 0)
  <2>1. Signed(x) = x BY SignedOfWord
  <2>2. QED BY <1>3, <1>5, <2>1
<1>6. QED BY <1>4, <1>5

-----------------------------------------------------------------------------
(* Bytes.                                                                  *)

LEMMA ByteSizes ==
  /\ ByteMod \in Nat \ {0} /\ WordMod = ByteMod * ByteMod * (ByteMod * ByteMod)
  /\ 2^(ByteBits * 0) = 1 /\ 2^(ByteBits * 1) = ByteMod
  /\ 2^(ByteBits * 2) = ByteMod * ByteMod /\ 2^(ByteBits * 3) = ByteMod * ByteMod * ByteMod
  /\ ByteMod <= HalfMod /\ ByteMod * ByteMod <= HalfMod
<1>1. ByteBits \in Nat \ {0} BY ByteBitsAssumption
<1>2. ByteMod \in Nat \ {0} BY <1>1, PowerIsNatural DEF ByteMod
<1> DEFINE b == ByteBits
           c == 2 * b
<1>3. /\ b * 0 = 0 /\ b * 1 = b /\ b * 2 = c /\ b * 3 = c + b /\ c = b + b
      /\ WordBits = c + c /\ c <= WordBits - 1 /\ b <= WordBits - 1
      /\ b \in Nat /\ c \in Nat /\ WordBits - 1 \in Nat
  BY <1>1 DEF WordBits
<1> HIDE DEF c
<1>4. 2^b = ByteMod BY DEF ByteMod
<1>5. 2^c = ByteMod * ByteMod BY <1>3, <1>4, PowersMultiply
<1>6. 2^(c + b) = ByteMod * ByteMod * ByteMod BY <1>3, <1>4, <1>5, PowersMultiply
<1>7. WordMod = ByteMod * ByteMod * (ByteMod * ByteMod)
  BY <1>3, <1>5, PowersMultiply DEF WordMod
<1>8. 2^c <= HalfMod /\ 2^b <= HalfMod BY <1>3, PowersGrow DEF HalfMod
<1>9. 2^0 = 1 OBVIOUS
<1>10. QED BY <1>2, <1>3, <1>4, <1>5, <1>6, <1>7, <1>8, <1>9

LEMMA ByteOfIsByte == ASSUME NEW x \in Int, NEW k \in Nat PROVE ByteOf(x, k) \in Byte
<1>1. ByteMod \in Nat \ {0} BY ByteSizes
<1>2. ByteBits * k \in Nat BY ByteBitsAssumption
<1>3. 2^(ByteBits * k) \in Nat \ {0} BY <1>2, PowerIsNatural
<1>4. Unsigned(x) \in Nat BY UnsignedIsNatural
<1>5. Unsigned(x) \div 2^(ByteBits * k) \in Nat BY <1>3, <1>4
<1>6. QED BY <1>1, <1>5 DEF ByteOf, Byte

\* A number below b^4 and its four digits.
LEMMA FourDigits ==
  ASSUME NEW b \in Nat \ {0}, NEW u \in Nat, u < b * b * (b * b)
  PROVE  (u % b) + b * ((u \div b) % b)
           + b * b * (((u \div (b * b)) % b) + b * ((u \div (b * b * b)) % b)) = u
<1> DEFINE u1 == u \div b
           u2 == u1 \div b
           u3 == u2 \div b
           c  == b * b
<1>1. u1 \in Nat /\ u = b * u1 + (u % b) OBVIOUS
<1>2. u2 \in Nat /\ u1 = b * u2 + (u1 % b)
  <2> HIDE DEF u1
  <2>1. QED BY <1>1
<1>3. u3 \in Nat /\ u2 = b * u3 + (u2 % b)
  <2> HIDE DEF u2
  <2>1. QED BY <1>2
<1>4. c \in Nat \ {0} OBVIOUS
<1>5. u2 = u \div (b * b) OBVIOUS
<1>6. u3 = u \div (b * b * b)
  <2>1. (u \div c) \div b = u \div (c * b)
    <3> HIDE DEF c
    <3>1. QED BY <1>4
  <2>2. QED BY <1>5, <2>1
<1>7. u1 % b \in Nat /\ u2 % b \in Nat /\ u % b \in Nat BY <1>1, <1>2
<1>8. u3 < b
  <2>1. u2 < c
    <3>1. u2 = u \div c BY <1>5
    <3>2. u < c * c OBVIOUS
    <3> HIDE DEF c
    <3>3. u \div c < c BY <1>4, <3>2
    <3>4. QED BY <3>1, <3>3
  <2> HIDE DEF u2
  <2>2. u2 < b * b BY <2>1
  <2>3. u2 \div b < b BY <1>2, <2>2
  <2>4. QED BY <2>3
<1>9. u3 % b = u3
  <2> HIDE DEF u3
  <2>1. QED BY <1>3, <1>8
<1> DEFINE d0 == u % b
           d1 == u1 % b
           d2 == u2 % b
<1>10. /\ u = b * u1 + d0 /\ u1 = b * u2 + d1 /\ u2 = b * u3 + d2
       /\ d0 \in Nat /\ d1 \in Nat /\ d2 \in Nat /\ u3 \in Nat
       /\ u1 \in Nat /\ u2 \in Nat
  BY <1>1, <1>2, <1>3, <1>7
<1>11. d0 + b * d1 + b * b * (d2 + b * u3) = u
  <2> HIDE DEF d0, d1, d2, u1, u2, u3
  <2>1. u = b * (b * u2 + d1) + d0 BY <1>10
  <2>2. b * (b * u2 + d1) = b * (b * u2) + b * d1 BY <1>10
  <2>3. b * (b * u2) = b * b * u2 BY <1>10
  <2>4. d2 + b * u3 = u2 BY <1>10
  <2> DEFINE x == b * b * u2
             y == b * d1
  <2>5. x \in Nat /\ y \in Nat BY <1>10
  <2>6. u = x + y + d0 BY <2>1, <2>2, <2>3
  <2>7. d0 + y + x = u
    <3> HIDE DEF x, y
    <3>1. QED BY <1>10, <2>5, <2>6
  <2>8. QED BY <2>4, <2>7
<1>12. QED BY <1>5, <1>6, <1>9, <1>11

\* The four bytes of a word are the word.
LEMMA BytesOfWord ==
  ASSUME NEW x \in Word
  PROVE  Signed(ByteOf(x, 0) + ByteMod * ByteOf(x, 1)
                + ByteMod * ByteMod * (ByteOf(x, 2) + ByteMod * ByteOf(x, 3))) = x
<1> DEFINE u == Unsigned(x)
           b == ByteMod
<1>1. b \in Nat \ {0} /\ WordMod = b * b * (b * b) BY ByteSizes
<1>2. x \in Int BY WordSizes DEF Word
<1>3. WordMod \in Nat BY WordSizes
<1>4. u \in Nat /\ u < WordMod BY <1>2, <1>3, UnsignedIsNatural
<1>5. /\ ByteOf(x, 0) = (u \div 1) % b /\ ByteOf(x, 1) = (u \div b) % b
      /\ ByteOf(x, 2) = (u \div (b * b)) % b /\ ByteOf(x, 3) = (u \div (b * b * b)) % b
  BY ByteSizes DEF ByteOf
<1>6. Signed(u) = x BY SignedOfUnsigned
<1> HIDE DEF u, b
<1>7. u \div 1 = u BY <1>4
<1>8. u < b * b * (b * b) BY <1>1, <1>4
<1>9. (u % b) + b * ((u \div b) % b)
        + b * b * (((u \div (b * b)) % b) + b * ((u \div (b * b * b)) % b)) = u
  BY <1>1, <1>4, <1>8, FourDigits
<1>10. QED BY <1>5, <1>6, <1>7, <1>9 DEF b

-----------------------------------------------------------------------------
(* Memories.                                                               *)

LEMMA SameFetch ==
  ASSUME NEW m, NEW m2, NEW a \in Int, \A b \in a .. a + 3 : m2[b] = m[b]
  PROVE  FetchWord(m2, a) = FetchWord(m, a)
<1>1. a \in a .. a + 3 /\ a + 1 \in a .. a + 3 /\ a + 2 \in a .. a + 3 /\ a + 3 \in a .. a + 3
  OBVIOUS
<1>2. (a + 2) + 1 = a + 3 OBVIOUS
<1>3. QED BY <1>1, <1>2 DEF FetchWord, Fetch2

LEMMA FetchIsWord ==
  ASSUME NEW S, NEW m \in [S -> Byte], NEW a \in Int, a \in S
  PROVE  /\ Fetch1(m, a) \in Word
         /\ a + 1 \in S => Fetch2(m, a) \in Word
         /\ {a + 1, a + 2, a + 3} \subseteq S => FetchWord(m, a) \in Word
<1>1. ByteMod \in Nat \ {0} /\ ByteMod <= HalfMod /\ ByteMod * ByteMod <= HalfMod BY ByteSizes
<1>2. HalfMod \in Nat \ {0} BY WordSizes
<1>3. \A b \in S : m[b] \in 0 .. ByteMod - 1 BY DEF Byte
<1>4. Fetch1(m, a) \in Word BY <1>1, <1>2, <1>3 DEF Fetch1, Word
<1>5. ASSUME NEW x \in 0 .. ByteMod - 1, NEW y \in 0 .. ByteMod - 1
      PROVE  x + ByteMod * y \in 0 .. HalfMod - 1
  <2>1. y <= ByteMod - 1 /\ ByteMod * y <= ByteMod * (ByteMod - 1) BY <1>1
  <2>2. ByteMod * (ByteMod - 1) = ByteMod * ByteMod - ByteMod BY <1>1
  <2>3. ByteMod * y \in Nat /\ ByteMod * ByteMod \in Nat BY <1>1
  <2>4. QED BY <1>1, <1>2, <2>1, <2>2, <2>3
<1>6. a + 1 \in S => Fetch2(m, a) \in 0 .. HalfMod - 1 BY <1>3, <1>5 DEF Fetch2
<1>7. ASSUME {a + 1, a + 2, a + 3} \subseteq S PROVE FetchWord(m, a) \in Word
  <2>1. (a + 2) + 1 = a + 3 OBVIOUS
  <2>2. Fetch2(m, a) \in Int BY <1>2, <1>6, <1>7
  <2>3. Fetch2(m, a + 2) \in 0 .. HalfMod - 1 BY <1>3, <1>5, <1>7, <2>1 DEF Fetch2
  <2>4. ByteMod * ByteMod * Fetch2(m, a + 2) \in Int BY <1>1, <1>2, <2>3
  <2>5. QED BY <2>2, <2>4, SignedIsWord DEF FetchWord
<1>8. QED BY <1>2, <1>4, <1>6, <1>7 DEF Word

LEMMA PutIsMemory ==
  ASSUME NEW S, S \subseteq Int, NEW m \in [S -> Byte], NEW a \in Int, NEW n \in Nat, NEW x \in Int
  PROVE  Put(m, a, n, x) \in [S -> Byte]
<1>1. ASSUME NEW b \in S, b \in a .. a + n - 1 PROVE ByteOf(x, b - a) \in Byte
  <2>1. b - a \in Nat BY <1>1
  <2>2. QED BY <2>1, ByteOfIsByte
<1>2. QED BY <1>1 DEF Put

LEMMA PutThere ==
  ASSUME NEW S, NEW m \in [S -> Byte], NEW a \in Int, a .. a + 3 \subseteq S, NEW x \in Word
  PROVE  FetchWord(Put(m, a, 4, x), a) = x
<1> DEFINE m2 == Put(m, a, 4, x)
<1>1. \A b \in a .. a + 3 : m2[b] = ByteOf(x, b - a) BY DEF Put
<1> HIDE DEF m2
<1>2. /\ a \in a .. a + 3 /\ a + 1 \in a .. a + 3 /\ a + 2 \in a .. a + 3 /\ a + 3 \in a .. a + 3
      /\ a - a = 0 /\ (a + 1) - a = 1 /\ (a + 2) - a = 2 /\ (a + 3) - a = 3 /\ (a + 2) + 1 = a + 3
  OBVIOUS
<1>3. /\ m2[a] = ByteOf(x, 0) /\ m2[a + 1] = ByteOf(x, 1) /\ m2[a + 2] = ByteOf(x, 2)
      /\ m2[(a + 2) + 1] = ByteOf(x, 3)
  BY <1>1, <1>2
<1>4. FetchWord(m2, a) = Signed(ByteOf(x, 0) + ByteMod * ByteOf(x, 1)
                + ByteMod * ByteMod * (ByteOf(x, 2) + ByteMod * ByteOf(x, 3)))
  BY <1>3 DEF FetchWord, Fetch2
<1>5. QED BY <1>4, BytesOfWord DEF m2

LEMMA PutElsewhere ==
  ASSUME NEW S, NEW m \in [S -> Byte], NEW a \in Int, NEW n \in Nat, NEW x, NEW c \in Int,
         c .. c + 3 \subseteq S, c + 3 < a \/ a + n <= c
  PROVE  FetchWord(Put(m, a, n, x), c) = FetchWord(m, c)
<1>1. \A b \in c .. c + 3 : b \notin a .. a + n - 1 OBVIOUS
<1>2. \A b \in c .. c + 3 : Put(m, a, n, x)[b] = m[b] BY <1>1 DEF Put
<1>3. QED BY <1>2, SameFetch

LEMMA PutWordsIsMemory ==
  ASSUME NEW S, S \subseteq Int, NEW m \in [S -> Byte], NEW a \in Int, NEW n \in Nat,
         NEW ws, \A j \in 1 .. n : ws[j] \in Int
  PROVE  PutWords(m, a, n, ws) \in [S -> Byte]
<1>1. ASSUME NEW b \in S, b \in a .. a + 4 * n - 1
      PROVE  ByteOf(ws[(b - a) \div 4 + 1], (b - a) % 4) \in Byte
  <2>1. b - a \in 0 .. 4 * n - 1 BY <1>1
  <2>2. (b - a) \div 4 + 1 \in 1 .. n /\ (b - a) % 4 \in Nat BY <2>1
  <2>3. QED BY <2>2, ByteOfIsByte
<1>2. QED BY <1>1 DEF PutWords

LEMMA PutWordsElsewhere ==
  ASSUME NEW S, NEW m \in [S -> Byte], NEW a \in Int, NEW n \in Nat, NEW ws, NEW c \in Int,
         c .. c + 3 \subseteq S, c + 3 < a \/ a + 4 * n <= c
  PROVE  FetchWord(PutWords(m, a, n, ws), c) = FetchWord(m, c)
<1>1. \A b \in c .. c + 3 : b \notin a .. a + 4 * n - 1 OBVIOUS
<1>2. \A b \in c .. c + 3 : PutWords(m, a, n, ws)[b] = m[b] BY <1>1 DEF PutWords
<1>3. QED BY <1>2, SameFetch

LEMMA FirstWordPut ==
  ASSUME NEW S, NEW m \in [S -> Byte], NEW a \in Int, NEW n \in Nat \ {0}, NEW ws,
         a .. a + 3 \subseteq S, ws[1] \in Word
  PROVE  FetchWord(PutWords(m, a, n, ws), a) = ws[1]
<1> DEFINE m2 == PutWords(m, a, n, ws)
           m1 == Put(m, a, 4, ws[1])
<1>1. ASSUME NEW b \in a .. a + 3 PROVE m2[b] = m1[b]
  <2>1. b \in a .. a + 4 * n - 1 BY <1>1
  <2>2. b - a \in 0 .. 3 BY <1>1
  <2>3. (b - a) \div 4 = 0 /\ (b - a) % 4 = b - a BY <2>2
  <2>4. m2[b] = ByteOf(ws[(b - a) \div 4 + 1], (b - a) % 4) BY <2>1 DEF PutWords
  <2>5. m1[b] = ByteOf(ws[1], b - a) BY <1>1 DEF Put
  <2>6. QED BY <2>3, <2>4, <2>5
<1> HIDE DEF m1, m2
<1>2. FetchWord(m2, a) = FetchWord(m1, a) BY <1>1, SameFetch
<1>3. FetchWord(m1, a) = ws[1] BY PutThere DEF m1
<1>4. QED BY <1>2, <1>3 DEF m2

-----------------------------------------------------------------------------
(* The words of the code image.                                            *)

LEMMA OperandSizes ==
  ASSUME NEW op
  PROVE  /\ OperandBytes(op) \in 0 .. 4 /\ OperandWords(op) \in 0 .. 1
         /\ OperandWords(op) <= OperandBytes(op)
         /\ op \in CondBranch => OperandWords(op) = 1
BY DEF OperandBytes, OperandWords, HasOperand, HasI4Operand

LEMMA WordsBeforeStep ==
  ASSUME NEW p, Len(p) \in Nat, NEW W, W = WordsBefore(p)
  PROVE  /\ W \in [0 .. Len(p) -> Nat] /\ W[0] = 0
         /\ \A k \in Indices(p) : W[k + 1] = W[k] + 1 + OperandWords(Op(p, k))
<1> DEFINE n == Len(p)
           Step(k, x) == x + 1 + OperandWords(Op(p, k))
           F == [k \in Nat |-> [x \in Nat |-> Step(k, x)]]
<1>1. \A k, x \in Nat : Step(k, x) \in Nat BY OperandSizes
<1>2. W = CHOOSE w : w = [k \in 0 .. n |-> IF k = 0 THEN 0 ELSE Step(k - 1, w[k - 1])]
  BY DEF WordsBefore
<1> HIDE DEF Step, n
<1>3. F \in [Nat -> [Nat -> Nat]] BY <1>1
<1> HIDE DEF F
<1>4. n \in Nat BY DEF n
<1>5. PICK w \in [0 .. n -> Nat] :
        w = [k \in 0 .. n |-> IF k = 0 THEN 0 ELSE F[k - 1][w[k - 1]]]
  BY <1>3, <1>4, Recursion
<1>6. \A k \in 0 .. n : k # 0 => F[k - 1][w[k - 1]] = Step(k - 1, w[k - 1])
  <2> SUFFICES ASSUME NEW k \in 0 .. n, k # 0
               PROVE  F[k - 1][w[k - 1]] = Step(k - 1, w[k - 1])
    OBVIOUS
  <2>1. k - 1 \in Nat /\ k - 1 \in 0 .. n BY <1>4
  <2>2. w[k - 1] \in Nat BY <2>1
  <2>3. QED BY <2>1, <2>2 DEF F
<1>7. w = [k \in 0 .. n |-> IF k = 0 THEN 0 ELSE Step(k - 1, w[k - 1])] BY <1>5, <1>6
<1>8. W = [k \in 0 .. n |-> IF k = 0 THEN 0 ELSE Step(k - 1, W[k - 1])] BY <1>2, <1>7
<1>9. ASSUME NEW k \in 0 .. n PROVE W[k] \in Nat
  <2> DEFINE S == {j \in 0 .. n : W[j] \in Nat}
  <2>1. 0 \in S BY <1>4, <1>8
  <2>2. ASSUME NEW j \in 0 .. n - 1, j \in S PROVE j + 1 \in S
    <3>1. j \in Nat /\ j + 1 \in 0 .. n /\ j + 1 # 0 /\ (j + 1) - 1 = j BY <1>4
    <3>2. W[j + 1] = Step(j, W[j]) BY <1>8, <3>1
    <3>3. QED BY <1>1, <2>2, <3>1, <3>2
  <2> HIDE DEF S
  <2>3. k \in S BY <1>4, <2>1, <2>2, InductionTo
  <2>4. QED BY <2>3 DEF S
<1>10. ASSUME NEW k \in 0 .. n - 1 PROVE W[k + 1] = Step(k, W[k])
  <2>1. k + 1 \in 0 .. n /\ k + 1 # 0 /\ (k + 1) - 1 = k BY <1>4
  <2>2. QED BY <1>8, <2>1
<1>11. W \in [0 .. n -> Nat] BY <1>8, <1>9
<1>12. W[0] = 0 BY <1>4, <1>8
<1>13. QED BY <1>10, <1>11, <1>12 DEF Step, n

LEMMA BytesBeforeStep ==
  ASSUME NEW p, Len(p) \in Nat, NEW W, W = BytesBefore(p)
  PROVE  /\ W \in [0 .. Len(p) -> Nat] /\ W[0] = 0
         /\ \A k \in Indices(p) : W[k + 1] = W[k] + 1 + OperandBytes(Op(p, k))
<1> DEFINE n == Len(p)
           Step(k, x) == x + 1 + OperandBytes(Op(p, k))
           F == [k \in Nat |-> [x \in Nat |-> Step(k, x)]]
<1>1. \A k, x \in Nat : Step(k, x) \in Nat BY OperandSizes
<1>2. W = CHOOSE w : w = [k \in 0 .. n |-> IF k = 0 THEN 0 ELSE Step(k - 1, w[k - 1])]
  BY DEF BytesBefore
<1> HIDE DEF Step, n
<1>3. F \in [Nat -> [Nat -> Nat]] BY <1>1
<1> HIDE DEF F
<1>4. n \in Nat BY DEF n
<1>5. PICK w \in [0 .. n -> Nat] :
        w = [k \in 0 .. n |-> IF k = 0 THEN 0 ELSE F[k - 1][w[k - 1]]]
  BY <1>3, <1>4, Recursion
<1>6. \A k \in 0 .. n : k # 0 => F[k - 1][w[k - 1]] = Step(k - 1, w[k - 1])
  <2> SUFFICES ASSUME NEW k \in 0 .. n, k # 0
               PROVE  F[k - 1][w[k - 1]] = Step(k - 1, w[k - 1])
    OBVIOUS
  <2>1. k - 1 \in Nat /\ k - 1 \in 0 .. n BY <1>4
  <2>2. w[k - 1] \in Nat BY <2>1
  <2>3. QED BY <2>1, <2>2 DEF F
<1>7. w = [k \in 0 .. n |-> IF k = 0 THEN 0 ELSE Step(k - 1, w[k - 1])] BY <1>5, <1>6
<1>8. W = [k \in 0 .. n |-> IF k = 0 THEN 0 ELSE Step(k - 1, W[k - 1])] BY <1>2, <1>7
<1>9. ASSUME NEW k \in 0 .. n PROVE W[k] \in Nat
  <2> DEFINE S == {j \in 0 .. n : W[j] \in Nat}
  <2>1. 0 \in S BY <1>4, <1>8
  <2>2. ASSUME NEW j \in 0 .. n - 1, j \in S PROVE j + 1 \in S
    <3>1. j \in Nat /\ j + 1 \in 0 .. n /\ j + 1 # 0 /\ (j + 1) - 1 = j BY <1>4
    <3>2. W[j + 1] = Step(j, W[j]) BY <1>8, <3>1
    <3>3. QED BY <1>1, <2>2, <3>1, <3>2
  <2> HIDE DEF S
  <2>3. k \in S BY <1>4, <2>1, <2>2, InductionTo
  <2>4. QED BY <2>3 DEF S
<1>10. ASSUME NEW k \in 0 .. n - 1 PROVE W[k + 1] = Step(k, W[k])
  <2>1. k + 1 \in 0 .. n /\ k + 1 # 0 /\ (k + 1) - 1 = k BY <1>4
  <2>2. QED BY <1>8, <2>1
<1>11. W \in [0 .. n -> Nat] BY <1>8, <1>9
<1>12. W[0] = 0 BY <1>4, <1>8
<1>13. QED BY <1>10, <1>11, <1>12 DEF Step, n

-----------------------------------------------------------------------------
(* Instructions lie one behind the other.                                  *)

\* w[k] is where instruction k begins, and each takes at least one place.
Ascends(w, n) ==
  /\ w \in [0 .. n -> Nat] /\ w[0] = 0
  /\ \A k \in 0 .. n - 1 : w[k] < w[k + 1]

LEMMA AscendsFar ==
  ASSUME NEW n \in Nat, NEW w, Ascends(w, n), NEW j \in 0 .. n, NEW k \in 0 .. n, j <= k
  PROVE  w[j] <= w[k]
<1> DEFINE S == {m \in 0 .. n : j <= m => w[j] <= w[m]}
<1>1. 0 \in S
  <2>1. w[j] <= w[j] BY DEF Ascends
  <2>2. QED BY <2>1
<1>2. ASSUME NEW m \in 0 .. n - 1, m \in S PROVE m + 1 \in S
  <2>1. w[j] \in Nat /\ w[m] \in Nat /\ w[m + 1] \in Nat /\ w[m] < w[m + 1]
    BY DEF Ascends
  <2>2. j <= m + 1 => j <= m \/ j = m + 1 OBVIOUS
  <2>3. QED BY <1>2, <2>1, <2>2
<1> HIDE DEF S
<1>3. k \in S BY <1>1, <1>2, InductionTo
<1>4. QED BY <1>3 DEF S

\* Every place below the end belongs to one instruction.
LEMMA AscendsCovers ==
  ASSUME NEW n \in Nat, NEW w, Ascends(w, n), NEW x \in Nat, x < w[n]
  PROVE  \E k \in 0 .. n - 1 : w[k] <= x /\ x < w[k + 1]
<1> DEFINE Beyond == {m \in 0 .. n : x < w[m]}
<1>1. PICK m \in Beyond : \A j \in Beyond : m <= j
  <2>1. Beyond \subseteq Nat /\ n \in Beyond OBVIOUS
  <2> HIDE DEF Beyond
  <2>2. QED BY <2>1, LeastNumber
<1>2. m # 0 BY DEF Ascends
<1>3. m - 1 \in 0 .. n - 1 /\ (m - 1) + 1 = m /\ m - 1 \in 0 .. n BY <1>2
<1>4. m - 1 \notin Beyond BY <1>1, <1>3
<1>5. w[m - 1] \in Nat BY <1>3 DEF Ascends
<1>6. w[m - 1] <= x BY <1>3, <1>4, <1>5
<1>7. QED BY <1>3, <1>6

\* Opcodes have one number each.
LEMMA NumbersDiffer ==
  ASSUME NEW c
  PROVE  /\ OpcodeNumbered(c) # "BAD" <=> c \in 0 .. OP_MAX - 1
         /\ c \in 0 .. OP_MAX - 1 => NumberOf(OpcodeNumbered(c)) = c
<1>1. OP_MAX = 60 BY DEF OP_MAX, OpcodeTable
<1>2. /\ \A x, y \in 1 .. 60 : OpcodeTable[x] = OpcodeTable[y] => x = y
      /\ \A x \in 1 .. 60 : OpcodeTable[x] # "BAD"
  BY SMTT(60) DEF OpcodeTable
<1>3. c \in 0 .. OP_MAX - 1 => c + 1 \in 1 .. 60 BY <1>1
<1>4. c \notin 0 .. OP_MAX - 1 => OpcodeNumbered(c) = "BAD" BY Zenon DEF OpcodeNumbered
<1>5. ASSUME c \in 0 .. OP_MAX - 1
      PROVE  OpcodeNumbered(c) # "BAD" /\ NumberOf(OpcodeNumbered(c)) = c
  <2>1. OpcodeNumbered(c) = OpcodeTable[c + 1] BY <1>5, Zenon DEF OpcodeNumbered
  <2>2. ASSUME NEW n \in 0 .. OP_MAX - 1, OpcodeTable[n + 1] = OpcodeTable[c + 1] PROVE n = c
    <3>1. n + 1 \in 1 .. 60 /\ n \in Int /\ c \in Int BY <1>1, <1>5
    <3>2. n + 1 = c + 1 BY <1>2, <1>3, <1>5, <2>2, <3>1
    <3>3. QED BY <3>1, <3>2
  <2>3. NumberOf(OpcodeTable[c + 1]) = c BY <1>5, <2>2 DEF NumberOf
  <2>4. QED BY <1>2, <1>3, <1>5, <2>1, <2>3
<1>6. QED BY <1>4, <1>5

-----------------------------------------------------------------------------
(* The words of a program.                                                 *)

\* Image m holds the first n instructions of p; the operands of the branches
\* among the first d have been replaced by word indices.
OperandLaid(p, k, d) ==
  IF k < d /\ Op(p, k) \in CondBranch THEN WordsBefore(p)[Arg(p, k)] ELSE Arg(p, k)

Laid(m, p, n, d) ==
  LET at == WordsBefore(p)
  IN  /\ m = [x \in 0 .. at[n] - 1 |-> m[x]]
      /\ \A k \in 0 .. n - 1 :
           /\ OpcodeNumbered(m[at[k]]) = Op(p, k) /\ m[at[k]] \in 0 .. OP_MAX - 1
           /\ OperandWords(Op(p, k)) = 1 => m[at[k] + 1] = OperandLaid(p, k, d)

\* A program's words are where WordsBefore says, and nowhere else.
LEMMA WordsAscend ==
  ASSUME NEW p, Len(p) \in Nat PROVE Ascends(WordsBefore(p), Len(p))
<1>1. ASSUME NEW k \in Indices(p) PROVE WordsBefore(p)[k] < WordsBefore(p)[k + 1]
  <2>1. WordsBefore(p)[k] \in Nat BY WordsBeforeStep
  <2>2. QED BY <2>1, WordsBeforeStep, OperandSizes
<1>2. QED BY <1>1, WordsBeforeStep DEF Ascends

\* An image with all operands in place is the one Interp starts from.
LEMMA LaidIsExpanded ==
  ASSUME NEW p, Len(p) \in Nat, NEW m, Laid(m, p, Len(p), Len(p))
  PROVE  m = Expanded(p).image
<1> DEFINE at == WordsBefore(p)
           n == Len(p)
           Operand(k) == IF Op(p, k) \in CondBranch THEN at[Arg(p, k)] ELSE Arg(p, k)
           Owner(x) == CHOOSE k \in 0 .. n - 1 : at[k] <= x /\ x < at[k + 1]
           WordAt(x) == IF x = at[Owner(x)] THEN NumberOf(Op(p, Owner(x))) ELSE Operand(Owner(x))
<1>1. Expanded(p).image = [x \in 0 .. at[n] - 1 |-> WordAt(x)] BY DEF Expanded
<1>2. m = [x \in 0 .. at[n] - 1 |-> m[x]] BY DEF Laid
<1>3. ASSUME NEW x \in 0 .. at[n] - 1 PROVE m[x] = WordAt(x)
  <2> DEFINE k == Owner(x)
  <2>1. k \in 0 .. n - 1 /\ at[k] <= x /\ x < at[k + 1]
    <3>1. Ascends(at, n) BY WordsAscend
    <3>2. at[n] \in Nat BY <3>1 DEF Ascends
    <3>3. x \in Nat /\ x < at[n] BY <3>2
    <3> HIDE DEF at, n
    <3>4. n \in Nat BY DEF n
    <3>5. \E j \in 0 .. n - 1 : at[j] <= x /\ x < at[j + 1] BY <3>1, <3>3, <3>4, AscendsCovers
    <3>6. QED BY <3>5
  <2> HIDE DEF Owner
  <2>2. /\ OpcodeNumbered(m[at[k]]) = Op(p, k) /\ m[at[k]] \in 0 .. OP_MAX - 1
        /\ OperandWords(Op(p, k)) = 1 => m[at[k] + 1] = OperandLaid(p, k, n)
    BY <2>1 DEF Laid
  <2>3. CASE x = at[k] BY <2>2, <2>3, NumbersDiffer
  <2>4. CASE x # at[k]
    <3>1. OperandWords(Op(p, k)) = 1 /\ x = at[k] + 1
      <4>1. at[k] \in Nat BY <2>1, WordsBeforeStep
      <4>2. at[k + 1] = at[k] + 1 + OperandWords(Op(p, k)) BY <2>1, WordsBeforeStep
      <4> HIDE DEF k, at
      <4>3. QED BY <2>1, <2>4, <4>1, <4>2, OperandSizes
    <3>2. OperandLaid(p, k, n) = Operand(k) BY <2>1 DEF OperandLaid
    <3>3. QED BY <2>2, <2>4, <3>1, <3>2
  <2>5. QED BY <2>3, <2>4
<1> HIDE DEF WordAt
<1>4. QED BY <1>1, <1>2, <1>3

\* Every opcode has a number.
LEMMA OpcodesNumbered ==
  ASSUME NEW op \in Opcodes
  PROVE  NumberOf(op) \in 0 .. OP_MAX - 1 /\ OpcodeNumbered(NumberOf(op)) = op
<1>1. OP_MAX = 60 BY DEF OP_MAX, OpcodeTable
<1>2. \E x \in 1 .. 60 : OpcodeTable[x] = op
  BY SMTT(60) DEF OpcodeTable, Opcodes, CondBranch, IntBranch, FloatBranch, Load, Store, IntUnary,
                  FloatUnary, IntBinary, FloatBinary
<1>3. PICK x \in 1 .. 60 : OpcodeTable[x] = op BY <1>2
<1>4. x - 1 \in 0 .. OP_MAX - 1 /\ (x - 1) + 1 = x BY <1>1
<1>5. NumberOf(op) \in 0 .. OP_MAX - 1 /\ OpcodeTable[NumberOf(op) + 1] = op
  BY <1>3, <1>4 DEF NumberOf
<1>6. QED BY <1>5 DEF OpcodeNumbered

\* The image Interp starts from holds every instruction in its place.
LEMMA ExpandedIsLaid ==
  ASSUME NEW p \in Seq(Insn)
  PROVE  Laid(Expanded(p).image, p, Len(p), Len(p))
<1> DEFINE at == WordsBefore(p)
           n == Len(p)
           Operand(k) == IF Op(p, k) \in CondBranch THEN at[Arg(p, k)] ELSE Arg(p, k)
           Owner(x) == CHOOSE k \in 0 .. n - 1 : at[k] <= x /\ x < at[k + 1]
           WordAt(x) == IF x = at[Owner(x)] THEN NumberOf(Op(p, Owner(x))) ELSE Operand(Owner(x))
           m == Expanded(p).image
<1>1. m = [x \in 0 .. at[n] - 1 |-> WordAt(x)] BY DEF Expanded
<1>2. n \in Nat OBVIOUS
<1>3. Ascends(at, n) BY <1>2, WordsAscend
<1>4. ASSUME NEW k \in 0 .. n - 1
      PROVE  /\ at[k] \in Nat /\ at[k + 1] \in Nat /\ at[k] < at[k + 1] /\ at[k + 1] <= at[n]
             /\ at[k + 1] = at[k] + 1 + OperandWords(Op(p, k)) /\ at[n] \in Nat
  <2>1. k \in 0 .. n /\ k + 1 \in 0 .. n /\ n \in 0 .. n BY <1>2
  <2>2. at[k + 1] <= at[n] BY <1>2, <1>3, <2>1, AscendsFar
  <2>3. QED BY <1>2, <1>3, <2>1, <2>2, WordsBeforeStep DEF Ascends
<1>5. ASSUME NEW k \in 0 .. n - 1, NEW x \in Int, at[k] <= x, x < at[k + 1] PROVE Owner(x) = k
  <2>1. ASSUME NEW j \in 0 .. n - 1, at[j] <= x, x < at[j + 1] PROVE j = k
    <3>1. j + 1 \in 0 .. n /\ k + 1 \in 0 .. n /\ j \in 0 .. n /\ k \in 0 .. n BY <1>2
    <3>2. CASE j < k
      <4>1. at[j + 1] <= at[k] BY <1>2, <1>3, <3>1, <3>2, AscendsFar
      <4>2. QED BY <1>4, <1>5, <2>1, <4>1
    <3>3. CASE k < j
      <4>1. at[k + 1] <= at[j] BY <1>2, <1>3, <3>1, <3>3, AscendsFar
      <4>2. QED BY <1>4, <1>5, <2>1, <4>1
    <3>4. QED BY <3>1, <3>2, <3>3
  <2> HIDE DEF at, n
  <2>2. QED BY <1>5, <2>1
<1>6. ASSUME NEW k \in 0 .. n - 1
      PROVE  /\ OpcodeNumbered(m[at[k]]) = Op(p, k) /\ m[at[k]] \in 0 .. OP_MAX - 1
             /\ OperandWords(Op(p, k)) = 1 => m[at[k] + 1] = OperandLaid(p, k, n)
  <2>1. Op(p, k) \in Opcodes
    <3>1. k + 1 \in 1 .. Len(p) OBVIOUS
    <3>2. p[k + 1] \in Insn BY <3>1
    <3>3. QED BY <3>2 DEF Op, Insn
  <2>2. at[k] \in 0 .. at[n] - 1 /\ Owner(at[k]) = k
    <3> HIDE DEF Owner, at, n
    <3>1. QED BY <1>4, <1>5
  <2>3. m[at[k]] = NumberOf(Op(p, k)) BY <1>1, <2>2
  <2>4. ASSUME OperandWords(Op(p, k)) = 1 PROVE m[at[k] + 1] = OperandLaid(p, k, n)
    <3>1. /\ at[k] + 1 \in 0 .. at[n] - 1 /\ Owner(at[k] + 1) = k /\ at[k] + 1 # at[k]
      <4> HIDE DEF Owner, at, n
      <4>1. QED BY <1>4, <1>5, <2>4
    <3>2. m[at[k] + 1] = Operand(k) BY <1>1, <3>1
    <3>3. QED BY <3>2 DEF OperandLaid
  <2>5. QED BY <2>1, <2>3, <2>4, OpcodesNumbered
<1>7. m = [x \in 0 .. at[n] - 1 |-> m[x]] BY <1>1
<1>8. QED BY <1>6, <1>7 DEF Laid

=============================================================================
