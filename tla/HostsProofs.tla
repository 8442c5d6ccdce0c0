----------------------------- MODULE HostsProofs ----------------------------
(***************************************************************************)
(* Proofs about the three system-call tables: for every memory, every      *)
(* width of a word, and any number of calls with any arguments.            *)
(***************************************************************************)
EXTENDS Hosts, Lemmas

-----------------------------------------------------------------------------
(* The three range checks.                                                 *)

LEMMA RangesAgree ==
  ASSUME NEW a \in Word, NEW n \in Word
  PROVE  /\ Wasm3RangeValid(Unsigned(a), Unsigned(n)) <=> NodeRangeValid(a, n)
         /\ NodeRangeValid(a, n) => Unsigned(a) = a /\ Unsigned(n) = n
<1> DEFINE ua == Unsigned(a)
           un == Unsigned(n)
           t  == ua + un
           us == Unsigned(t)
<1>1. a \in -HalfMod .. HalfMod - 1 /\ n \in -HalfMod .. HalfMod - 1 BY DEF Word
<1>2. /\ ua = IF a < 0 THEN a + WordMod ELSE a
      /\ un = IF n < 0 THEN n + WordMod ELSE n
      /\ ua \in 0 .. WordMod - 1 /\ un \in 0 .. WordMod - 1
      BY UnsignedOf
<1>3. Wasm3RangeValid(ua, un) <=> ua > 0 /\ us >= ua /\ us <= MemSize BY DEF Wasm3RangeValid
<1> HIDE DEF us, t
<1>4. us = IF ua + un < WordMod THEN ua + un ELSE ua + un - WordMod
  <2>1. t \in 0 .. 2 * WordMod - 1 BY <1>2, WordSizes DEF t
  <2>2. us = IF t < WordMod THEN t ELSE t - WordMod BY <2>1, UnsignedSum DEF us
  <2>3. QED BY <1>2, <2>1, <2>2, WordSizes DEF t
<1>5. NodeRangeValid(a, n) <=> a > 0 /\ n >= 0 /\ a + n <= MemSize BY DEF NodeRangeValid
<1>6. MemSize \in Nat /\ MemSize < HalfMod BY MemoriesAssumption
<1> HIDE DEF ua, un
<1>7. CASE a < 0
  <2>1. ua >= HalfMod BY <1>1, <1>2, <1>7, WordSizes
  <2>2. ~ (us >= ua /\ us <= MemSize) BY <1>2, <1>4, <1>6, <2>1, WordSizes
  <2>3. QED BY <1>1, <1>3, <1>5, <1>7, <2>2, WordSizes DEF ua, un
<1>8. CASE a >= 0 /\ n < 0
  <2>1. ua = a /\ un >= HalfMod BY <1>1, <1>2, <1>8, WordSizes
  <2>2. ~ (us >= ua /\ us <= MemSize) BY <1>1, <1>2, <1>4, <1>6, <2>1, WordSizes
  <2>3. QED BY <1>1, <1>3, <1>5, <1>8, <2>2, WordSizes DEF ua, un
<1>9. CASE a >= 0 /\ n >= 0
  <2>1. ua = a /\ un = n /\ us = a + n BY <1>1, <1>2, <1>4, <1>9, WordSizes
  <2>2. QED BY <1>1, <1>3, <1>5, <1>9, <2>1, WordSizes DEF ua, un
<1>10. QED BY <1>1, <1>7, <1>8, <1>9, WordSizes

\* Inside the memory the sum of address and length does not wrap.
LEMMA SumInside ==
  ASSUME NEW a \in Word, NEW n \in Word, n >= 0, Unsigned(a) < MemSize
  PROVE  a >= 0 /\ Unsigned(a) = a /\ (Unsigned(a) + n) % SizeMod = a + n
<1> DEFINE w == WordMod
           s == SizeMod
<1>1. a \in -HalfMod .. HalfMod - 1 /\ n \in 0 .. HalfMod - 1 BY WordSizes DEF Word
<1>2. MemSize \in Nat /\ MemSize < HalfMod BY MemoriesAssumption
<1>3. Unsigned(a) = IF a < 0 THEN a + WordMod ELSE a BY UnsignedOf
<1>4. a >= 0 /\ Unsigned(a) = a BY <1>1, <1>2, <1>3, WordSizes
<1>5. w \in Nat /\ w >= 2 /\ a + n \in 0 .. w - 1 BY <1>1, <1>4, WordSizes
<1>6. s = w * w BY DEF SizeMod
<1> HIDE DEF w, s
<1>7. s \in Nat \ {0} /\ s >= w BY <1>5, <1>6
<1>8. a + n \in -s .. 2 * s - 1 /\ a + n >= 0 /\ a + n < s BY <1>5, <1>7
<1>9. (a + n) % s = a + n BY <1>7, <1>8, RemainderNear
<1>10. QED BY <1>4, <1>9 DEF s

LEMMA NativeRange ==
  ASSUME NEW a \in Word, NEW n \in Word
  PROVE  /\ RangeValid(a, n) \in {"null", "valid", "bad"}
         /\ RangeValid(a, n) = "null" <=> a = 0
         /\ RangeValid(a, n) = "valid" /\ n >= 0 =>
              NodeRangeValid(a, n) /\ VMA(a) = a /\ a + n < MemSize
         /\ NodeRangeValid(a, n) /\ a + n < MemSize => RangeValid(a, n) = "valid"
<1>1. RangeValid(a, n) = IF a = 0 THEN "null"
                         ELSE IF Unsigned(a) < MemSize /\ (Unsigned(a) + n) % SizeMod < MemSize
                              THEN "valid" ELSE "bad"
      BY Zenon DEF RangeValid, InMask
<1>2. a \in Int /\ n \in Int /\ MemSize \in Nat \ {0} BY WordSizes, MemoriesAssumption DEF Word
<1>3. ASSUME RangeValid(a, n) = "valid", n >= 0
      PROVE  NodeRangeValid(a, n) /\ VMA(a) = a /\ a + n < MemSize
  <2>1. a # 0 /\ Unsigned(a) < MemSize /\ (Unsigned(a) + n) % SizeMod < MemSize BY <1>1, <1>3
  <2>2. a >= 0 /\ Unsigned(a) = a /\ (Unsigned(a) + n) % SizeMod = a + n BY <1>3, <2>1, SumInside
  <2>3. a \in -MemSize .. 2 * MemSize - 1 /\ ~ (a < 0) /\ a < MemSize BY <1>2, <2>1, <2>2
  <2>4. VMA(a) = a BY <1>2, <2>3, RemainderNear DEF VMA
  <2>5. QED BY <1>2, <1>3, <2>1, <2>2, <2>4 DEF NodeRangeValid
<1>4. ASSUME NodeRangeValid(a, n), a + n < MemSize PROVE RangeValid(a, n) = "valid"
  <2>1. a > 0 /\ n >= 0 /\ a < MemSize BY <1>2, <1>4 DEF NodeRangeValid
  <2>2. Unsigned(a) = a BY <1>4, RangesAgree
  <2>3. (Unsigned(a) + n) % SizeMod = a + n BY <2>1, <2>2, SumInside
  <2>4. QED BY <1>1, <1>2, <1>4, <2>1, <2>2, <2>3
<1>5. QED BY <1>1, <1>3, <1>4

-----------------------------------------------------------------------------
(* What the hosts do to memories that are alike.                           *)

\* A memory of the wasm module, and the native one that begins like it.
Shaped(m) == m = [b \in 0 .. MemSize - 1 |-> m[b]]
Image(m)  == [b \in 0 .. MemSize + 3 |-> IF b < MemSize THEN m[b] ELSE 0]

Vector == [0 .. 3 -> Word]

LEMMA VectorOfWords ==
  ASSUME NEW args \in Vector
  PROVE  /\ args[1] \in Word /\ args[2] \in Word /\ args[3] \in Word
         /\ args[0] \in Int /\ args[1] \in Int /\ args[2] \in Int /\ args[3] \in Int
<1>1. 0 \in 0 .. 3 /\ 1 \in 0 .. 3 /\ 2 \in 0 .. 3 /\ 3 \in 0 .. 3 OBVIOUS
<1>2. args[0] \in Word /\ args[1] \in Word /\ args[2] \in Word /\ args[3] \in Word
      BY <1>1 DEF Vector
<1>3. Word \subseteq Int BY WordSizes DEF Word
<1>4. QED BY <1>2, <1>3

LEMMA FilledShaped ==
  ASSUME NEW m, Shaped(m), NEW a, NEW c, NEW n
  PROVE  Shaped(Filled(m, a, c, n))
<1>1. DOMAIN m = 0 .. MemSize - 1 BY DEF Shaped
<1>2. QED BY <1>1, Zenon DEF Filled, Shaped

LEMMA MovedShaped ==
  ASSUME NEW m, Shaped(m), NEW a, NEW c, NEW n
  PROVE  Shaped(Moved(m, a, c, n))
<1>1. DOMAIN m = 0 .. MemSize - 1 BY DEF Shaped
<1>2. QED BY <1>1, Zenon DEF Moved, Copied, Shaped

LEMMA FilledImage ==
  ASSUME NEW m, Shaped(m), NEW a \in Word, NEW c, NEW n \in Word,
         NodeRangeValid(a, n), a + n < MemSize
  PROVE  Filled(Image(m), a, c, n) = Image(Filled(m, a, c, n))
<1>1. DOMAIN m = 0 .. MemSize - 1 /\ DOMAIN Image(m) = 0 .. MemSize + 3 BY DEF Shaped, Image
<1>2. a \in Int /\ n \in Int /\ MemSize \in Nat BY WordSizes, MemoriesAssumption DEF Word
<1>3. a > 0 /\ n >= 0 BY <1>2 DEF NodeRangeValid
<1>4. \A b \in 0 .. MemSize + 3 :
        /\ b < MemSize => b \in DOMAIN m
        /\ b \in a .. a + n - 1 => b < MemSize
      BY <1>1, <1>2
<1> DEFINE F == Filled(m, a, c, n)
<1>5. \A b \in DOMAIN m : F[b] = IF b \in a .. a + n - 1 THEN c % ByteMod ELSE m[b]
      BY DEF Filled
<1>6. Filled(Image(m), a, c, n) =
        [b \in 0 .. MemSize + 3 |-> IF b \in a .. a + n - 1 THEN c % ByteMod ELSE Image(m)[b]]
      BY <1>1 DEF Filled
<1>7. \A b \in 0 .. MemSize + 3 : Image(m)[b] = IF b < MemSize THEN m[b] ELSE 0 BY DEF Image
<1>8. Image(F) = [b \in 0 .. MemSize + 3 |-> IF b < MemSize THEN F[b] ELSE 0] BY DEF Image
<1> HIDE DEF F
<1>9. QED BY <1>4, <1>5, <1>6, <1>7, <1>8 DEF F

LEMMA CopiedImage ==
  ASSUME NEW m, Shaped(m), NEW a \in Word, NEW c \in Word, NEW n \in Word,
         NodeRangeValid(a, n), a + n < MemSize, NodeRangeValid(c, n), c + n < MemSize
  PROVE  Copied(Image(m), a, c, n) = Image(Moved(m, a, c, n))
<1>1. DOMAIN m = 0 .. MemSize - 1 /\ DOMAIN Image(m) = 0 .. MemSize + 3 BY DEF Shaped, Image
<1>2. a \in Int /\ c \in Int /\ n \in Int /\ MemSize \in Nat
      BY WordSizes, MemoriesAssumption DEF Word
<1>3. a > 0 /\ c > 0 /\ n >= 0 BY <1>2 DEF NodeRangeValid
<1>4. \A b \in 0 .. MemSize + 3 :
        /\ b < MemSize => b \in DOMAIN m
        /\ b \in a .. a + n - 1 =>
             b < MemSize /\ c + b - a < MemSize /\ c + b - a \in 0 .. MemSize + 3
      BY <1>1, <1>2, <1>3
<1> DEFINE M == Moved(m, a, c, n)
<1>5. \A b \in DOMAIN m : M[b] = IF b \in a .. a + n - 1 THEN m[c + b - a] ELSE m[b]
      BY DEF Moved, Copied
<1>6. Copied(Image(m), a, c, n) =
        [b \in 0 .. MemSize + 3 |->
           IF b \in a .. a + n - 1 THEN Image(m)[c + b - a] ELSE Image(m)[b]]
      BY <1>1 DEF Copied
<1>7. \A b \in 0 .. MemSize + 3 : Image(m)[b] = IF b < MemSize THEN m[b] ELSE 0 BY DEF Image
<1>8. Image(M) = [b \in 0 .. MemSize + 3 |-> IF b < MemSize THEN M[b] ELSE 0] BY DEF Image
<1> HIDE DEF M
<1>9. QED BY <1>4, <1>5, <1>6, <1>7, <1>8 DEF M

-----------------------------------------------------------------------------
(* What the hosts read out of memories that are alike.                     *)

LEMMA GreaterOfTwo ==
  ASSUME NEW a \in Nat, NEW b \in Nat
  PROVE  Max({a, b}) = IF a <= b THEN b ELSE a
<1>1. \E x \in {a, b} : \A y \in {a, b} : x >= y OBVIOUS
<1>2. Max({a, b}) \in {a, b} /\ Max({a, b}) >= a /\ Max({a, b}) >= b BY <1>1 DEF Max
<1>3. QED BY <1>2

\* The first zero from address a on.
Zeros(m, a) == {b \in DOMAIN m : b >= a /\ m[b] = 0}

LEMMA TextOf ==
  ASSUME NEW m, Shaped(m), NEW a \in 0 .. MemSize - 1
  PROVE  Text(m, a) = [k \in 1 .. Min(Zeros(m, a) \cup {MemSize}) - a |-> m[a + k - 1]]
<1>1. DOMAIN m = 0 .. MemSize - 1 BY DEF Shaped
<1>2. MemSize \in Nat \ {0} BY MemoriesAssumption
<1>3. Cardinality(DOMAIN m) = MemSize BY <1>1, <1>2, FS_Interval
<1>4. QED BY <1>3, Zenon DEF Text, Zeros

LEMMA EndOfText ==
  ASSUME NEW m, Shaped(m), NEW a \in 0 .. MemSize - 1
  PROVE  /\ Text(m, a) = [k \in 1 .. Min(Zeros(m, a) \cup {MemSize}) - a |-> m[a + k - 1]]
         /\ Text(Image(m), a) =
              [k \in 1 .. Min(Zeros(m, a) \cup {MemSize}) - a |-> Image(m)[a + k - 1]]
         /\ Min(Zeros(m, a) \cup {MemSize}) \in 0 .. MemSize
<1> DEFINE S == Zeros(m, a) \cup {MemSize}
           T == Zeros(Image(m), a) \cup {MemSize + 4}
<1>1. DOMAIN m = 0 .. MemSize - 1 /\ DOMAIN Image(m) = 0 .. MemSize + 3 BY DEF Shaped, Image
<1>2. MemSize \in Nat \ {0} BY MemoriesAssumption
<1>3. Cardinality(DOMAIN m) = MemSize /\ Cardinality(DOMAIN Image(m)) = MemSize + 4
      BY <1>1, <1>2, FS_Interval
<1>4. Text(m, a) = [k \in 1 .. Min(S) - a |-> m[a + k - 1]]
      BY TextOf, Zenon
<1>5. Text(Image(m), a) = [k \in 1 .. Min(T) - a |-> Image(m)[a + k - 1]]
      BY <1>3, Zenon DEF Text, Zeros
<1>6. \A b \in 0 .. MemSize + 3 : Image(m)[b] = IF b < MemSize THEN m[b] ELSE 0 BY DEF Image
<1>7. S \subseteq 0 .. MemSize /\ S # {} BY <1>1, <1>2 DEF Zeros
<1>8. T \subseteq Nat /\ S \subseteq T
  <2>1. T \subseteq Nat BY <1>1, <1>2 DEF Zeros
  <2>2. ASSUME NEW b \in Zeros(m, a) PROVE b \in Zeros(Image(m), a)
    <3>1. b \in 0 .. MemSize - 1 /\ b >= a /\ m[b] = 0 BY <1>1 DEF Zeros
    <3>2. b \in 0 .. MemSize + 3 /\ Image(m)[b] = 0 BY <1>2, <1>6, <3>1
    <3>3. QED BY <1>1, <3>1, <3>2 DEF Zeros
  <2>3. MemSize \in Zeros(Image(m), a)
    <3>1. MemSize \in 0 .. MemSize + 3 /\ MemSize >= a BY <1>2
    <3>2. Image(m)[MemSize] = 0 BY <1>2, <1>6, <3>1
    <3>3. QED BY <1>1, <3>1, <3>2 DEF Zeros
  <2>4. QED BY <2>1, <2>2, <2>3
<1>9. \A b \in T : \E c \in S : c <= b
  <2> SUFFICES ASSUME NEW b \in T PROVE \E c \in S : c <= b OBVIOUS
  <2>1. b \in Nat BY <1>8
  <2>2. CASE b >= MemSize BY <1>2, <2>1, <2>2
  <2>3. CASE b < MemSize
    <3>1. b \in Zeros(Image(m), a) BY <1>2, <2>3
    <3>2. b >= a /\ Image(m)[b] = 0 /\ b \in 0 .. MemSize + 3 /\ b \in 0 .. MemSize - 1
          BY <1>1, <1>2, <2>1, <2>3, <3>1 DEF Zeros
    <3>3. m[b] = 0 BY <1>6, <2>3, <3>2
    <3>4. b \in Zeros(m, a) BY <1>1, <3>2, <3>3 DEF Zeros
    <3>5. QED BY <2>1, <3>4
  <2>4. QED BY <1>2, <2>1, <2>2, <2>3
<1> HIDE DEF S, T
<1>10. Min(T) = Min(S) BY <1>7, <1>8, <1>9, SameLeast
<1>11. S \subseteq Nat BY <1>2, <1>7
<1>12. Min(S) \in S BY <1>7, <1>11, Least
<1>13. Min(S) \in 0 .. MemSize BY <1>7, <1>12
<1>14. QED BY <1>4, <1>5, <1>10, <1>13 DEF S

LEMMA ImageText ==
  ASSUME NEW m, Shaped(m), NEW a \in 0 .. MemSize - 1
  PROVE  Text(Image(m), a) = Text(m, a)
<1> DEFINE e == Min(Zeros(m, a) \cup {MemSize})
<1>1. /\ Text(m, a) = [k \in 1 .. e - a |-> m[a + k - 1]]
      /\ Text(Image(m), a) = [k \in 1 .. e - a |-> Image(m)[a + k - 1]]
      /\ e \in 0 .. MemSize
      BY EndOfText
<1> HIDE DEF e
<1>2. MemSize \in Nat BY MemoriesAssumption
<1>3. \A k \in 1 .. e - a : a + k - 1 \in 0 .. MemSize + 3 /\ a + k - 1 < MemSize
      BY <1>1, <1>2
<1>4. \A k \in 1 .. e - a : Image(m)[a + k - 1] = m[a + k - 1] BY <1>3 DEF Image
<1>5. QED BY <1>1, <1>4

LEMMA StringsAgree ==
  ASSUME NEW m, Shaped(m), NEW a \in Nat
  PROVE  ReadString(m, a) = IF a < MemSize THEN Text(m, a) ELSE <<>>
<1> DEFINE f == IF a < 0 THEN Max({MemSize + a, 0}) ELSE a
           e == Min(Zeros(m, a) \cup {Max({a, MemSize})})
<1>1. ReadString(m, a) = [k \in 1 .. e - f |-> m[f + k - 1]] BY Zenon DEF ReadString, Zeros
<1>2. f = a OBVIOUS
<1>3. MemSize \in Nat \ {0} BY MemoriesAssumption
<1>4. Max({a, MemSize}) = IF a <= MemSize THEN MemSize ELSE a BY <1>3, GreaterOfTwo
<1>5. CASE a < MemSize
  <2>1. Max({a, MemSize}) = MemSize /\ a \in 0 .. MemSize - 1 BY <1>3, <1>4, <1>5
  <2>2. Text(m, a) = [k \in 1 .. Min(Zeros(m, a) \cup {MemSize}) - a |-> m[a + k - 1]]
        BY <2>1, TextOf, Zenon
  <2> HIDE DEF f
  <2>3. QED BY <1>1, <1>2, <1>5, <2>1, <2>2
<1>6. CASE a >= MemSize
  <2>1. DOMAIN m = 0 .. MemSize - 1 BY DEF Shaped
  <2>2. Zeros(m, a) = {} BY <1>3, <1>6, <2>1 DEF Zeros
  <2>3. Max({a, MemSize}) = a BY <1>3, <1>4, <1>6
  <2>4. e = Min({a, a})
    <3>1. {} \cup {a} = {a, a} OBVIOUS
    <3>2. QED BY <2>2, <2>3, <3>1
  <2>5. Min({a, a}) = a BY LeastOfTwo
  <2> HIDE DEF e, f
  <2>6. e - f = 0 BY <1>2, <2>4, <2>5
  <2>7. ReadString(m, a) = [k \in 1 .. 0 |-> m[f + k - 1]] BY <1>1, <2>6
  <2>8. [k \in 1 .. 0 |-> m[f + k - 1]] = <<>> OBVIOUS
  <2>9. QED BY <1>3, <1>6, <2>7, <2>8
<1>7. QED BY <1>3, <1>5, <1>6

-----------------------------------------------------------------------------
(* The answers.                                                            *)

Ids == {PrintInt, PrintString, MemSet, MemCpy, Error}

LEMMA IdsDiffer ==
  /\ PrintInt = -1 /\ PrintString = -2 /\ MemSet = -3 /\ MemCpy = -4 /\ Error = -5
BY DEF PrintInt, PrintString, MemSet, MemCpy, Error

\* Two outcomes that a wasm module cannot tell apart.
Alike(args, j, w) ==
  j.mem = w.mem /\ Shaped(j.mem) /\ j.reply = w.reply /\ (args[1] >= 0 => j.out = w.out)

LEMMA WasmAnswersAlike ==
  ASSUME NEW args \in Vector, NEW m, Shaped(m)
  PROVE  Alike(args, Node(args, m), Wasm3(args, m))
<1> DEFINE a == args[1]
           c == args[2]
           n == args[3]
<1>1. a \in Word /\ c \in Word /\ n \in Word /\ a \in Int BY VectorOfWords
<1>2. CASE Id(args) = PrintInt
  <2>1. Node(args, m) = Outcome("ok", 0, <<a>>, m) /\ Wasm3(args, m) = Outcome("ok", 0, <<a>>, m)
        BY <1>2, IdsDiffer DEF Node, Wasm3
  <2>2. QED BY <2>1 DEF Alike, Outcome
<1>3. CASE Id(args) \in {PrintString, Error}
  <2>1. Node(args, m) = Outcome("ok", 0, ReadString(m, a), m)
        BY <1>3, IdsDiffer DEF Node
  <2>2. Wasm3(args, m) =
          Outcome("ok", 0, IF Unsigned(a) < MemSize THEN Text(m, Unsigned(a)) ELSE <<>>, m)
        BY <1>3, IdsDiffer DEF Wasm3
  <2>3. a >= 0 => Unsigned(a) = a BY <1>1, UnsignedOf
  <2>4. a >= 0 => ReadString(m, a) = IF a < MemSize THEN Text(m, a) ELSE <<>>
        BY <1>1, StringsAgree
  <2>5. QED BY <2>1, <2>2, <2>3, <2>4 DEF Alike, Outcome
<1>4. CASE Id(args) = MemSet
  <2>1. Node(args, m) =
          Outcome("ok", a, <<>>, IF NodeRangeValid(a, n) THEN Filled(m, a, c, n) ELSE m)
        BY <1>4, IdsDiffer DEF Node
  <2>2. Wasm3(args, m) =
          Outcome("ok", a, <<>>, IF Wasm3RangeValid(Unsigned(a), Unsigned(n))
                                 THEN Filled(m, Unsigned(a), c, Unsigned(n)) ELSE m)
        BY <1>4, IdsDiffer DEF Wasm3
  <2>3. /\ Wasm3RangeValid(Unsigned(a), Unsigned(n)) <=> NodeRangeValid(a, n)
        /\ NodeRangeValid(a, n) => Unsigned(a) = a /\ Unsigned(n) = n
        BY <1>1, RangesAgree
  <2>4. Shaped(Filled(m, a, c, n)) BY FilledShaped
  <2>5. QED BY <2>1, <2>2, <2>3, <2>4 DEF Alike, Outcome
<1>5. CASE Id(args) = MemCpy
  <2>1. Node(args, m) =
          Outcome("ok", a, <<>>, IF NodeRangeValid(a, n) /\ NodeRangeValid(c, n)
                                 THEN Moved(m, a, c, n) ELSE m)
        BY <1>5, IdsDiffer DEF Node
  <2>2. Wasm3(args, m) =
          Outcome("ok", a, <<>>, IF /\ Wasm3RangeValid(Unsigned(a), Unsigned(n))
                                    /\ Wasm3RangeValid(Unsigned(c), Unsigned(n))
                                 THEN Moved(m, Unsigned(a), Unsigned(c), Unsigned(n)) ELSE m)
        BY <1>5, IdsDiffer DEF Wasm3
  <2>3. /\ Wasm3RangeValid(Unsigned(a), Unsigned(n)) <=> NodeRangeValid(a, n)
        /\ NodeRangeValid(a, n) => Unsigned(a) = a /\ Unsigned(n) = n
        BY <1>1, RangesAgree
  <2>4. /\ Wasm3RangeValid(Unsigned(c), Unsigned(n)) <=> NodeRangeValid(c, n)
        /\ NodeRangeValid(c, n) => Unsigned(c) = c
        BY <1>1, RangesAgree
  <2>5. Shaped(Moved(m, a, c, n)) BY MovedShaped
  <2>6. QED BY <2>1, <2>2, <2>3, <2>4, <2>5 DEF Alike, Outcome
<1>6. CASE Id(args) \notin Ids
  <2>1. /\ Node(args, m) = Outcome("ok", 0, <<Id(args)>>, m)
        /\ Wasm3(args, m) = Outcome("ok", 0, <<Id(args)>>, m)
        BY <1>6 DEF Node, Wasm3, Ids
  <2>2. QED BY <2>1 DEF Alike, Outcome
<1>7. QED BY <1>2, <1>3, <1>4, <1>5, <1>6 DEF Ids

\* The native host serves a call as node does.
Serves(args, n, j) ==
  /\ n.mem = Image(j.mem)
  /\ Id(args) \in {MemSet, MemCpy} => n.reply = j.reply
  /\ Id(args) \in {PrintString, Error} /\ Inside(args[1]) => n.out = j.out

LEMMA NativeAnswers ==
  ASSUME NEW args \in Vector, NEW m, Shaped(m), Native(args, Image(m)).status = "ok"
  PROVE  Serves(args, Native(args, Image(m)), Node(args, m))
<1> DEFINE a == args[1]
           c == args[2]
           n == args[3]
           i == Image(m)
<1>1. a \in Word /\ c \in Word /\ n \in Word /\ a \in Int BY VectorOfWords
<1>2. CASE Id(args) = PrintInt
  <2>1. /\ Node(args, m) = Outcome("ok", 0, <<a>>, m)
        /\ Native(args, i) = Outcome("ok", Digits(a), <<a>>, i)
        BY <1>2, IdsDiffer DEF Node, Native
  <2>2. QED BY <1>2, <2>1, IdsDiffer DEF Serves, Outcome
<1>3. CASE Id(args) \in {PrintString, Error}
  <2>1. Node(args, m) = Outcome("ok", 0, ReadString(m, a), m)
        BY <1>3, IdsDiffer DEF Node
  <2>2. Native(args, i) = NativePrints(args, i) BY <1>3, IdsDiffer DEF Native
  <2>3. NativePrints(args, i) = Outcome("ok", Len(Text(i, VMA(a))), Text(i, VMA(a)), i)
    <3>1. Printable(i, a)
      <4>1. SUFFICES ASSUME ~ Printable(i, a) PROVE FALSE OBVIOUS
      <4>2. Native(args, i).status = "undefined" BY <2>2, <4>1 DEF NativePrints, Outcome
      <4>3. QED BY <4>2
    <3>2. QED BY <3>1, Zenon DEF NativePrints
  <2>4. ASSUME Inside(a) PROVE Text(i, VMA(a)) = ReadString(m, a)
    <3>1. a \in 1 .. MemSize - 1 /\ MemSize \in Nat \ {0} BY <2>4, MemoriesAssumption DEF Inside
    <3>2. a \in -MemSize .. 2 * MemSize - 1 /\ ~ (a < 0) /\ a < MemSize BY <3>1
    <3>3. VMA(a) = a BY <3>1, <3>2, RemainderNear DEF VMA
    <3>4. Text(i, a) = Text(m, a) BY <3>1, ImageText
    <3>5. ReadString(m, a) = Text(m, a) BY <3>1, <3>2, StringsAgree
    <3>6. QED BY <3>3, <3>4, <3>5
  <2>5. QED BY <1>3, <2>1, <2>2, <2>3, <2>4, IdsDiffer DEF Serves, Outcome
<1>4. CASE Id(args) = MemSet
  <2>1. Node(args, m) =
          Outcome("ok", a, <<>>, IF NodeRangeValid(a, n) THEN Filled(m, a, c, n) ELSE m)
        BY <1>4, IdsDiffer DEF Node
  <2>2. Native(args, i) = NativeSets(args, i) BY <1>4, IdsDiffer DEF Native
  <2>3. CASE RangeValid(a, n) = "null"
    <3>1. ~ NodeRangeValid(a, n) BY <1>1, <2>3, NativeRange DEF NodeRangeValid
    <3>2. NativeSets(args, i) = Outcome("ok", a, <<>>, i) BY <2>3 DEF NativeSets
    <3>3. QED BY <1>4, <2>1, <2>2, <3>1, <3>2, IdsDiffer DEF Serves, Outcome
  <2>4. CASE RangeValid(a, n) = "valid" /\ n >= 0
    <3>1. NodeRangeValid(a, n) /\ VMA(a) = a /\ a + n < MemSize BY <1>1, <2>4, NativeRange
    <3>2. NativeSets(args, i) = Outcome("ok", a, <<>>, Filled(i, a, c, n))
          BY <2>4, <3>1 DEF NativeSets, CDefined
    <3>3. Filled(i, a, c, n) = Image(Filled(m, a, c, n)) BY <1>1, <3>1, FilledImage
    <3>4. QED BY <1>4, <2>1, <2>2, <3>1, <3>2, <3>3, IdsDiffer DEF Serves, Outcome
  <2>5. CASE RangeValid(a, n) = "valid" /\ ~ (n >= 0)
    <3>1. NativeSets(args, i) = Outcome("undefined", 0, <<>>, i) BY <2>5 DEF NativeSets, CDefined
    <3>2. QED BY <2>2, <3>1 DEF Outcome
  <2>6. CASE RangeValid(a, n) = "bad"
    <3>1. NativeSets(args, i) = Outcome("error", 0, <<>>, i) BY <2>6 DEF NativeSets
    <3>2. QED BY <2>2, <3>1 DEF Outcome
  <2>7. QED BY <1>1, <2>3, <2>4, <2>5, <2>6, NativeRange
<1>5. CASE Id(args) = MemCpy
  <2>1. Node(args, m) =
          Outcome("ok", a, <<>>, IF NodeRangeValid(a, n) /\ NodeRangeValid(c, n)
                                 THEN Moved(m, a, c, n) ELSE m)
        BY <1>5, IdsDiffer DEF Node
  <2>2. Native(args, i) = NativeCopies(args, i) BY <1>5, IdsDiffer DEF Native
  <2> DEFINE dest == RangeValid(a, n)
             src  == RangeValid(c, n)
  <2>3. dest \in {"null", "valid", "bad"} /\ src \in {"null", "valid", "bad"}
        BY <1>1, NativeRange
  <2>4. NativeCopies(args, i) =
          IF dest = "bad" \/ (dest = "valid" /\ src = "bad") THEN Outcome("error", 0, <<>>, i)
          ELSE IF dest = "null" \/ (dest = "valid" /\ src = "null") THEN Outcome("ok", a, <<>>, i)
          ELSE IF ~ CDefined(n) \/ Overlap(a, c, n) THEN Outcome("undefined", 0, <<>>, i)
          ELSE Outcome("ok", a, <<>>, Copied(i, VMA(a), VMA(c), n))
        BY <2>3 DEF NativeCopies
  <2>5. NativeCopies(args, i).status = "ok" BY <2>2
  <2>6. CASE dest = "null" \/ (dest = "valid" /\ src = "null")
    <3>1. ~ (NodeRangeValid(a, n) /\ NodeRangeValid(c, n))
          BY <1>1, <2>6, NativeRange DEF NodeRangeValid
    <3>2. NativeCopies(args, i) = Outcome("ok", a, <<>>, i) BY <2>3, <2>4, <2>6
    <3>3. QED BY <1>5, <2>1, <2>2, <3>1, <3>2, IdsDiffer DEF Serves, Outcome
  <2>7. CASE dest = "valid" /\ src = "valid"
    <3>1. NativeCopies(args, i) = IF ~ CDefined(n) \/ Overlap(a, c, n)
                                  THEN Outcome("undefined", 0, <<>>, i)
                                  ELSE Outcome("ok", a, <<>>, Copied(i, VMA(a), VMA(c), n))
          BY <2>4, <2>7
    <3>2. CDefined(n) /\ ~ Overlap(a, c, n) BY <2>5, <3>1 DEF Outcome
    <3>3. n >= 0 BY <3>2 DEF CDefined
    <3>4. /\ NodeRangeValid(a, n) /\ VMA(a) = a /\ a + n < MemSize
          /\ NodeRangeValid(c, n) /\ VMA(c) = c /\ c + n < MemSize
          BY <1>1, <2>7, <3>3, NativeRange
    <3>5. NativeCopies(args, i) = Outcome("ok", a, <<>>, Copied(i, a, c, n))
          BY <3>1, <3>2, <3>4
    <3>6. Copied(i, a, c, n) = Image(Moved(m, a, c, n)) BY <1>1, <3>4, CopiedImage
    <3>7. QED BY <1>5, <2>1, <2>2, <3>4, <3>5, <3>6, IdsDiffer DEF Serves, Outcome
  <2>8. CASE dest = "bad" \/ (dest = "valid" /\ src = "bad")
    <3>1. NativeCopies(args, i) = Outcome("error", 0, <<>>, i) BY <2>4, <2>8
    <3>2. QED BY <2>5, <3>1 DEF Outcome
  <2>9. QED BY <2>3, <2>6, <2>7, <2>8
<1>6. CASE Id(args) \notin Ids
  <2>1. /\ Node(args, m) = Outcome("ok", 0, <<Id(args)>>, m)
        /\ Native(args, i) = Outcome("ok", 0, <<Id(args)>>, i)
        BY <1>6 DEF Node, Native, Ids
  <2>2. QED BY <1>6, <2>1 DEF Serves, Outcome, Ids
<1>7. QED BY <1>2, <1>3, <1>4, <1>5, <1>6 DEF Ids

-----------------------------------------------------------------------------
(* The inductive invariant.                                                *)

\* The two instances have one memory; the native memory is its image.
MemoriesAlike ==
  Shaped(node) /\ wasm3 = node /\ (native = "ok" => image = Image(node))

HostInv == MemoriesAlike /\ HostsAgree

LEMMA HostsInitially == Init => HostInv
<1> SUFFICES ASSUME Init PROVE HostInv OBVIOUS
<1>1. Shaped(node) BY MemoriesAssumption DEF Init, Shaped
<1>2. wasm3 = node /\ image = Image(node) /\ last = <<>> BY DEF Init, Image
<1>3. \A b \in DOMAIN node : image[b] = node[b]
  <2>1. DOMAIN node = 0 .. MemSize - 1 /\ MemSize \in Nat BY <1>1, MemoriesAssumption DEF Shaped
  <2>2. QED BY <1>2, <2>1 DEF Image
<1>4. QED BY <1>1, <1>2, <1>3 DEF HostInv, MemoriesAlike, HostsAgree, WasmHostsAgree, NativeAgrees

\* A call that the three hosts answer.
LEMMA SystemCallKeeps ==
  ASSUME HostInv, NEW args \in Calls, SystemCall(args)
  PROVE  HostInv'
<1> DEFINE n == Native(args, image)
           j == Node(args, node)
           w == Wasm3(args, wasm3)
<1>1. args \in Vector BY MemoriesAssumption DEF Vector
<1>2. Shaped(node) /\ wasm3 = node /\ image = Image(node)
      BY DEF HostInv, MemoriesAlike, SystemCall
<1>3. /\ image' = n.mem /\ node' = j.mem /\ wasm3' = w.mem /\ native' = n.status
      /\ last' = <<args, n, j, w>>
      BY DEF SystemCall
<1>4. Alike(args, j, w) BY <1>1, <1>2, WasmAnswersAlike
<1>5. n.status = "ok" => Serves(args, n, j) BY <1>1, <1>2, NativeAnswers
<1> HIDE DEF n, j, w
<1>6. MemoriesAlike' BY <1>3, <1>4, <1>5 DEF MemoriesAlike, Shaped, Image, Alike, Serves
<1>7. WasmHostsAgree' BY <1>3, <1>4 DEF WasmHostsAgree, Alike
<1>8. NativeAgrees'
  <2> SUFFICES ASSUME n.status = "ok" PROVE NativeAgrees' BY <1>3 DEF NativeAgrees
  <2>1. Shaped(j.mem) /\ Serves(args, n, j) BY <1>4, <1>5 DEF Alike
  <2>2. \A b \in DOMAIN j.mem : n.mem[b] = j.mem[b]
    <3>1. DOMAIN j.mem = 0 .. MemSize - 1 /\ MemSize \in Nat
          BY <2>1, MemoriesAssumption DEF Shaped
    <3>2. QED BY <2>1, <3>1 DEF Serves, Image
  <2>3. QED BY <1>3, <2>1, <2>2 DEF NativeAgrees, Serves
<1>9. QED BY <1>6, <1>7, <1>8 DEF HostInv, HostsAgree

\* A call after the native run has ended.
LEMMA WasmSystemCallKeeps ==
  ASSUME HostInv, NEW args \in Calls, WasmSystemCall(args)
  PROVE  HostInv'
<1> DEFINE n == Outcome(native, 0, <<>>, image)
           j == Node(args, node)
           w == Wasm3(args, wasm3)
<1>1. args \in Vector BY MemoriesAssumption DEF Vector
<1>2. Shaped(node) /\ wasm3 = node BY DEF HostInv, MemoriesAlike
<1>3. node' = j.mem /\ wasm3' = w.mem /\ native' # "ok" /\ last' = <<args, n, j, w>>
      BY DEF WasmSystemCall
<1>4. Alike(args, j, w) BY <1>1, <1>2, WasmAnswersAlike
<1> HIDE DEF n, j, w
<1>5. MemoriesAlike' BY <1>3, <1>4 DEF MemoriesAlike, Shaped, Alike
<1>6. WasmHostsAgree' BY <1>3, <1>4 DEF WasmHostsAgree, Alike
<1>7. NativeAgrees' BY <1>3 DEF NativeAgrees
<1>8. QED BY <1>5, <1>6, <1>7 DEF HostInv, HostsAgree

(***************************************************************************)
(* Whatever is called, the two wasm memories are one and the native one    *)
(* begins with it as long as the native host runs.                         *)
(***************************************************************************)
THEOREM HostInvHolds == Spec => []HostInv
<1>1. HostInv /\ [Next]_vars => HostInv'
  <2> SUFFICES ASSUME HostInv, [Next]_vars PROVE HostInv' OBVIOUS
  <2>1. CASE Next BY <2>1, SystemCallKeeps, WasmSystemCallKeeps DEF Next
  <2>2. CASE UNCHANGED vars
        BY <2>2 DEF vars, HostInv, MemoriesAlike, Shaped, Image, HostsAgree, WasmHostsAgree,
                    NativeAgrees
  <2>3. QED BY <2>1, <2>2
<1>2. QED BY <1>1, HostsInitially, PTL DEF Spec

(***************************************************************************)
(* main.c, run.js and example/host.c serve a program alike, for every word *)
(* that it passes as an address, a length or a value and however often it  *)
(* calls: checks on unsigned sums that wrap, on numbers that do not and on *)
(* sums of twice the width draw the same line, and masked and unmasked     *)
(* addresses are then the same.                                            *)
(***************************************************************************)
THEOREM HostsServeAlike == Spec => []HostsAgree
<1>1. HostInv => HostsAgree BY DEF HostInv
<1>2. QED BY <1>1, HostInvHolds, PTL

(***************************************************************************)
(* VM_MemoryRangeValid and the C library end the native run in no call of  *)
(* memset or memcpy on a range that ends before the last byte and does not *)
(* overlap its source.                                                     *)
(***************************************************************************)
THEOREM NativeServes == Spec => NativeServesProper
<1> DEFINE Good == native = "ok" /\ last'[2].status # "ok" /\ Id(last'[1]) \in {MemSet, MemCpy}
                     => ~ Proper(last'[1])
<1>1. ASSUME HostInv, Next PROVE Good
  <2> SUFFICES ASSUME native = "ok", last'[2].status # "ok", Id(last'[1]) \in {MemSet, MemCpy},
                      Proper(last'[1])
               PROVE  FALSE
      OBVIOUS
  <2>1. PICK args \in Calls : SystemCall(args) BY <1>1 DEF Next, WasmSystemCall
  <2>2. last'[1] = args /\ last'[2] = Native(args, image) BY <2>1 DEF SystemCall
  <2>3. args \in Vector BY MemoriesAssumption DEF Vector
  <2>4. args[1] \in Word /\ args[2] \in Word /\ args[3] \in Word BY <2>3, VectorOfWords
  <2>5. RangeValid(args[1], args[3]) = "valid" /\ CDefined(args[3])
    <3>1. NodeRangeValid(args[1], args[3]) /\ args[1] + args[3] < MemSize BY <2>2 DEF Proper
    <3>2. QED BY <2>4, <3>1, NativeRange DEF NodeRangeValid, CDefined
  <2>6. CASE Id(args) = MemSet
    <3>1. Native(args, image) = NativeSets(args, image) BY <2>6, IdsDiffer DEF Native
    <3>2. NativeSets(args, image).status = "ok" BY <2>5 DEF NativeSets, Outcome
    <3>3. QED BY <2>2, <3>1, <3>2
  <2>7. CASE Id(args) = MemCpy
    <3>1. Native(args, image) = NativeCopies(args, image) BY <2>7, IdsDiffer DEF Native
    <3>2. /\ NodeRangeValid(args[2], args[3]) /\ args[2] + args[3] < MemSize
          /\ ~ Overlap(args[1], args[2], args[3])
          BY <2>2, <2>7 DEF Proper
    <3>3. RangeValid(args[2], args[3]) = "valid" BY <2>4, <3>2, NativeRange
    <3>4. NativeCopies(args, image).status = "ok"
          BY <2>5, <3>2, <3>3 DEF NativeCopies, Outcome
    <3>5. QED BY <2>2, <3>1, <3>4
  <2>8. QED BY <2>2, <2>6, <2>7
<1>2. HostInv /\ [Next]_vars => [Good]_vars BY <1>1
<1>3. QED BY <1>2, HostInvHolds, PTL DEF Spec, NativeServesProper
=============================================================================
