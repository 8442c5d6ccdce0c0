---------------------------- MODULE AnalyzeProofs ---------------------------
(***************************************************************************)
(* Proofs about the static analysis, for every program and every stack     *)
(* size.                                                                   *)
(***************************************************************************)
EXTENDS Analyze, TLAPS

USE DEF Indices, N

LEMMA StackEffect ==
  ASSUME NEW op
  PROVE  Pops(op) \in 0 .. 2 /\ Pushes(op) \in 0 .. 1
BY DEF Pops, Pushes

-----------------------------------------------------------------------------
(* Type correctness: the function at hand is a non-empty interval of the   *)
(* program and the loop index stays within it.                             *)

HasFunction == phase \in {"collect", "scan", "leaders", "done"}

CurrentFunction ==
  HasFunction => /\ fn.start < fn.end /\ fn.end <= N
                 /\ Op(prog, fn.start) = "ENTER"
                 /\ EndsFunction(fn.start, fn.end)

IndexInside == phase \in {"scan", "leaders"} => fn.start <= i /\ i <= fn.end

TypeInv == TypeOK /\ CurrentFunction /\ IndexInside

LEMMA ProgLength == ASSUME TypeOK PROVE N \in Nat \ {0}
BY DEF TypeOK

LEMMA EntryDepthNat ==
  ASSUME TypeOK, i \in Indices(prog)
  PROVE  EntryDepth \in Nat
BY DEF TypeOK, EntryDepth

LEMMA ExitDepthNat ==
  ASSUME TypeOK, i \in Indices(prog), ~ Underflow
  PROVE  ExitDepth \in Nat
<1>1. EntryDepth \in Nat BY EntryDepthNat
<1>2. QED BY <1>1, StackEffect DEF ExitDepth, Underflow

LEMMA InitTypeInv == Init => TypeInv
<1> SUFFICES ASSUME Init PROVE TypeInv OBVIOUS
<1>1. prog \in Seq(Insn) /\ Len(prog) > 0 BY ProgramsAssumption DEF Init
<1>2. N \in Nat \ {0} /\ prog # <<>> BY <1>1
<1>3. phase = "find" BY DEF Init
<1>4. CurrentFunction /\ IndexInside
  BY <1>3 DEF CurrentFunction, HasFunction, IndexInside
<1>5. depth \in [Indices(prog) -> Nat] BY DEF Init
<1>6. /\ expected \in [Indices(prog) -> Nat \cup {-1}]
      /\ leader \in [Indices(prog) -> Nat \cup {-1}]
  BY DEF Init
<1>7. fn \in FuncRecord BY DEF Init, FuncRecord
<1>8. phase \in Phases BY <1>3 DEF Phases
<1>9. i \in 0 .. N /\ cur \in Nat /\ region \in Nat BY <1>2 DEF Init
<1>10. hasJump \in BOOLEAN /\ reachable \in BOOLEAN BY Zenon DEF Init
<1>11. funcs \in Seq(FuncRecord) BY DEF Init
<1>12. QED
  BY <1>1, <1>2, <1>4, <1>5, <1>6, <1>7, <1>8, <1>9, <1>10, <1>11
  DEF TypeInv, TypeOK

LEMMA MarkLeaderTypes ==
  ASSUME TypeOK, MarkLeader, prog' = prog
  PROVE  leader' \in [Indices(prog) -> Nat \cup {-1}]' /\ region' \in Nat
<1>1. \/ leader' = [leader EXCEPT ![i] = region] /\ region' = region + 1
      \/ leader' = leader /\ region' = region
  BY Zenon DEF MarkLeader
<1>2. /\ leader \in [Indices(prog) -> Nat \cup {-1}]
      /\ region \in Nat /\ region + 1 \in Nat
  BY DEF TypeOK
<1>3. [leader EXCEPT ![i] = region] \in [Indices(prog) -> Nat \cup {-1}]
  BY <1>2
<1>4. Indices(prog)' = Indices(prog) OBVIOUS
<1>5. QED BY <1>1, <1>2, <1>3, <1>4

LEMMA NextTypeInv == TypeInv /\ [Next]_vars => TypeInv'
<1> SUFFICES ASSUME TypeInv, [Next]_vars PROVE TypeInv' OBVIOUS
<1> USE DEF TypeInv, TypeOK, Phases, FuncRecord, CurrentFunction, HasFunction, IndexInside
<1>1. CASE FindFunctions
  BY <1>1 DEF FindFunctions, BeginFunction, EndsFunction
<1>2. CASE RejectNoEnter
  BY <1>2 DEF RejectNoEnter, Reject
<1>3. CASE CollectTargets
  BY <1>3 DEF CollectTargets, EndsFunction
<1>4. CASE RejectTarget
  BY <1>4 DEF RejectTarget, Reject
<1>5. CASE ScanInsn
  <2>1. i \in Indices(prog) BY <1>5 DEF ScanInsn, Scanning
  <2>2. EntryDepth \in Nat BY <2>1, EntryDepthNat
  <2>3. ExitDepth \in Nat BY <1>5, <2>1, ExitDepthNat DEF ScanInsn, ScanConflict
  <2>4. depth' \in [Indices(prog) -> Nat] BY <1>5, <2>2 DEF ScanInsn, DepthNow
  <2>5. expected' \in [Indices(prog) -> Nat \cup {-1}] BY <1>5, <2>3 DEF ScanInsn
  <2>6. Max3(fn.maxDepth, EntryDepth, ExitDepth) \in Nat BY <2>2, <2>3 DEF Max3
  <2>7. fn' \in FuncRecord /\ fn'.start = fn.start /\ fn'.end = fn.end
    BY <1>5, <2>6 DEF ScanInsn
  <2>8. reachable' \in BOOLEAN BY <1>5 DEF ScanInsn
  <2>9. /\ UNCHANGED <<prog, phase, funcs, hasJump, leader, region>>
        /\ phase = "scan" /\ i < fn.end /\ i' = i + 1 /\ cur' = ExitDepth
    BY <1>5 DEF ScanInsn, Scanning
  <2>10. i' \in 0 .. N /\ IndexInside' BY <2>7, <2>9
  <2>11. CurrentFunction' BY <2>7, <2>9 DEF EndsFunction
  <2>12. TypeOK' BY <2>3, <2>4, <2>5, <2>7, <2>8, <2>9, <2>10
  <2>13. QED BY <2>10, <2>11, <2>12
<1>6. CASE RejectScan
  BY <1>6 DEF RejectScan, Reject
<1>7. CASE EndScan
  BY <1>7 DEF EndScan, EndsFunction
<1>8. CASE MarkLeader
  <2>1. /\ UNCHANGED <<prog, phase, funcs, fn, hasJump, cur, reachable, depth, expected>>
        /\ phase = "leaders" /\ i < fn.end /\ i' = i + 1
    BY <1>8 DEF MarkLeader
  <2>2. leader' \in [Indices(prog) -> Nat \cup {-1}] /\ region' \in Nat
    BY <1>8, <2>1, MarkLeaderTypes
  <2>3. i' \in 0 .. N /\ IndexInside' BY <2>1
  <2>4. CurrentFunction' BY <2>1 DEF EndsFunction
  <2>5. TypeOK' BY <2>1, <2>2, <2>3
  <2>6. QED BY <2>3, <2>4, <2>5
<1>9. CASE NextFunction
  <2>1. funcs' \in Seq(FuncRecord) BY <1>9 DEF NextFunction
  <2>2. CASE fn.end = N
    BY <1>9, <2>1, <2>2 DEF NextFunction, EndsFunction
  <2>3. CASE fn.end # N
    BY <1>9, <2>1, <2>3 DEF NextFunction, BeginFunction, EndsFunction
  <2>4. QED BY <2>2, <2>3
<1>10. CASE UNCHANGED vars
  BY <1>10 DEF vars, EndsFunction
<1>11. QED
  BY <1>1, <1>2, <1>3, <1>4, <1>5, <1>6, <1>7, <1>8, <1>9, <1>10 DEF Next

\* Every state of the analysis is well typed: no depth becomes negative, no
\* index leaves the program, whatever the program is.
THEOREM TypeCorrect == Spec => []TypeOK
<1>1. TypeInv => TypeOK BY DEF TypeInv
<1>2. QED BY InitTypeInv, NextTypeInv, <1>1, PTL DEF Spec

-----------------------------------------------------------------------------
(***************************************************************************)
(* Soundness.  Everything before the horizon has been scanned and will not *)
(* change again, except that a later branch can fix the expectation of an  *)
(* instruction that is already scanned -- to the depth it was scanned at.  *)
(***************************************************************************)
Horizon ==
  IF phase = "scan" THEN i
  ELSE IF phase \in {"leaders", "done"} THEN fn.end
  ELSE IF phase = "collect" THEN fn.start ELSE 0

Settled(k) ==
  /\ depth[k] >= Pops(Op(prog, k))
  /\ After(prog, depth, k) <= MaxSlots
  /\ Op(prog, k) = "ENTER" => depth[k] = 0
  /\ Orphan(prog, k) => depth[k] = 0

FallThroughAgrees(k) ==
  FallsInto(prog, k) => depth[k + 1] = After(prog, depth, k)

BranchAgrees(k) ==
  Op(prog, k) \in CondBranch =>
    /\ SameFunction(prog, k, Arg(prog, k))
    /\ expected[Arg(prog, k)] = After(prog, depth, k)

ExpectationMet(t) == expected[t] >= 0 => depth[t] = expected[t]

\* An expectation is always some scanned branch's.
ExpectationExplained(t) ==
  expected[t] >= 0 =>
    \E k \in 0 .. Horizon - 1 : Op(prog, k) \in CondBranch /\ Arg(prog, k) = t

\* What the scan carries from one instruction to the next.
Carried ==
  /\ TargetsInside
  /\ i = fn.start => reachable = TRUE /\ cur = 0
  /\ i > fn.start => /\ reachable = (Op(prog, i - 1) \notin Diverts)
                     /\ cur = After(prog, depth, i - 1)

Below ==
  /\ \A k \in 0 .. Horizon - 1 : Settled(k)
  /\ \A k \in 0 .. Horizon - 2 : FallThroughAgrees(k)
  /\ \A k \in 0 .. Horizon - 1 : BranchAgrees(k)
  /\ \A k \in 0 .. Horizon - 1 : ExpectationMet(k)
  /\ \A t \in Indices(prog) : ExpectationExplained(t)

SoundInv ==
  phase # "rejected" =>
    /\ Below
    /\ phase = "scan" => Carried
    /\ phase = "done" => fn.end = N

LEMMA HorizonBound ==
  ASSUME TypeInv PROVE Horizon \in 0 .. N
BY DEF TypeInv, TypeOK, FuncRecord, Phases, CurrentFunction, HasFunction, IndexInside, Horizon

\* Only a scanned instruction moves the horizon.
LEMMA HorizonStays ==
  ASSUME TypeInv, phase # "rejected",
         \/ FindFunctions \/ CollectTargets \/ EndScan \/ MarkLeader \/ NextFunction
  PROVE  Horizon' = Horizon
<1> USE DEF TypeInv, TypeOK, FuncRecord, CurrentFunction, HasFunction, IndexInside, Horizon
<1>1. CASE FindFunctions BY <1>1 DEF FindFunctions, BeginFunction
<1>2. CASE CollectTargets BY <1>2 DEF CollectTargets
<1>3. CASE EndScan BY <1>3 DEF EndScan
<1>4. CASE MarkLeader BY <1>4 DEF MarkLeader
<1>5. CASE NextFunction
  <2>1. CASE fn.end = N BY <1>5, <2>1 DEF NextFunction
  <2>2. CASE fn.end # N BY <1>5, <2>2 DEF NextFunction, BeginFunction
  <2>3. QED BY <2>1, <2>2
<1>6. QED BY <1>1, <1>2, <1>3, <1>4, <1>5

\* What holds below the horizon is kept by every step that leaves the program,
\* the depths, the expectations and the horizon alone.
LEMMA BelowKept ==
  ASSUME Below, Horizon' = Horizon, UNCHANGED <<prog, depth, expected>>
  PROVE  Below'
BY DEF Below, Settled, FallThroughAgrees, BranchAgrees, ExpectationMet,
       ExpectationExplained, After, Orphan, FallsInto, SameFunction, Op, Arg

-----------------------------------------------------------------------------
(* One iteration of the scan, spelled out.                                 *)

LEMMA ScanPlace ==
  ASSUME TypeInv, ScanInsn
  PROVE  /\ i \in Indices(prog) /\ fn.start \in Nat /\ fn.end \in Nat
         /\ fn.start <= i /\ i < fn.end /\ fn.end <= N
         /\ Horizon = i /\ Horizon' = i + 1
         /\ prog' = prog /\ phase = "scan" /\ phase' = "scan"
         /\ fn'.start = fn.start /\ fn'.end = fn.end
BY DEF TypeInv, TypeOK, FuncRecord, CurrentFunction, HasFunction, IndexInside,
       Horizon, ScanInsn, Scanning

LEMMA ScanDepth ==
  ASSUME TypeInv, ScanInsn
  PROVE  /\ EntryDepth \in Nat /\ ExitDepth \in Nat
         /\ EntryDepth >= Pops(Op(prog, i)) /\ ExitDepth <= MaxSlots
         /\ depth'[i] = EntryDepth
         /\ \A k \in Indices(prog) : k # i => depth'[k] = depth[k]
         /\ After(prog, depth', i) = ExitDepth
<1>1. i \in Indices(prog) /\ prog' = prog BY ScanPlace
<1>2. ~ Underflow /\ ~ Overflow BY DEF ScanInsn, ScanConflict
<1>3. EntryDepth \in Nat BY <1>1, EntryDepthNat DEF TypeInv
<1>4. ExitDepth \in Nat BY <1>1, <1>2, ExitDepthNat DEF TypeInv
<1>5. EntryDepth >= Pops(Op(prog, i)) BY <1>2, <1>3, StackEffect DEF Underflow
<1>6. ExitDepth <= MaxSlots BY <1>2, <1>4, MaxSlotsAssumption DEF Overflow
<1>7. depth' = [depth EXCEPT ![i] = EntryDepth] BY DEF ScanInsn, DepthNow
<1>8. DOMAIN depth = Indices(prog) BY DEF TypeInv, TypeOK
<1>9. /\ depth'[i] = EntryDepth
      /\ \A k \in Indices(prog) : k # i => depth'[k] = depth[k]
  BY <1>1, <1>7, <1>8
<1>10. After(prog, depth', i) = ExitDepth BY <1>9 DEF After, ExitDepth
<1>11. QED BY <1>3, <1>4, <1>5, <1>6, <1>9, <1>10

\* The target of a branch: it lies in the function, it is expected at the
\* branch's exit depth from now on, and was scanned at that depth if it was.
LEMMA ScanBranch ==
  ASSUME TypeInv, SoundInv, ScanInsn, Op(prog, i) \in CondBranch,
         NEW t, t = Arg(prog, i)
  PROVE  /\ t \in Extent(fn) /\ t \in Indices(prog)
         /\ expected[t] < 0 \/ expected[t] = ExitDepth
         /\ expected' = [expected EXCEPT ![t] = ExitDepth]
         /\ t <= i => depth'[t] = ExitDepth
<1>1. /\ phase = "scan" /\ i \in Extent(fn) /\ Extent(fn) \subseteq Indices(prog)
      /\ i \in Indices(prog) /\ Horizon = i
  BY ScanPlace DEF Extent
<1>2. t \in Extent(fn) BY <1>1 DEF SoundInv, Carried, TargetsInside
<1>3. t \in Indices(prog) BY <1>1, <1>2
<1>4. expected[t] \in Nat \cup {-1} BY <1>3 DEF TypeInv, TypeOK
<1>5. ~ BranchConflict BY DEF ScanInsn, ScanConflict
<1>6. /\ expected[t] < 0 => ~ (t <= i /\ DepthNow[t] # ExitDepth)
      /\ ~ (expected[t] < 0) => expected[t] = ExitDepth
  BY <1>5, Zenon DEF BranchConflict
<1>7. depth' = DepthNow BY DEF ScanInsn
<1>8. expected' = [expected EXCEPT ![t] = ExitDepth] BY DEF ScanInsn
<1>9. ASSUME t <= i PROVE depth'[t] = ExitDepth
  <2>1. CASE expected[t] < 0 BY <2>1, <1>6, <1>7, <1>9
  <2>2. CASE ~ (expected[t] < 0) /\ t = i
    <3>1. depth'[i] = EntryDepth BY ScanDepth
    <3>2. EntryDepth = expected[i] BY <2>2, <1>4 DEF EntryDepth
    <3>3. QED BY <3>1, <3>2, <2>2, <1>6
  <2>3. CASE ~ (expected[t] < 0) /\ t # i
    <3>1. t \in 0 .. Horizon - 1 BY <2>3, <1>1, <1>3, <1>9
    <3>2. ExpectationMet(t) BY <3>1, <1>1 DEF SoundInv, Below
    <3>3. depth[t] = ExitDepth BY <3>2, <2>3, <1>4, <1>6 DEF ExpectationMet
    <3>4. depth'[t] = depth[t] BY <2>3, <1>3, ScanDepth
    <3>5. QED BY <3>3, <3>4
  <2>4. QED BY <2>1, <2>2, <2>3
<1>10. QED BY <1>2, <1>3, <1>4, <1>6, <1>8, <1>9

\* No other expectation moves.
LEMMA ScanExpected ==
  ASSUME TypeInv, SoundInv, ScanInsn, NEW t \in Indices(prog)
  PROVE  /\ expected'[t] = expected[t]
            \/ /\ Op(prog, i) \in CondBranch /\ t = Arg(prog, i)
               /\ expected[t] < 0 /\ expected'[t] = ExitDepth
         /\ expected[t] >= 0 => expected'[t] = expected[t]
<1>1. expected \in [Indices(prog) -> Nat \cup {-1}] BY DEF TypeInv, TypeOK
<1>2. CASE Op(prog, i) \in CondBranch
  <2>1. /\ expected' = [expected EXCEPT ![Arg(prog, i)] = ExitDepth]
        /\ expected[Arg(prog, i)] < 0 \/ expected[Arg(prog, i)] = ExitDepth
        /\ Arg(prog, i) \in Indices(prog)
    BY <1>2, ScanBranch
  <2>2. QED BY <1>1, <1>2, <2>1
<1>3. CASE Op(prog, i) \notin CondBranch
  BY <1>3 DEF ScanInsn
<1>4. QED BY <1>2, <1>3

\* An expectation at i comes from a branch of the same function below i.
LEMMA ScanExplained ==
  ASSUME TypeInv, SoundInv, ScanInsn, expected[i] >= 0
  PROVE  \E k \in 0 .. i - 1 : /\ Op(prog, k) \in CondBranch /\ Arg(prog, k) = i
                               /\ SameFunction(prog, k, i)
<1>1. i \in Indices(prog) /\ Horizon = i /\ phase = "scan" BY ScanPlace
<1>2. Below BY <1>1 DEF SoundInv
<1>3. ExpectationExplained(i) BY <1>1, <1>2 DEF Below
<1>4. PICK k \in 0 .. i - 1 : Op(prog, k) \in CondBranch /\ Arg(prog, k) = i
  BY <1>1, <1>3 DEF ExpectationExplained
<1>5. BranchAgrees(k) BY <1>1, <1>2, <1>4 DEF Below
<1>6. SameFunction(prog, k, i) BY <1>4, <1>5 DEF BranchAgrees
<1>7. QED BY <1>4, <1>6

\* The depth the scan enters i with is the one every edge into i demands.
LEMMA ScanEntry ==
  ASSUME TypeInv, SoundInv, ScanInsn
  PROVE  /\ expected[i] >= 0 => EntryDepth = expected[i]
         /\ Op(prog, i) = "ENTER" => EntryDepth = 0
         /\ Orphan(prog, i) => EntryDepth = 0
         /\ i > 0 /\ FallsInto(prog, i - 1) => EntryDepth = After(prog, depth, i - 1)
<1>1. /\ i \in Indices(prog) /\ phase = "scan" /\ fn.start \in Nat /\ fn.end \in Nat
      /\ fn.start <= i /\ i < fn.end
  BY ScanPlace
<1>2. Carried BY <1>1 DEF SoundInv
<1>3. /\ Op(prog, fn.start) = "ENTER"
      /\ \A k \in fn.start + 1 .. fn.end - 1 : Op(prog, k) # "ENTER"
  BY <1>1 DEF TypeInv, CurrentFunction, HasFunction, EndsFunction
<1>4. expected[i] \in Nat \cup {-1} BY <1>1 DEF TypeInv, TypeOK
<1>5. expected[i] >= 0 => EntryDepth = expected[i] BY DEF EntryDepth
<1>6. ASSUME Op(prog, i) = "ENTER" PROVE EntryDepth = 0
  <2>1. i = fn.start BY <1>1, <1>3, <1>6
  <2>2. ~ (expected[i] >= 0)
    <3>1. SUFFICES ASSUME expected[i] >= 0 PROVE FALSE OBVIOUS
    <3>2. PICK k \in 0 .. i - 1 : SameFunction(prog, k, i) BY <3>1, ScanExplained
    <3>3. QED BY <1>1, <1>6, <3>2 DEF SameFunction
  <2>3. cur = 0 BY <1>2, <2>1 DEF Carried
  <2>4. QED BY <2>2, <2>3 DEF EntryDepth
<1>7. ASSUME Orphan(prog, i) PROVE EntryDepth = 0
  <2>1. i > fn.start BY <1>1, <1>3, <1>7 DEF Orphan
  <2>2. reachable = FALSE BY <1>2, <1>7, <2>1 DEF Carried, Orphan
  <2>3. ~ (expected[i] >= 0)
    <3>1. SUFFICES ASSUME expected[i] >= 0 PROVE FALSE OBVIOUS
    <3>2. PICK k \in 0 .. i - 1 : Op(prog, k) \in CondBranch /\ Arg(prog, k) = i
      BY <3>1, ScanExplained
    <3>3. QED BY <1>7, <3>2 DEF Orphan
  <2>4. QED BY <2>2, <2>3 DEF EntryDepth
<1>8. ASSUME i > 0, FallsInto(prog, i - 1)
      PROVE  EntryDepth = After(prog, depth, i - 1)
  <2>1. Op(prog, i) # "ENTER" /\ Op(prog, i - 1) \notin Diverts
    BY <1>1, <1>8 DEF FallsInto
  <2>2. i > fn.start BY <1>1, <1>3, <2>1
  <2>3. reachable /\ cur = After(prog, depth, i - 1)
    BY <1>2, <2>1, <2>2 DEF Carried
  <2>4. ~ MergeConflict BY DEF ScanInsn, ScanConflict
  <2>5. expected[i] >= 0 => cur = expected[i] BY <2>3, <2>4 DEF MergeConflict
  <2>6. QED BY <2>3, <2>5 DEF EntryDepth
<1>9. QED BY <1>5, <1>6, <1>7, <1>8

\* An interval without an OP_ENTER behind its start lies in one function.
LEMMA OneFunction ==
  ASSUME NEW s \in Nat, NEW e \in Nat, e <= N, N \in Nat,
         \A j \in s + 1 .. e - 1 : Op(prog, j) # "ENTER",
         NEW k \in s .. e - 1, NEW t \in s .. e - 1
  PROVE  SameFunction(prog, k, t)
<1>1. t \in Indices(prog) OBVIOUS
<1>2. ASSUME NEW j \in k + 1 .. t PROVE Op(prog, j) # "ENTER"
  <2>1. j \in s + 1 .. e - 1 OBVIOUS
  <2>2. QED BY <2>1
<1>3. ASSUME NEW j \in t + 1 .. k PROVE Op(prog, j) # "ENTER"
  <2>1. j \in s + 1 .. e - 1 OBVIOUS
  <2>2. QED BY <2>1
<1>4. QED BY <1>1, <1>2, <1>3 DEF SameFunction

LEMMA ScanBelow ==
  ASSUME TypeInv, SoundInv, ScanInsn
  PROVE  Below'
<1>1. /\ i \in Indices(prog) /\ phase = "scan" /\ N \in Nat
      /\ Horizon = i /\ Horizon' = i + 1 /\ prog' = prog
      /\ fn.start \in Nat /\ fn.end \in Nat
      /\ fn.start <= i /\ i < fn.end /\ fn.end <= N
  BY ScanPlace, ProgLength DEF TypeInv
<1>2. Below BY <1>1 DEF SoundInv
<1>3. /\ EntryDepth \in Nat /\ ExitDepth \in Nat
      /\ EntryDepth >= Pops(Op(prog, i)) /\ ExitDepth <= MaxSlots
      /\ depth'[i] = EntryDepth
      /\ \A k \in Indices(prog) : k # i => depth'[k] = depth[k]
      /\ After(prog, depth', i) = ExitDepth
  BY ScanDepth
<1>4. \A k \in 0 .. i - 1 : /\ k \in Indices(prog) /\ depth'[k] = depth[k]
                            /\ After(prog, depth', k) = After(prog, depth, k)
  BY <1>1, <1>3 DEF After
<1>5. \A k \in 0 .. i : Settled(k)'
  <2> SUFFICES ASSUME NEW k \in 0 .. i PROVE Settled(k)' OBVIOUS
  <2>1. CASE k < i
    <3>1. Settled(k) BY <1>1, <1>2, <2>1 DEF Below
    <3>2. Orphan(prog, k)' => Orphan(prog, k) BY <1>1
    <3>3. QED BY <1>1, <1>4, <2>1, <3>1, <3>2 DEF Settled, Op
  <2>2. CASE k = i
    <3>1. Orphan(prog, k)' => Orphan(prog, i) BY <1>1, <2>2
    <3>2. QED BY <1>1, <1>3, <2>2, <3>1, ScanEntry DEF Settled, Op
  <2>3. QED BY <1>1, <2>1, <2>2
<1>6. \A k \in 0 .. i - 1 : FallThroughAgrees(k)'
  <2> SUFFICES ASSUME NEW k \in 0 .. i - 1, FallsInto(prog, k)
               PROVE  depth'[k + 1] = After(prog, depth', k)
    BY <1>1 DEF FallThroughAgrees
  <2>1. CASE k < i - 1
    <3>1. depth[k + 1] = After(prog, depth, k)
      BY <1>1, <1>2, <2>1 DEF Below, FallThroughAgrees
    <3>2. QED BY <1>1, <1>4, <2>1, <3>1
  <2>2. CASE k = i - 1
    <3>1. EntryDepth = After(prog, depth, i - 1) BY <1>1, <2>2, ScanEntry
    <3>2. k + 1 = i BY <1>1, <2>2
    <3>3. QED BY <1>3, <1>4, <2>2, <3>1, <3>2
  <2>3. QED BY <1>1, <2>1, <2>2
<1>7. \A k \in 0 .. i : BranchAgrees(k)'
  <2> SUFFICES ASSUME NEW k \in 0 .. i, Op(prog, k) \in CondBranch
               PROVE  /\ SameFunction(prog, k, Arg(prog, k))
                      /\ expected'[Arg(prog, k)] = After(prog, depth', k)
    BY <1>1 DEF BranchAgrees
  <2>1. CASE k < i
    <3>1. /\ SameFunction(prog, k, Arg(prog, k))
          /\ expected[Arg(prog, k)] = After(prog, depth, k)
      BY <1>1, <1>2, <2>1 DEF Below, BranchAgrees
    <3>2. After(prog, depth, k) >= 0
      <4>1. Settled(k) BY <1>1, <1>2, <2>1 DEF Below
      <4>2. depth[k] \in Nat
        <5>1. depth \in [Indices(prog) -> Nat] BY DEF TypeInv, TypeOK
        <5>2. k \in Indices(prog) BY <1>1, <2>1
        <5>3. QED BY <5>1, <5>2
      <4>3. QED BY <4>1, <4>2, StackEffect DEF Settled, After
    <3>3. Arg(prog, k) \in Indices(prog) BY <3>1 DEF SameFunction
    <3>4. expected'[Arg(prog, k)] = expected[Arg(prog, k)]
      BY <3>1, <3>2, <3>3, ScanExpected
    <3>5. QED BY <1>1, <1>4, <2>1, <3>1, <3>4
  <2>2. CASE k = i
    <3>1. /\ Arg(prog, i) \in Extent(fn) /\ Arg(prog, i) \in Indices(prog)
          /\ expected' = [expected EXCEPT ![Arg(prog, i)] = ExitDepth]
      BY <2>2, ScanBranch
    <3>2. \A j \in fn.start + 1 .. fn.end - 1 : Op(prog, j) # "ENTER"
      BY <1>1 DEF TypeInv, CurrentFunction, HasFunction, EndsFunction
    <3>3. Arg(prog, i) \in fn.start .. fn.end - 1 BY <3>1 DEF Extent
    <3>4. SameFunction(prog, i, Arg(prog, i))
      <4>1. i \in fn.start .. fn.end - 1 BY <1>1
      <4>2. QED BY <1>1, <3>2, <3>3, <4>1, OneFunction
    <3>5. expected'[Arg(prog, i)] = ExitDepth
      BY <3>1 DEF TypeInv, TypeOK
    <3>6. QED BY <1>3, <2>2, <3>4, <3>5
  <2>3. QED BY <1>1, <2>1, <2>2
<1>8. \A k \in 0 .. i : ExpectationMet(k)'
  <2> SUFFICES ASSUME NEW k \in 0 .. i, expected'[k] >= 0
               PROVE  depth'[k] = expected'[k]
    BY DEF ExpectationMet
  <2>1. k \in Indices(prog) BY <1>1
  <2>2. CASE expected'[k] = expected[k]
    <3>1. CASE k < i
      <4>1. ExpectationMet(k) BY <1>1, <1>2, <3>1 DEF Below
      <4>2. QED BY <1>1, <1>4, <2>2, <3>1, <4>1 DEF ExpectationMet
    <3>2. CASE k = i BY <1>3, <2>2, <3>2, ScanEntry
    <3>3. QED BY <1>1, <3>1, <3>2
  <2>3. CASE /\ Op(prog, i) \in CondBranch /\ k = Arg(prog, i)
             /\ expected'[k] = ExitDepth
    <3>1. depth'[k] = ExitDepth BY <1>1, <2>3, ScanBranch
    <3>2. QED BY <2>3, <3>1
  <2>4. QED BY <2>1, <2>2, <2>3, ScanExpected
<1>9. \A t \in Indices(prog) : ExpectationExplained(t)'
  <2> SUFFICES ASSUME NEW t \in Indices(prog), expected'[t] >= 0
               PROVE  \E k \in 0 .. i : Op(prog, k) \in CondBranch /\ Arg(prog, k) = t
    BY <1>1 DEF ExpectationExplained
  <2>1. CASE expected'[t] = expected[t]
    <3>1. \E k \in 0 .. i - 1 : Op(prog, k) \in CondBranch /\ Arg(prog, k) = t
      BY <1>1, <1>2, <2>1 DEF Below, ExpectationExplained
    <3>2. QED BY <1>1, <3>1
  <2>2. CASE Op(prog, i) \in CondBranch /\ t = Arg(prog, i)
    BY <1>1, <2>2
  <2>3. QED BY <2>1, <2>2, ScanExpected
<1>10. QED BY <1>1, <1>5, <1>6, <1>7, <1>8, <1>9 DEF Below

LEMMA ScanCarried ==
  ASSUME TypeInv, SoundInv, ScanInsn
  PROVE  Carried'
<1>1. /\ i \in Indices(prog) /\ phase = "scan" /\ prog' = prog /\ i' = i + 1
      /\ fn'.start = fn.start /\ fn'.end = fn.end
      /\ fn.start \in Nat /\ fn.start <= i
  BY ScanPlace DEF ScanInsn
<1>2. Carried BY <1>1 DEF SoundInv
<1>3. TargetsInside'
  BY <1>1, <1>2 DEF Carried, TargetsInside, Extent, Op, Arg
<1>4. i' > fn'.start /\ i' # fn'.start /\ i' - 1 = i BY <1>1
<1>5. reachable' = (Op(prog, i) \notin Diverts) BY Zenon DEF ScanInsn
<1>6. cur' = After(prog, depth', i)
  <2>1. cur' = ExitDepth BY DEF ScanInsn
  <2>2. QED BY <2>1, ScanDepth
<1>7. reachable' = (Op(prog', i' - 1) \notin Diverts) BY <1>1, <1>4, <1>5, Zenon
<1>8. cur' = After(prog', depth', i' - 1) BY <1>1, <1>4, <1>6
<1>9. QED BY <1>3, <1>4, <1>7, <1>8, Zenon DEF Carried

LEMMA InitSoundInv == Init => SoundInv
<1> SUFFICES ASSUME Init PROVE SoundInv OBVIOUS
<1>1. phase = "find" /\ Horizon = 0 BY DEF Init, Horizon
<1>2. \A t \in Indices(prog) : ~ (expected[t] >= 0) BY DEF Init
<1>3. \A t \in Indices(prog) : ExpectationExplained(t)
  BY <1>2 DEF ExpectationExplained
<1>4. Below BY <1>1, <1>3 DEF Below
<1>5. QED BY <1>1, <1>4 DEF SoundInv

LEMMA NextSoundInv == TypeInv /\ SoundInv /\ [Next]_vars => SoundInv'
<1> SUFFICES ASSUME TypeInv, SoundInv, [Next]_vars PROVE SoundInv' OBVIOUS
<1>1. ASSUME phase # "rejected",
             \/ FindFunctions \/ CollectTargets \/ EndScan
             \/ MarkLeader \/ NextFunction
      PROVE  Below'
  <2>1. Horizon' = Horizon BY <1>1, HorizonStays
  <2>2. UNCHANGED <<prog, depth, expected>>
    BY <1>1 DEF FindFunctions, CollectTargets, EndScan, MarkLeader, NextFunction
  <2>3. QED BY <1>1, <2>1, <2>2, BelowKept DEF SoundInv
<1>2. CASE FindFunctions
  <2>1. phase = "find" /\ phase' = "collect"
    BY <1>2 DEF FindFunctions, BeginFunction
  <2>2. QED BY <1>1, <1>2, <2>1 DEF SoundInv
<1>3. CASE CollectTargets
  <2>1. /\ phase = "collect" /\ phase' = "scan" /\ fn' = fn /\ prog' = prog
        /\ i' = fn.start /\ cur' = 0 /\ reachable' = TRUE /\ TargetsInside
    BY <1>3 DEF CollectTargets
  <2>2. fn.start \in Nat BY DEF TypeInv, TypeOK, FuncRecord
  <2>3. TargetsInside' BY <2>1 DEF TargetsInside, Extent, Op, Arg
  <2>4. ~ (i' > fn'.start) BY <2>1, <2>2
  <2>5. Carried' BY <2>1, <2>3, <2>4 DEF Carried
  <2>6. QED BY <1>1, <1>3, <2>1, <2>5 DEF SoundInv
<1>4. CASE ScanInsn
  <2>1. phase' = "scan" BY <1>4, ScanPlace
  <2>2. QED BY <1>4, <2>1, ScanBelow, ScanCarried DEF SoundInv
<1>5. CASE EndScan
  <2>1. phase = "scan" /\ phase' = "leaders" BY <1>5 DEF EndScan
  <2>2. QED BY <1>1, <1>5, <2>1 DEF SoundInv
<1>6. CASE MarkLeader
  <2>1. phase = "leaders" /\ phase' = "leaders" BY <1>6 DEF MarkLeader
  <2>2. QED BY <1>1, <1>6, <2>1 DEF SoundInv
<1>7. CASE NextFunction
  <2>1. /\ phase = "leaders" /\ phase' # "scan" /\ prog' = prog
        /\ phase' = "done" => fn' = fn /\ fn.end = N
    BY <1>7 DEF NextFunction, BeginFunction
  <2>2. QED BY <1>1, <1>7, <2>1 DEF SoundInv
<1>8. CASE RejectNoEnter \/ RejectTarget \/ RejectScan
  BY <1>8 DEF RejectNoEnter, RejectTarget, RejectScan, Reject, SoundInv
<1>9. CASE UNCHANGED vars
  <2>1. /\ Horizon' = Horizon
        /\ UNCHANGED <<prog, phase, fn, i, cur, reachable, depth, expected>>
    BY <1>9 DEF vars, Horizon
  <2>2. Below => Below' BY <2>1, BelowKept
  <2>3. Carried => Carried'
    BY <2>1 DEF Carried, TargetsInside, Extent, Op, Arg, After
  <2>4. QED BY <2>1, <2>2, <2>3 DEF SoundInv
<1>10. QED
  BY <1>2, <1>3, <1>4, <1>5, <1>6, <1>7, <1>8, <1>9 DEF Next

LEMMA SoundAtTheEnd == TypeInv /\ SoundInv => AnalysisSound
<1> SUFFICES ASSUME TypeInv, SoundInv, phase = "done"
             PROVE  ConsistentDepths(prog, depth, MaxSlots)
  BY DEF AnalysisSound
<1>1. Below /\ Horizon = N /\ N \in Nat
  BY ProgLength DEF SoundInv, Horizon, TypeInv
<1>2. \A k \in Indices(prog) : Settled(k) /\ BranchAgrees(k) /\ ExpectationMet(k)
  BY <1>1 DEF Below
<1>3. ASSUME NEW k \in Indices(prog), FallsInto(prog, k)
      PROVE  depth[k + 1] = After(prog, depth, k)
  <2>1. k \in 0 .. Horizon - 2 BY <1>1, <1>3 DEF FallsInto
  <2>2. QED BY <1>1, <1>3, <2>1 DEF Below, FallThroughAgrees
<1>4. ASSUME NEW k \in Indices(prog), Op(prog, k) \in CondBranch
      PROVE  /\ SameFunction(prog, k, Arg(prog, k))
             /\ depth[Arg(prog, k)] = After(prog, depth, k)
  <2>1. /\ SameFunction(prog, k, Arg(prog, k))
        /\ expected[Arg(prog, k)] = After(prog, depth, k)
    BY <1>2, <1>4 DEF BranchAgrees
  <2>2. Arg(prog, k) \in Indices(prog) BY <2>1 DEF SameFunction
  <2>3. After(prog, depth, k) >= 0
    <3>1. depth[k] \in Nat BY DEF TypeInv, TypeOK
    <3>2. QED BY <1>2, <3>1, StackEffect DEF Settled, After
  <2>4. ExpectationMet(Arg(prog, k)) BY <1>2, <2>2
  <2>5. QED BY <2>1, <2>3, <2>4 DEF ExpectationMet
<1>5. QED BY <1>2, <1>3, <1>4 DEF ConsistentDepths, Settled

\* When the analysis succeeds it has found a consistent operand depth for every
\* instruction of the program, so the emitter may give each stack slot a wasm
\* local: for every program, every length and every stack size.
THEOREM Soundness == Spec => []AnalysisSound
<1>1. Init => TypeInv /\ SoundInv BY InitTypeInv, InitSoundInv
<1>2. (TypeInv /\ SoundInv) /\ [Next]_vars => (TypeInv /\ SoundInv)'
  BY NextTypeInv, NextSoundInv
<1>3. TypeInv /\ SoundInv => AnalysisSound BY SoundAtTheEnd
<1>4. QED BY <1>1, <1>2, <1>3, PTL DEF Spec

-----------------------------------------------------------------------------
(***************************************************************************)
(* Completeness.  A program has at most one consistent annotation, and the *)
(* scan computes it: below the horizon the depths, and everywhere the      *)
(* expectations, are the annotation's, so no check can fail.               *)
(***************************************************************************)
Annotations == {D \in [Indices(prog) -> 0 .. MaxSlots] : ConsistentDepths(prog, D, MaxSlots)}

Forced(D) ==
  /\ phase # "rejected"
  /\ \A k \in 0 .. Horizon - 1 : depth[k] = D[k]
  /\ \A t \in Indices(prog) : expected[t] >= 0 => expected[t] = D[t]

CompleteInv == Op(prog, 0) = "ENTER" => \A D \in Annotations : Forced(D)

\* What an annotation says of one instruction.
LEMMA AnnotationAt ==
  ASSUME NEW D \in Annotations, NEW k \in Indices(prog)
  PROVE  /\ D[k] \in Nat
         /\ D[k] >= Pops(Op(prog, k))
         /\ After(prog, D, k) <= MaxSlots
         /\ Op(prog, k) = "ENTER" => D[k] = 0
         /\ Orphan(prog, k) => D[k] = 0
         /\ FallsInto(prog, k) => D[k + 1] = After(prog, D, k)
         /\ Op(prog, k) \in CondBranch =>
              /\ SameFunction(prog, k, Arg(prog, k))
              /\ D[Arg(prog, k)] = After(prog, D, k)
<1>1. D \in [Indices(prog) -> 0 .. MaxSlots] /\ ConsistentDepths(prog, D, MaxSlots)
  BY DEF Annotations
<1>2. D[k] \in Nat BY <1>1, MaxSlotsAssumption
<1>3. QED BY <1>1, <1>2 DEF ConsistentDepths

\* No OP_ENTER separates a branch from its target, so the target lies in the
\* function.
LEMMA TargetsForced ==
  ASSUME TypeInv, phase = "collect", NEW D \in Annotations
  PROVE  TargetsInside
<1> SUFFICES ASSUME NEW k \in Extent(fn), Op(prog, k) \in CondBranch
             PROVE  Arg(prog, k) \in Extent(fn)
  BY DEF TargetsInside
<1>1. /\ fn.start \in Nat /\ fn.end \in Nat /\ N \in Nat
      /\ fn.start < fn.end /\ fn.end <= N
      /\ Op(prog, fn.start) = "ENTER"
      /\ fn.end # N => Op(prog, fn.end) = "ENTER"
  BY ProgLength DEF TypeInv, TypeOK, FuncRecord, CurrentFunction, HasFunction, EndsFunction
<1>2. k \in fn.start .. fn.end - 1 /\ k \in Indices(prog) BY <1>1 DEF Extent
<1>3. SameFunction(prog, k, Arg(prog, k)) BY <1>2, AnnotationAt
<1>4. Arg(prog, k) \in 0 .. N - 1 BY <1>3 DEF SameFunction
<1>5. ~ (Arg(prog, k) < fn.start) BY <1>1, <1>2, <1>3, <1>4 DEF SameFunction
<1>6. ~ (Arg(prog, k) >= fn.end) BY <1>1, <1>2, <1>3, <1>4 DEF SameFunction
<1>7. QED BY <1>1, <1>4, <1>5, <1>6 DEF Extent

LEMMA ScanningPlace ==
  ASSUME TypeInv, SoundInv, Scanning
  PROVE  /\ i \in Indices(prog) /\ fn.start \in Nat /\ fn.end \in Nat
         /\ fn.start <= i /\ i < fn.end /\ fn.end <= N
         /\ Horizon = i /\ phase = "scan"
         /\ Op(prog, fn.start) = "ENTER"
         /\ \A k \in fn.start + 1 .. fn.end - 1 : Op(prog, k) # "ENTER"
         /\ Below /\ Carried
         /\ expected[i] \in Nat \cup {-1}
<1>1. phase = "scan" /\ i < fn.end BY DEF Scanning
<1>2. /\ i \in 0 .. N /\ fn.start \in Nat /\ fn.end \in Nat
      /\ fn.start <= i /\ fn.end <= N
      /\ Op(prog, fn.start) = "ENTER"
      /\ \A k \in fn.start + 1 .. fn.end - 1 : Op(prog, k) # "ENTER"
  BY <1>1 DEF TypeInv, TypeOK, FuncRecord, CurrentFunction, HasFunction, IndexInside,
              EndsFunction
<1>3. i \in Indices(prog) BY <1>1, <1>2
<1>4. expected[i] \in Nat \cup {-1} BY <1>3 DEF TypeInv, TypeOK
<1>5. Horizon = i BY <1>1 DEF Horizon
<1>6. Below /\ Carried BY <1>1 DEF SoundInv
<1>7. QED BY <1>1, <1>2, <1>3, <1>4, <1>5, <1>6

\* Where control can fall into i, the depth carried along is the annotation's.
LEMMA CarriedForced ==
  ASSUME TypeInv, SoundInv, Scanning, NEW D \in Annotations, Forced(D), reachable
  PROVE  cur = D[i]
<1>1. /\ i \in Indices(prog) /\ fn.start \in Nat /\ fn.end \in Nat
      /\ fn.start <= i /\ i < fn.end /\ Horizon = i
      /\ Op(prog, fn.start) = "ENTER"
      /\ \A k \in fn.start + 1 .. fn.end - 1 : Op(prog, k) # "ENTER"
      /\ Carried
  BY ScanningPlace
<1>2. CASE i = fn.start
  <2>1. D[i] = 0 BY <1>1, <1>2, AnnotationAt
  <2>2. QED BY <1>1, <1>2, <2>1 DEF Carried
<1>3. CASE i > fn.start
  <2>1. i - 1 \in Indices(prog) /\ (i - 1) + 1 = i BY <1>1, <1>3
  <2>2. Op(prog, i - 1) \notin Diverts /\ cur = After(prog, depth, i - 1)
    BY <1>1, <1>3 DEF Carried
  <2>3. Op(prog, i) # "ENTER" BY <1>1, <1>3
  <2>4. FallsInto(prog, i - 1) BY <1>1, <2>1, <2>2, <2>3 DEF FallsInto
  <2>5. D[i] = After(prog, D, i - 1) BY <2>1, <2>4, AnnotationAt
  <2>6. depth[i - 1] = D[i - 1] BY <1>1, <1>3 DEF Forced
  <2>7. QED BY <2>2, <2>5, <2>6 DEF After
<1>4. QED BY <1>1, <1>2, <1>3

\* The scan enters i with the annotation's depth.
LEMMA EntryForced ==
  ASSUME TypeInv, SoundInv, Scanning, NEW D \in Annotations, Forced(D)
  PROVE  EntryDepth = D[i] /\ ExitDepth = After(prog, D, i)
<1>1. /\ i \in Indices(prog) /\ fn.start \in Nat /\ fn.end \in Nat
      /\ fn.start <= i /\ i < fn.end /\ Horizon = i
      /\ \A k \in fn.start + 1 .. fn.end - 1 : Op(prog, k) # "ENTER"
      /\ Below /\ Carried
  BY ScanningPlace
<1>2. ASSUME expected[i] >= 0 PROVE EntryDepth = D[i]
  BY <1>1, <1>2 DEF EntryDepth, Forced
<1>3. ASSUME ~ (expected[i] >= 0), reachable PROVE EntryDepth = D[i]
  BY <1>3, CarriedForced DEF EntryDepth
<1>4. ASSUME ~ (expected[i] >= 0), ~ reachable PROVE EntryDepth = D[i]
  <2>1. i > fn.start BY <1>1, <1>4 DEF Carried
  <2>2. Op(prog, i - 1) \in Diverts BY <1>1, <1>4, <2>1 DEF Carried
  <2>3. ASSUME NEW k \in 0 .. i - 1, Op(prog, k) \in CondBranch, Arg(prog, k) = i
        PROVE  FALSE
    <3>1. expected[i] = After(prog, depth, k) BY <1>1, <2>3 DEF Below, BranchAgrees
    <3>2. depth[k] >= Pops(Op(prog, k)) BY <1>1 DEF Below, Settled
    <3>3. depth[k] \in Nat
      <4>1. depth \in [Indices(prog) -> Nat] BY DEF TypeInv, TypeOK
      <4>2. k \in Indices(prog) BY <1>1
      <4>3. QED BY <4>1, <4>2
    <3>4. QED BY <1>4, <3>1, <3>2, <3>3, StackEffect DEF After
  <2>4. Orphan(prog, i) BY <1>1, <2>1, <2>2, <2>3 DEF Orphan
  <2>5. D[i] = 0 BY <1>1, <2>4, AnnotationAt
  <2>6. QED BY <1>4, <2>5 DEF EntryDepth
<1>5. EntryDepth = D[i] BY <1>2, <1>3, <1>4
<1>6. QED BY <1>5 DEF ExitDepth, After

\* None of the checks of the scan fires.
LEMMA NoScanConflict ==
  ASSUME TypeInv, SoundInv, Scanning, NEW D \in Annotations, Forced(D)
  PROVE  ~ ScanConflict
<1>1. i \in Indices(prog) /\ Horizon = i BY ScanningPlace
<1>2. EntryDepth = D[i] /\ ExitDepth = After(prog, D, i) BY EntryForced
<1>3. /\ D[i] \in Nat /\ D[i] >= Pops(Op(prog, i)) /\ After(prog, D, i) <= MaxSlots
      /\ Op(prog, i) \in CondBranch => /\ SameFunction(prog, i, Arg(prog, i))
                                       /\ D[Arg(prog, i)] = After(prog, D, i)
  BY <1>1, AnnotationAt
<1>4. ~ MergeConflict BY <1>1, CarriedForced DEF MergeConflict, Forced
<1>5. ~ Underflow BY <1>2, <1>3, StackEffect DEF Underflow
<1>6. ~ Overflow
  <2>1. After(prog, D, i) \in Int BY <1>3, StackEffect DEF After
  <2>2. QED BY <1>2, <1>3, <2>1, MaxSlotsAssumption DEF Overflow
<1>7. ~ BranchConflict
  <2> DEFINE t == Arg(prog, i)
  <2> SUFFICES ASSUME Op(prog, i) \in CondBranch
               PROVE  IF expected[t] < 0 THEN ~ (t <= i /\ DepthNow[t] # ExitDepth)
                                         ELSE expected[t] = ExitDepth
    BY Zenon DEF BranchConflict
  <2>1. t \in Indices(prog) /\ D[t] = ExitDepth
    BY <1>2, <1>3 DEF SameFunction
  <2>2. ASSUME ~ (expected[t] < 0) PROVE expected[t] = ExitDepth
    <3>1. expected[t] \in Nat \cup {-1} BY <2>1 DEF TypeInv, TypeOK
    <3>2. expected[t] >= 0 BY <2>2, <3>1
    <3>3. QED BY <2>1, <3>2 DEF Forced
  <2>3. ASSUME t <= i PROVE DepthNow[t] = ExitDepth
    <3>1. DOMAIN depth = Indices(prog) BY DEF TypeInv, TypeOK
    <3>2. CASE t = i BY <1>1, <1>2, <2>1, <3>1, <3>2 DEF DepthNow
    <3>3. CASE t < i
      <4>1. DepthNow[t] = depth[t] BY <1>1, <2>1, <3>1, <3>3 DEF DepthNow
      <4>2. depth[t] = D[t] BY <1>1, <2>1, <3>3 DEF Forced
      <4>3. QED BY <2>1, <4>1, <4>2
    <3>4. QED BY <1>1, <2>1, <2>3, <3>2, <3>3
  <2>4. QED BY <2>2, <2>3
<1>8. QED BY <1>4, <1>5, <1>6, <1>7, Zenon DEF ScanConflict

\* One more iteration of the scan agrees with the annotation.
LEMMA ScanForced ==
  ASSUME TypeInv, SoundInv, ScanInsn, NEW D \in Annotations, Forced(D)
  PROVE  Forced(D)'
<1>1. /\ i \in Indices(prog) /\ Horizon = i /\ Horizon' = i + 1
      /\ prog' = prog /\ phase' = "scan"
  BY ScanPlace
<1>2. EntryDepth = D[i] /\ ExitDepth = After(prog, D, i)
  BY EntryForced DEF ScanInsn
<1>3. ASSUME NEW k \in 0 .. i PROVE depth'[k] = D[k]
  <2>1. CASE k = i BY <1>2, <2>1, ScanDepth
  <2>2. CASE k < i
    <3>1. depth[k] = D[k] BY <1>1, <2>2 DEF Forced
    <3>2. depth'[k] = depth[k] BY <1>1, <2>2, ScanDepth
    <3>3. QED BY <3>1, <3>2
  <2>3. QED BY <1>1, <2>1, <2>2
<1>4. ASSUME NEW t \in Indices(prog), expected'[t] >= 0 PROVE expected'[t] = D[t]
  <2>1. CASE expected'[t] = expected[t] BY <1>4, <2>1 DEF Forced
  <2>2. CASE /\ Op(prog, i) \in CondBranch /\ t = Arg(prog, i)
             /\ expected'[t] = ExitDepth
    BY <1>1, <1>2, <2>2, AnnotationAt
  <2>3. QED BY <2>1, <2>2, ScanExpected
<1>5. QED BY <1>1, <1>3, <1>4 DEF Forced

\* Every other step leaves what the annotation forces alone.
LEMMA ForcedKept ==
  ASSUME NEW D, Forced(D), phase' # "rejected", Horizon' = Horizon,
         UNCHANGED <<prog, depth, expected>>
  PROVE  Forced(D)'
BY DEF Forced

LEMMA InitCompleteInv == Init => CompleteInv
<1> SUFFICES ASSUME Init, NEW D \in Annotations PROVE Forced(D) BY DEF CompleteInv
<1>1. phase = "find" /\ Horizon = 0 BY DEF Init, Horizon
<1>2. \A t \in Indices(prog) : ~ (expected[t] >= 0) BY DEF Init
<1>3. QED BY <1>1, <1>2 DEF Forced

LEMMA NextCompleteInv ==
  TypeInv /\ SoundInv /\ CompleteInv /\ [Next]_vars => CompleteInv'
<1> SUFFICES ASSUME TypeInv, SoundInv, CompleteInv, [Next]_vars PROVE CompleteInv'
  OBVIOUS
<1>1. prog' = prog
  BY DEF Next, FindFunctions, RejectNoEnter, CollectTargets, RejectTarget, ScanInsn,
         RejectScan, EndScan, MarkLeader, NextFunction, Reject, vars
<1>2. Annotations' = Annotations
  BY <1>1 DEF Annotations, ConsistentDepths, SameFunction, FallsInto, Orphan, After, Op, Arg
<1>3. Op(prog, 0)' = Op(prog, 0) BY <1>1 DEF Op
<1> SUFFICES ASSUME Op(prog, 0) = "ENTER", NEW D \in Annotations PROVE Forced(D)'
  BY <1>2, <1>3 DEF CompleteInv
<1>4. Forced(D) BY DEF CompleteInv
<1>5. phase # "rejected" BY <1>4 DEF Forced
<1>6. CASE FindFunctions \/ CollectTargets \/ EndScan \/ MarkLeader \/ NextFunction
  <2>1. Horizon' = Horizon BY <1>5, <1>6, HorizonStays
  <2>2. UNCHANGED <<prog, depth, expected>> /\ phase' # "rejected"
    BY <1>6 DEF FindFunctions, CollectTargets, EndScan, MarkLeader, NextFunction,
                BeginFunction
  <2>3. QED BY <1>4, <2>1, <2>2, ForcedKept
<1>7. CASE ScanInsn BY <1>4, <1>7, ScanForced
<1>8. CASE RejectNoEnter BY <1>8 DEF RejectNoEnter
<1>9. CASE RejectTarget BY <1>9, TargetsForced DEF RejectTarget
<1>10. CASE RejectScan BY <1>4, <1>10, NoScanConflict DEF RejectScan
<1>11. CASE UNCHANGED vars
  <2>1. /\ Horizon' = Horizon /\ phase' # "rejected"
        /\ UNCHANGED <<prog, depth, expected>>
    BY <1>5, <1>11 DEF vars, Horizon
  <2>2. QED BY <1>4, <2>1, ForcedKept
<1>12. QED BY <1>6, <1>7, <1>8, <1>9, <1>10, <1>11 DEF Next

\* The analysis refuses only programs no operand depths fit: for every program
\* and every stack size, what a compiler can annotate is translated.
THEOREM Completeness == Spec => []NoFalseRejection
<1>1. Init => TypeInv /\ SoundInv /\ CompleteInv
  BY InitTypeInv, InitSoundInv, InitCompleteInv
<1>2. (TypeInv /\ SoundInv /\ CompleteInv) /\ [Next]_vars
        => (TypeInv /\ SoundInv /\ CompleteInv)'
  BY NextTypeInv, NextSoundInv, NextCompleteInv
<1>3. CompleteInv => NoFalseRejection
  BY DEF CompleteInv, NoFalseRejection, Annotations, Forced
<1>4. QED BY <1>1, <1>2, <1>3, PTL DEF Spec

-----------------------------------------------------------------------------
(* What the emitter is handed: functions that tile the program, enough     *)
(* locals for each, and branch tables that are complete and without gaps.   *)

(***************************************************************************)
(* What a function record promises about its own instructions.  It speaks  *)
(* of depths D and leaders L on the extent only, so it outlives every step *)
(* that works on another function.                                         *)
(***************************************************************************)
Tiled(p, f) ==
  /\ f.start < f.end /\ f.end <= Len(p)
  /\ \A k \in Extent(f) : Op(p, k) = "ENTER" <=> k = f.start

Bounded(p, D, max, k) == D[k] <= max /\ After(p, D, k) <= max

\* All numbers below n are given to leaders of the interval from s to k - 1.
Numbered(L, s, k, n) == \A m \in 0 .. n - 1 : \E j \in s .. k - 1 : L[j] = m

Finished(p, D, L, f) ==
  /\ Tiled(p, f)
  /\ \A k \in Extent(f) : Bounded(p, D, f.maxDepth, k)
  /\ \A k \in Extent(f) : L[k] >= 0 => Numbered(L, f.start, k, L[k])
  /\ \A j, k \in Extent(f) : Op(p, j) = "JUMP" /\ D[k] = 0 => L[k] >= 0

FinishedInv ==
  \A f \in 1 .. Len(funcs) :
    /\ Finished(prog, depth, leader, funcs[f])
    /\ funcs[f].start = IF f = 1 THEN 0 ELSE funcs[f - 1].end

\* The function at hand continues where the finished ones end.
Working == phase \in {"collect", "scan", "leaders"}

PlaceInv ==
  /\ phase = "find" => funcs = <<>>
  /\ Working => /\ fn.start = IF funcs = <<>> THEN 0 ELSE funcs[Len(funcs)].end
                /\ \A f \in 1 .. Len(funcs) : funcs[f].end <= fn.start
  /\ phase = "done" => funcs # <<>> /\ funcs[Len(funcs)].end = N

\* Locals of the part that is scanned, leaders of the part that is marked.
Scanned == IF phase = "scan" THEN i ELSE fn.end
Marked  == IF phase = "leaders" THEN i ELSE IF phase = "done" THEN N
           ELSE IF phase = "find" THEN 0 ELSE fn.start

LocalsInv ==
  phase \in {"scan", "leaders"} =>
    \A k \in fn.start .. Scanned - 1 : Bounded(prog, depth, fn.maxDepth, k)

JumpInv ==
  phase \in {"scan", "leaders"} => hasJump = (\E k \in Extent(fn) : Op(prog, k) = "JUMP")

NumberInv ==
  phase = "leaders" =>
    /\ Numbered(leader, fn.start, i, region)
    /\ \A k \in fn.start .. i - 1 :
         /\ leader[k] >= 0 => Numbered(leader, fn.start, k, leader[k])
         /\ IsLeader(k) => leader[k] >= 0

UnmarkedInv ==
  phase # "rejected" => \A k \in Indices(prog) : k >= Marked => leader[k] = -1

TargetInv ==
  Working \/ phase = "done" =>
    \A k \in 0 .. Marked - 1 : expected[k] >= 0 => leader[k] >= 0

EmitInv ==
  FinishedInv /\ PlaceInv /\ LocalsInv /\ JumpInv /\ NumberInv /\ UnmarkedInv /\ TargetInv

-----------------------------------------------------------------------------
(* The parts that no step but a few disturbs.                              *)

LEMMA FinishedKept ==
  ASSUME NEW p, NEW D, NEW L, NEW E, NEW M, NEW f,
         Finished(p, D, L, f),
         f.start \in Nat, f.end \in Nat,
         \A k \in Extent(f) : E[k] = D[k] /\ M[k] = L[k]
  PROVE  Finished(p, E, M, f)
<1>1. Tiled(p, f) BY DEF Finished
<1>2. \A k \in Extent(f) : Bounded(p, E, f.maxDepth, k)
  BY DEF Finished, Bounded, After
<1>3. ASSUME NEW k \in Extent(f), M[k] >= 0 PROVE Numbered(M, f.start, k, M[k])
  <2>1. Numbered(L, f.start, k, L[k]) /\ M[k] = L[k] BY <1>3 DEF Finished
  <2>2. \A j \in f.start .. k - 1 : j \in Extent(f) BY DEF Extent
  <2>3. QED BY <2>1, <2>2 DEF Numbered
<1>4. \A j, k \in Extent(f) : Op(p, j) = "JUMP" /\ E[k] = 0 => M[k] >= 0
  BY DEF Finished
<1>5. QED BY <1>1, <1>2, <1>3, <1>4 DEF Finished

\* The function at hand, in every phase that works on one.
LEMMA AtHand ==
  ASSUME TypeInv, HasFunction
  PROVE  /\ fn.start \in Nat /\ fn.end \in Nat /\ N \in Nat
         /\ fn.start < fn.end /\ fn.end <= N
         /\ Extent(fn) \subseteq Indices(prog)
         /\ Tiled(prog, fn)
<1>1. /\ fn.start \in Nat /\ fn.end \in Nat /\ N \in Nat
      /\ fn.start < fn.end /\ fn.end <= N
      /\ Op(prog, fn.start) = "ENTER"
      /\ \A k \in fn.start + 1 .. fn.end - 1 : Op(prog, k) # "ENTER"
  BY ProgLength DEF TypeInv, TypeOK, FuncRecord, CurrentFunction, HasFunction, EndsFunction
<1>2. \A k \in Extent(fn) : Op(prog, k) = "ENTER" <=> k = fn.start
  <2> SUFFICES ASSUME NEW k \in Extent(fn) PROVE Op(prog, k) = "ENTER" <=> k = fn.start
    OBVIOUS
  <2>1. k \in fn.start .. fn.end - 1 BY DEF Extent
  <2>2. k = fn.start \/ k \in fn.start + 1 .. fn.end - 1 BY <1>1, <2>1
  <2>3. fn.start \notin fn.start + 1 .. fn.end - 1 BY <1>1
  <2>4. QED BY <1>1, <2>2, <2>3
<1>3. Extent(fn) \subseteq Indices(prog) BY <1>1 DEF Extent
<1>4. QED BY <1>1, <1>2, <1>3 DEF Tiled

LEMMA FuncTypes ==
  ASSUME TypeInv, NEW f \in 1 .. Len(funcs)
  PROVE  funcs[f].start \in Nat /\ funcs[f].end \in Nat /\ funcs[f].maxDepth \in Nat
<1>1. funcs \in Seq(FuncRecord) BY DEF TypeInv, TypeOK
<1>2. funcs[f] \in FuncRecord BY <1>1
<1>3. QED BY <1>2 DEF FuncRecord

\* Depths and leaders of finished functions do not change.
LEMMA FinishedInvKept ==
  ASSUME TypeInv, FinishedInv, UNCHANGED <<prog, funcs>>,
         \A f \in 1 .. Len(funcs) : \A k \in Extent(funcs[f]) :
           depth'[k] = depth[k] /\ leader'[k] = leader[k]
  PROVE  FinishedInv'
<1> SUFFICES ASSUME NEW f \in 1 .. Len(funcs)
             PROVE  Finished(prog', depth', leader', funcs'[f])
  BY DEF FinishedInv
<1>1. Finished(prog, depth, leader, funcs[f]) BY DEF FinishedInv
<1>2. funcs[f].start \in Nat /\ funcs[f].end \in Nat BY FuncTypes
<1>3. Finished(prog, depth', leader', funcs[f]) BY <1>1, <1>2, FinishedKept
<1>4. QED BY <1>3

-----------------------------------------------------------------------------
(* The initial state and the steps.                                        *)

LEMMA InitEmitInv == Init => EmitInv
<1> SUFFICES ASSUME Init PROVE EmitInv OBVIOUS
<1>1. phase = "find" /\ funcs = <<>> BY DEF Init
<1>2. Len(funcs) = 0 BY <1>1
<1>3. FinishedInv BY <1>2 DEF FinishedInv
<1>4. PlaceInv BY <1>1 DEF PlaceInv, Working
<1>5. LocalsInv /\ JumpInv /\ NumberInv /\ TargetInv
  BY <1>1 DEF LocalsInv, JumpInv, NumberInv, TargetInv, Working
<1>6. UnmarkedInv BY DEF Init, UnmarkedInv
<1>7. QED BY <1>3, <1>4, <1>5, <1>6 DEF EmitInv

LEMMA FindEmits ==
  ASSUME TypeInv, EmitInv, FindFunctions PROVE EmitInv'
<1>1. /\ UNCHANGED <<prog, funcs, hasJump, i, depth, expected, leader>>
      /\ phase = "find" /\ phase' = "collect" /\ fn'.start = 0
  BY DEF FindFunctions, BeginFunction
<1>2. FinishedInv' BY <1>1, FinishedInvKept DEF EmitInv
<1>3. funcs = <<>> BY <1>1 DEF EmitInv, PlaceInv
<1>4. PlaceInv' BY <1>1, <1>3 DEF PlaceInv, Working
<1>5. TargetInv' BY <1>1 DEF TargetInv, Marked
<1>6. UnmarkedInv' BY <1>1 DEF EmitInv, UnmarkedInv, Marked
<1>7. QED BY <1>1, <1>2, <1>4, <1>5, <1>6 DEF EmitInv, LocalsInv, JumpInv, NumberInv

LEMMA CollectEmits ==
  ASSUME TypeInv, EmitInv, CollectTargets PROVE EmitInv'
<1>1. /\ UNCHANGED <<prog, funcs, fn, depth, expected, leader>>
      /\ phase = "collect" /\ phase' = "scan" /\ i' = fn.start
      /\ hasJump' = (\E k \in Extent(fn) : Op(prog, k) = "JUMP")
  BY DEF CollectTargets
<1>2. FinishedInv' BY <1>1, FinishedInvKept DEF EmitInv
<1>3. PlaceInv' BY <1>1 DEF EmitInv, PlaceInv, Working
<1>4. JumpInv' BY <1>1 DEF JumpInv, Extent, Op
<1>5. LocalsInv'
  <2>1. fn.start \in Nat BY <1>1, AtHand DEF HasFunction
  <2>2. QED BY <1>1, <2>1 DEF LocalsInv, Scanned
<1>6. TargetInv' BY <1>1 DEF EmitInv, TargetInv, Marked, Working
<1>7. UnmarkedInv' BY <1>1 DEF EmitInv, UnmarkedInv, Marked
<1>8. QED BY <1>1, <1>2, <1>3, <1>4, <1>5, <1>6, <1>7 DEF EmitInv, NumberInv

\* The scan grows maxDepth with both depths of the instruction, and assigns
\* depths and expectations of the function at hand only.
LEMMA ScanEmits ==
  ASSUME TypeInv, SoundInv, EmitInv, ScanInsn PROVE EmitInv'
<1>1. /\ UNCHANGED <<prog, phase, funcs, hasJump, leader>>
      /\ phase = "scan" /\ i' = i + 1
      /\ fn' = [fn EXCEPT !.maxDepth = Max3(@, EntryDepth, ExitDepth)]
  BY DEF ScanInsn, Scanning
<1>2. /\ i \in Indices(prog) /\ fn.start \in Nat /\ fn.end \in Nat /\ fn.start <= i
      /\ fn'.start = fn.start /\ fn'.end = fn.end
  BY ScanPlace
<1>3. \A f \in 1 .. Len(funcs) : funcs[f].end <= fn.start
  BY <1>1 DEF EmitInv, PlaceInv, Working
<1>4. FinishedInv'
  <2> SUFFICES ASSUME NEW f \in 1 .. Len(funcs), NEW k \in Extent(funcs[f])
               PROVE  depth'[k] = depth[k]
    BY <1>1, FinishedInvKept DEF EmitInv
  <2>1. funcs[f].start \in Nat /\ funcs[f].end \in Nat BY FuncTypes
  <2>2. funcs[f].end <= N BY DEF EmitInv, FinishedInv, Finished, Tiled
  <2>3. k \in 0 .. funcs[f].end - 1 BY <2>1 DEF Extent
  <2>4. k \in Indices(prog) /\ k # i BY <1>2, <1>3, <2>1, <2>2, <2>3
  <2>5. QED BY <2>4, ScanDepth
<1>5. PlaceInv' BY <1>1, <1>2 DEF EmitInv, PlaceInv, Working
<1>6. LocalsInv'
  <2>1. EntryDepth \in Nat /\ ExitDepth \in Nat BY ScanDepth
  <2>2. fn.maxDepth \in Nat BY DEF TypeInv, TypeOK, FuncRecord
  <2>3. fn'.maxDepth = Max3(fn.maxDepth, EntryDepth, ExitDepth)
    BY <1>1 DEF TypeInv, TypeOK, FuncRecord
  <2>4. /\ fn'.maxDepth \in Nat /\ fn.maxDepth <= fn'.maxDepth
        /\ EntryDepth <= fn'.maxDepth /\ ExitDepth <= fn'.maxDepth
    BY <2>1, <2>2, <2>3 DEF Max3
  <2>5. ASSUME NEW k \in fn.start .. i PROVE Bounded(prog, depth', fn'.maxDepth, k)
    <3>1. CASE k = i BY <2>4, <3>1, ScanDepth DEF Bounded
    <3>2. CASE k # i
      <4>1. k \in fn.start .. i - 1 /\ k \in Indices(prog) BY <1>2, <3>2
      <4>2. Bounded(prog, depth, fn.maxDepth, k)
        BY <1>1, <4>1 DEF EmitInv, LocalsInv, Scanned
      <4>3. depth[k] \in Nat BY <4>1 DEF TypeInv, TypeOK
      <4>4. depth'[k] = depth[k] BY <3>2, <4>1, ScanDepth
      <4>5. QED BY <2>2, <2>4, <4>2, <4>3, <4>4, StackEffect DEF Bounded, After
    <3>3. QED BY <3>1, <3>2
  <2>6. Scanned' - 1 = i BY <1>1, <1>2 DEF Scanned
  <2>7. QED BY <1>1, <1>2, <2>5, <2>6 DEF LocalsInv
<1>7. JumpInv' BY <1>1, <1>2 DEF EmitInv, JumpInv, Extent, Op
<1>8. TargetInv'
  <2> SUFFICES ASSUME NEW k \in 0 .. fn.start - 1, expected'[k] >= 0 PROVE leader[k] >= 0
    BY <1>1, <1>2 DEF TargetInv, Marked
  <2>1. k \in Indices(prog) BY <1>2
  <2>2. expected'[k] = expected[k]
    <3>1. ~ (Op(prog, i) \in CondBranch /\ k = Arg(prog, i))
      <4>1. k \notin Extent(fn) BY <1>2 DEF Extent
      <4>2. QED BY <4>1, ScanBranch
    <3>2. QED BY <2>1, <3>1, ScanExpected
  <2>3. QED BY <1>1, <2>2 DEF EmitInv, TargetInv, Marked, Working
<1>9. UnmarkedInv' BY <1>1, <1>2 DEF EmitInv, UnmarkedInv, Marked
<1>10. QED BY <1>1, <1>4, <1>5, <1>6, <1>7, <1>8, <1>9 DEF EmitInv, NumberInv

LEMMA EndScanEmits ==
  ASSUME TypeInv, EmitInv, EndScan PROVE EmitInv'
<1>1. /\ UNCHANGED <<prog, funcs, fn, hasJump, depth, expected, leader>>
      /\ phase = "scan" /\ i = fn.end
      /\ phase' = "leaders" /\ i' = fn.start /\ region' = 0
  BY DEF EndScan
<1>2. FinishedInv' BY <1>1, FinishedInvKept DEF EmitInv
<1>3. PlaceInv' BY <1>1 DEF EmitInv, PlaceInv, Working
<1>4. LocalsInv' BY <1>1 DEF EmitInv, LocalsInv, Scanned, Bounded, After, Op
<1>5. JumpInv' BY <1>1 DEF EmitInv, JumpInv, Extent, Op
<1>6. NumberInv'
  <2>1. fn.start \in Nat BY <1>1, AtHand DEF HasFunction
  <2>2. QED BY <1>1, <2>1 DEF NumberInv, Numbered
<1>7. TargetInv' BY <1>1 DEF EmitInv, TargetInv, Marked, Working
<1>8. UnmarkedInv' BY <1>1 DEF EmitInv, UnmarkedInv, Marked
<1>9. QED BY <1>2, <1>3, <1>4, <1>5, <1>6, <1>7, <1>8 DEF EmitInv

\* A leader gets the next number, and every number below it is taken.
LEMMA MarkEmits ==
  ASSUME TypeInv, EmitInv, MarkLeader PROVE EmitInv'
<1>1. /\ UNCHANGED <<prog, phase, funcs, fn, hasJump, depth, expected>>
      /\ phase = "leaders" /\ i < fn.end /\ i' = i + 1
  BY DEF MarkLeader
<1>2. /\ fn.start \in Nat /\ fn.end \in Nat /\ fn.end <= N /\ N \in Nat
      /\ i \in Nat /\ fn.start <= i /\ i \in Indices(prog)
  <2>1. /\ fn.start \in Nat /\ fn.end \in Nat /\ fn.end <= N /\ N \in Nat
    BY <1>1, AtHand DEF HasFunction
  <2>2. i \in 0 .. N /\ fn.start <= i BY <1>1 DEF TypeInv, TypeOK, IndexInside
  <2>3. QED BY <1>1, <2>1, <2>2
<1>3. leader \in [Indices(prog) -> Nat \cup {-1}] /\ region \in Nat
  BY DEF TypeInv, TypeOK
<1>4. \A k \in Indices(prog) : k # i => leader'[k] = leader[k]
  BY <1>2, <1>3 DEF MarkLeader
<1>5. \/ IsLeader(i) /\ leader'[i] = region /\ region' = region + 1
      \/ ~ IsLeader(i) /\ leader' = leader /\ region' = region
  BY <1>2, <1>3 DEF MarkLeader
<1>6. FinishedInv'
  <2> SUFFICES ASSUME NEW f \in 1 .. Len(funcs), NEW k \in Extent(funcs[f])
               PROVE  leader'[k] = leader[k]
    BY <1>1, FinishedInvKept DEF EmitInv
  <2>1. funcs[f].start \in Nat /\ funcs[f].end \in Nat BY FuncTypes
  <2>2. funcs[f].end <= fn.start BY <1>1 DEF EmitInv, PlaceInv, Working
  <2>3. k \in Indices(prog) /\ k # i BY <1>2, <2>1, <2>2 DEF Extent
  <2>4. QED BY <1>4, <2>3
<1>7. PlaceInv' BY <1>1 DEF EmitInv, PlaceInv, Working
<1>8. LocalsInv' BY <1>1 DEF EmitInv, LocalsInv, Scanned, Bounded, After, Op
<1>9. JumpInv' BY <1>1 DEF EmitInv, JumpInv, Extent, Op
<1>10. NumberInv
  BY DEF EmitInv
<1>11. \A k \in fn.start .. i - 1 : k \in Indices(prog) /\ leader'[k] = leader[k]
  BY <1>2, <1>4
<1>12. \A k \in fn.start .. i : \A m :
         Numbered(leader, fn.start, k, m) => Numbered(leader', fn.start, k, m)
  BY <1>2, <1>11 DEF Numbered
<1>13. Numbered(leader', fn.start, i + 1, region')
  <2>1. Numbered(leader', fn.start, i, region) BY <1>1, <1>2, <1>10, <1>12 DEF NumberInv
  <2>2. QED BY <1>2, <1>3, <1>5, <2>1 DEF Numbered
<1>14. ASSUME NEW k \in fn.start .. i
       PROVE  /\ leader'[k] >= 0 => Numbered(leader', fn.start, k, leader'[k])
              /\ IsLeader(k) => leader'[k] >= 0
  <2>1. CASE k = i
    <3>1. Numbered(leader, fn.start, i, region) BY <1>1, <1>10 DEF NumberInv
    <3>2. CASE IsLeader(i) BY <1>2, <1>3, <1>5, <1>12, <2>1, <3>1, <3>2
    <3>3. CASE ~ IsLeader(i)
      <4>1. leader[i] = -1 BY <1>1, <1>2 DEF EmitInv, UnmarkedInv, Marked
      <4>2. QED BY <1>5, <2>1, <3>3, <4>1
    <3>4. QED BY <3>2, <3>3
  <2>2. CASE k # i
    <3>1. k \in fn.start .. i - 1 BY <1>2, <2>2
    <3>2. /\ leader[k] >= 0 => Numbered(leader, fn.start, k, leader[k])
          /\ IsLeader(k) => leader[k] >= 0
      BY <1>1, <1>10, <3>1 DEF NumberInv
    <3>3. QED BY <1>11, <1>12, <3>1, <3>2
  <2>3. QED BY <2>1, <2>2
<1>15. NumberInv'
  <2>1. \A k \in fn.start .. i : IsLeader(k)' = IsLeader(k) BY <1>1 DEF IsLeader
  <2>2. QED BY <1>1, <1>2, <1>13, <1>14, <2>1 DEF NumberInv
<1>16. UnmarkedInv' BY <1>1, <1>2, <1>4 DEF EmitInv, UnmarkedInv, Marked
<1>17. TargetInv'
  <2> SUFFICES ASSUME NEW k \in 0 .. i, expected[k] >= 0 PROVE leader'[k] >= 0
    BY <1>1, <1>2 DEF TargetInv, Marked
  <2>1. CASE k = i BY <1>2, <1>14, <2>1 DEF IsLeader
  <2>2. CASE k # i
    <3>1. k \in 0 .. i - 1 /\ k \in Indices(prog) BY <1>2, <2>2
    <3>2. leader[k] >= 0 BY <1>1, <3>1 DEF EmitInv, TargetInv, Marked, Working
    <3>3. QED BY <1>4, <2>2, <3>1, <3>2
  <2>3. QED BY <2>1, <2>2
<1>18. QED BY <1>6, <1>7, <1>8, <1>9, <1>15, <1>16, <1>17 DEF EmitInv

\* The function handed over has every promise of its record kept.
LEMMA Handover ==
  ASSUME TypeInv, EmitInv, phase = "leaders", i = fn.end
  PROVE  Finished(prog, depth, leader, fn)
<1>1. /\ fn.start \in Nat /\ fn.end \in Nat /\ Extent(fn) = fn.start .. i - 1
      /\ Extent(fn) \subseteq Indices(prog) /\ Tiled(prog, fn)
  BY AtHand DEF HasFunction, Extent
<1>2. \A k \in Extent(fn) : Bounded(prog, depth, fn.maxDepth, k)
  BY <1>1 DEF EmitInv, LocalsInv, Scanned
<1>3. \A k \in Extent(fn) : leader[k] >= 0 => Numbered(leader, fn.start, k, leader[k])
  BY <1>1 DEF EmitInv, NumberInv
<1>4. ASSUME NEW j \in Extent(fn), NEW k \in Extent(fn), Op(prog, j) = "JUMP", depth[k] = 0
      PROVE  leader[k] >= 0
  <2>1. hasJump BY <1>4 DEF EmitInv, JumpInv
  <2>2. IsLeader(k) BY <1>4, <2>1 DEF IsLeader
  <2>3. QED BY <1>1, <2>2 DEF EmitInv, NumberInv
<1>5. QED BY <1>1, <1>2, <1>3, <1>4 DEF Finished

LEMMA NextFunctionEmits ==
  ASSUME TypeInv, EmitInv, NextFunction PROVE EmitInv'
<1>1. /\ UNCHANGED <<prog, depth, expected, leader>>
      /\ phase = "leaders" /\ i = fn.end /\ funcs' = Append(funcs, fn)
  BY DEF NextFunction
<1>2. \/ fn.end = N /\ phase' = "done" /\ fn' = fn
      \/ phase' = "collect" /\ fn'.start = fn.end
  BY DEF NextFunction, BeginFunction
<1>3. funcs \in Seq(FuncRecord) /\ Len(funcs) \in Nat BY DEF TypeInv, TypeOK
<1>4. /\ Len(funcs') = Len(funcs) + 1 /\ funcs' # <<>>
      /\ funcs'[Len(funcs) + 1] = fn
      /\ \A f \in 1 .. Len(funcs) : funcs'[f] = funcs[f]
  BY <1>1, <1>3
<1>5. /\ fn.start \in Nat /\ fn.end \in Nat /\ N \in Nat /\ fn.start < fn.end
      /\ fn.start = IF funcs = <<>> THEN 0 ELSE funcs[Len(funcs)].end
      /\ \A f \in 1 .. Len(funcs) : funcs[f].end <= fn.start
  BY <1>1, AtHand DEF HasFunction, EmitInv, PlaceInv, Working
<1>6. FinishedInv'
  <2> SUFFICES ASSUME NEW f \in 1 .. Len(funcs) + 1
               PROVE  /\ Finished(prog, depth, leader, funcs'[f])
                      /\ funcs'[f].start = IF f = 1 THEN 0 ELSE funcs'[f - 1].end
    BY <1>1, <1>4 DEF FinishedInv
  <2>1. CASE f = Len(funcs) + 1
    <3>1. Finished(prog, depth, leader, funcs'[f]) BY <1>1, <1>4, <2>1, Handover
    <3>2. CASE funcs = <<>> BY <1>4, <1>5, <2>1, <3>1, <3>2
    <3>3. CASE funcs # <<>>
      <4>1. Len(funcs) # 0 BY <1>3, <3>3
      <4>2. QED BY <1>3, <1>4, <1>5, <2>1, <3>1, <3>3, <4>1
    <3>4. QED BY <3>2, <3>3
  <2>2. CASE f # Len(funcs) + 1
    <3>1. f \in 1 .. Len(funcs) BY <1>3, <2>2
    <3>2. f # 1 => f - 1 \in 1 .. Len(funcs) BY <1>3, <3>1
    <3>3. QED BY <1>4, <3>1, <3>2 DEF EmitInv, FinishedInv
  <2>3. QED BY <2>1, <2>2
<1>7. PlaceInv'
  <2>1. ASSUME NEW f \in 1 .. Len(funcs) + 1 PROVE funcs'[f].end <= fn.end
    <3>1. CASE f = Len(funcs) + 1 BY <1>4, <1>5, <3>1
    <3>2. CASE f # Len(funcs) + 1
      <4>1. f \in 1 .. Len(funcs) BY <1>3, <3>2
      <4>2. funcs[f].end \in Nat BY <4>1, FuncTypes
      <4>3. QED BY <1>4, <1>5, <4>1, <4>2
    <3>3. QED BY <3>1, <3>2
  <2>2. QED BY <1>1, <1>2, <1>4, <2>1 DEF PlaceInv, Working
<1>8. UnmarkedInv' BY <1>1, <1>2 DEF EmitInv, UnmarkedInv, Marked
<1>9. TargetInv' BY <1>1, <1>2 DEF EmitInv, TargetInv, Marked, Working
<1>10. QED
  BY <1>2, <1>6, <1>7, <1>8, <1>9 DEF EmitInv, LocalsInv, JumpInv, NumberInv

\* A rejection leaves the finished functions as they are.
LEMMA RejectEmits ==
  ASSUME TypeInv, EmitInv, Reject PROVE EmitInv'
<1>1. UNCHANGED <<prog, funcs, depth, leader>> /\ phase' = "rejected" BY DEF Reject
<1>2. FinishedInv' BY <1>1, FinishedInvKept DEF EmitInv
<1>3. QED
  BY <1>1, <1>2 DEF EmitInv, PlaceInv, LocalsInv, JumpInv, NumberInv, UnmarkedInv,
                    TargetInv, Working

LEMMA NextEmitInv == TypeInv /\ SoundInv /\ EmitInv /\ [Next]_vars => EmitInv'
<1> SUFFICES ASSUME TypeInv, SoundInv, EmitInv, [Next]_vars PROVE EmitInv' OBVIOUS
<1>1. CASE FindFunctions BY <1>1, FindEmits
<1>2. CASE CollectTargets BY <1>2, CollectEmits
<1>3. CASE ScanInsn BY <1>3, ScanEmits
<1>4. CASE EndScan BY <1>4, EndScanEmits
<1>5. CASE MarkLeader BY <1>5, MarkEmits
<1>6. CASE NextFunction BY <1>6, NextFunctionEmits
<1>7. CASE RejectNoEnter \/ RejectTarget \/ RejectScan
  BY <1>7, RejectEmits DEF RejectNoEnter, RejectTarget, RejectScan
<1>8. CASE UNCHANGED vars
  <2>1. UNCHANGED <<prog, phase, funcs, fn, hasJump, i, depth, expected, leader, region>>
    BY <1>8 DEF vars
  <2>2. FinishedInv' BY <2>1, FinishedInvKept DEF EmitInv
  <2>3. PlaceInv' BY <2>1 DEF EmitInv, PlaceInv, Working
  <2>4. LocalsInv' BY <2>1 DEF EmitInv, LocalsInv, Scanned, Bounded, After, Op
  <2>5. JumpInv' BY <2>1 DEF EmitInv, JumpInv, Extent, Op
  <2>6. NumberInv' BY <2>1 DEF EmitInv, NumberInv, Numbered, IsLeader
  <2>7. UnmarkedInv' BY <2>1 DEF EmitInv, UnmarkedInv, Marked
  <2>8. TargetInv' BY <2>1 DEF EmitInv, TargetInv, Marked, Working
  <2>9. QED BY <2>2, <2>3, <2>4, <2>5, <2>6, <2>7, <2>8 DEF EmitInv
<1>9. QED BY <1>1, <1>2, <1>3, <1>4, <1>5, <1>6, <1>7, <1>8 DEF Next

LEMMA ReadyAtAnyTime == TypeInv /\ SoundInv /\ EmitInv => EmissionReady
<1> SUFFICES ASSUME TypeInv, SoundInv, EmitInv PROVE EmissionReady OBVIOUS
<1>1. \A f \in 1 .. Len(funcs) :
        /\ Finished(prog, depth, leader, funcs[f])
        /\ funcs[f].start = IF f = 1 THEN 0 ELSE funcs[f - 1].end
  BY DEF EmitInv, FinishedInv
<1>2. FunctionsTile
  BY <1>1 DEF FunctionsTile, Finished, Tiled, EmitInv, PlaceInv
<1>3. LocalsDeclared BY <1>1 DEF LocalsDeclared, Finished, Bounded
<1>4. LeadersDense BY <1>1 DEF LeadersDense, Finished, Numbered
<1>5. ASSUME phase = "done", NEW k \in Indices(prog), Op(prog, k) \in CondBranch
      PROVE  leader[Arg(prog, k)] >= 0
  <2>1. Below /\ Horizon = N /\ N \in Nat
    BY <1>5, ProgLength DEF SoundInv, Horizon, TypeInv
  <2>2. /\ Arg(prog, k) \in Indices(prog)
        /\ expected[Arg(prog, k)] = After(prog, depth, k)
    BY <1>5, <2>1 DEF Below, BranchAgrees, SameFunction
  <2>3. After(prog, depth, k) >= 0
    <3>1. depth[k] \in Nat BY DEF TypeInv, TypeOK
    <3>2. depth[k] >= Pops(Op(prog, k)) BY <2>1 DEF Below, Settled
    <3>3. QED BY <3>1, <3>2, StackEffect DEF After
  <2>4. QED BY <1>5, <2>1, <2>2, <2>3 DEF EmitInv, TargetInv, Marked
<1>6. LeadersComplete BY <1>1, <1>5 DEF LeadersComplete, Finished
<1>7. QED BY <1>2, <1>3, <1>4, <1>6 DEF EmissionReady

\* What the emitter builds from the analysis is right for every program and every
\* stack size: the functions found tile the code from its first OP_ENTER to its
\* end, each has a local for every slot its instructions touch, and its branch
\* table numbers, without gaps, every place a branch or a computed jump can enter.
THEOREM ReadyToEmit == Spec => []EmissionReady
<1>1. Init => TypeInv /\ SoundInv /\ EmitInv
  BY InitTypeInv, InitSoundInv, InitEmitInv
<1>2. (TypeInv /\ SoundInv /\ EmitInv) /\ [Next]_vars => (TypeInv /\ SoundInv /\ EmitInv)'
  BY NextTypeInv, NextSoundInv, NextEmitInv
<1>3. TypeInv /\ SoundInv /\ EmitInv => EmissionReady BY ReadyAtAnyTime
<1>4. QED BY <1>1, <1>2, <1>3, PTL DEF Spec
=============================================================================
