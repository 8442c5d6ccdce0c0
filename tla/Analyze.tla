------------------------------- MODULE Analyze ------------------------------
(***************************************************************************)
(* Passes 2 and 3 of the translator: wasm.c find_functions and             *)
(* analyze_function, driven by the loop of QVM2WASM_Compile.  One step per *)
(* iteration of the forward scan and of the leader loop, because those     *)
(* loops read what earlier iterations left in depth, expected and region.  *)
(*                                                                         *)
(* A definition whose name begins with Bug is a slip the code could have   *)
(* had.  The specification does not use it; it replaces the definition     *)
(* below it in a mutation run, which a property has to notice.             *)
(***************************************************************************)
EXTENDS QvmIsa

CONSTANTS
  Programs,  \* the instruction streams expand_code can hand over
  MaxSlots   \* OPSTACK_SIZE / 4, operands per function the scan admits

ASSUME ProgramsAssumption ==
  /\ Programs \subseteq Seq(Insn)
  /\ \A p \in Programs : Len(p) > 0
ASSUME MaxSlotsAssumption == MaxSlots \in Nat

VARIABLES
  prog,      \* c->ops and c->operands
  phase,     \* where QVM2WASM_Compile stands
  funcs,     \* c->funcs, the functions analysed so far, in order
  fn,        \* the qfunc_t analyze_function works on
  hasJump,   \* the function contains an OP_JUMP
  i,         \* loop index of the scan and of the leader loop
  cur,       \* operand depth the scan carries along
  reachable, \* the scan can fall into instruction i
  depth,     \* c->depth
  expected,  \* c->expected, -1 if unknown
  leader,    \* c->leader, -1 or region index
  region     \* next region index

vars == <<prog, phase, funcs, fn, hasJump, i, cur, reachable,
          depth, expected, leader, region>>

Phases == {"find", "collect", "scan", "leaders", "done", "rejected"}

N == Len(prog)

\* The end of a function is only set behind the loop of find_functions.
BugEndsFunction(s, e) == e = N

\* The function that starts at s goes up to the next OP_ENTER, or to the end.
EndsFunction(s, e) ==
  /\ e # N => Op(prog, e) = "ENTER"
  /\ \A k \in s + 1 .. e - 1 : Op(prog, k) # "ENTER"

Extent(f) == f.start .. f.end - 1

Init ==
  /\ prog \in Programs
  /\ phase = "find"
  /\ funcs = <<>>
  /\ fn = [start |-> 0, end |-> 0, maxDepth |-> 0]
  /\ hasJump = FALSE
  /\ i = 0
  /\ cur = 0
  /\ reachable = TRUE
  /\ depth = [k \in Indices(prog) |-> 0]
  /\ expected = [k \in Indices(prog) |-> -1]
  /\ leader = [k \in Indices(prog) |-> -1]
  /\ region = 0

\* QVM2WASM_Compile frees its context and returns -1.
Reject ==
  /\ phase' = "rejected"
  /\ UNCHANGED <<prog, funcs, fn, hasJump, i, cur, reachable,
                 depth, expected, leader, region>>

BeginFunction(s) ==
  /\ \E e \in s + 1 .. N :
       EndsFunction(s, e) /\ fn' = [start |-> s, end |-> e, maxDepth |-> 0]
  /\ phase' = "collect"

FindFunctions ==
  /\ phase = "find"
  /\ Op(prog, 0) = "ENTER"
  /\ BeginFunction(0)
  /\ UNCHANGED <<prog, funcs, hasJump, i, cur, reachable,
                 depth, expected, leader, region>>

RejectNoEnter ==
  /\ phase = "find"
  /\ Op(prog, 0) # "ENTER"
  /\ Reject

-----------------------------------------------------------------------------
(* First loop of analyze_function: branch targets, computed jumps.         *)

TargetsInside ==
  \A k \in Extent(fn) : Op(prog, k) \in CondBranch => Arg(prog, k) \in Extent(fn)

CollectTargets ==
  /\ phase = "collect"
  /\ TargetsInside
  /\ hasJump' = (\E k \in Extent(fn) : Op(prog, k) = "JUMP")
  /\ cur' = 0
  /\ reachable' = TRUE
  /\ i' = fn.start
  /\ phase' = "scan"
  /\ UNCHANGED <<prog, funcs, fn, depth, expected, leader, region>>

RejectTarget ==
  /\ phase = "collect"
  /\ ~ TargetsInside
  /\ Reject

-----------------------------------------------------------------------------
(* The forward scan.                                                       *)

EntryDepth ==
  IF expected[i] >= 0 THEN expected[i] ELSE IF reachable THEN cur ELSE 0

ExitDepth == EntryDepth - Pops(Op(prog, i)) + Pushes(Op(prog, i))

\* maxDepth is updated before the push and not behind it.
BugMax3(a, b, c) == IF a >= b THEN a ELSE b

Max3(a, b, c) == IF a >= b /\ a >= c THEN a ELSE IF b >= c THEN b ELSE c

\* The two ends of a fall-through are not compared, or are compared where
\* control cannot fall through.
BugMergeUnchecked == FALSE
BugMergeAlways == expected[i] >= 0 /\ cur # expected[i]

MergeConflict == expected[i] >= 0 /\ reachable /\ cur # expected[i]
BugUnderflow == FALSE

Underflow     == EntryDepth < Pops(Op(prog, i))
Overflow      == ExitDepth > MaxSlots

\* c->depth[i] is assigned before the branch is looked at, so a branch to
\* itself compares with EntryDepth.
DepthNow == [depth EXCEPT ![i] = EntryDepth]

BranchConflict ==
  LET t == Arg(prog, i)
  IN  /\ Op(prog, i) \in CondBranch
      /\ IF expected[t] < 0 THEN t <= i /\ DepthNow[t] # ExitDepth
                            ELSE expected[t] # ExitDepth

ScanConflict == MergeConflict \/ Underflow \/ Overflow \/ BranchConflict

Scanning == phase = "scan" /\ i < fn.end

ScanInsn ==
  /\ Scanning
  /\ ~ ScanConflict
  /\ depth' = DepthNow
  /\ fn' = [fn EXCEPT !.maxDepth = Max3(@, EntryDepth, ExitDepth)]
  /\ cur' = ExitDepth
  /\ expected' = IF Op(prog, i) \in CondBranch
                 THEN [expected EXCEPT ![Arg(prog, i)] = ExitDepth]
                 ELSE expected
  /\ reachable' = (Op(prog, i) \notin Diverts)
  /\ i' = i + 1
  /\ UNCHANGED <<prog, phase, funcs, hasJump, leader, region>>

RejectScan ==
  /\ Scanning
  /\ ScanConflict
  /\ Reject

\* The region counter is not a local variable of analyze_function.
BugEndScan ==
  /\ phase = "scan"
  /\ i = fn.end
  /\ phase' = "leaders"
  /\ i' = fn.start
  /\ UNCHANGED <<prog, funcs, fn, hasJump, cur, reachable, depth, expected, leader, region>>

EndScan ==
  /\ phase = "scan"
  /\ i = fn.end
  /\ phase' = "leaders"
  /\ i' = fn.start
  /\ region' = 0
  /\ UNCHANGED <<prog, funcs, fn, hasJump, cur, reachable, depth, expected, leader>>

-----------------------------------------------------------------------------
(* Leaders: the places the dispatch loop of the function can enter.        *)

BugIsLeader(k) == k = fn.start \/ expected[k] >= 0

IsLeader(k) ==
  k = fn.start \/ expected[k] >= 0 \/ (hasJump /\ depth[k] = 0)

\* A `continue` that skips the increment.
BugMarkLeader ==
  /\ phase = "leaders"
  /\ i < fn.end
  /\ IsLeader(i)
  /\ leader' = [leader EXCEPT ![i] = region]
  /\ region' = region + 1
  /\ i' = i + 1
  /\ UNCHANGED <<prog, phase, funcs, fn, hasJump, cur, reachable, depth, expected>>

MarkLeader ==
  /\ phase = "leaders"
  /\ i < fn.end
  /\ IF IsLeader(i)
     THEN leader' = [leader EXCEPT ![i] = region] /\ region' = region + 1
     ELSE UNCHANGED <<leader, region>>
  /\ i' = i + 1
  /\ UNCHANGED <<prog, phase, funcs, fn, hasJump, cur, reachable, depth, expected>>

\* analyze_function returns; the loop of QVM2WASM_Compile goes on.
NextFunction ==
  /\ phase = "leaders"
  /\ i = fn.end
  /\ funcs' = Append(funcs, fn)
  /\ IF fn.end = N THEN phase' = "done" /\ fn' = fn
                   ELSE BeginFunction(fn.end)
  /\ UNCHANGED <<prog, hasJump, i, cur, reachable, depth, expected, leader, region>>

-----------------------------------------------------------------------------
Next ==
  \/ FindFunctions \/ RejectNoEnter
  \/ CollectTargets \/ RejectTarget
  \/ ScanInsn \/ RejectScan \/ EndScan
  \/ MarkLeader \/ NextFunction

Spec == Init /\ [][Next]_vars

\* The passes are loops of one sequential program: nothing else can delay them.
FairSpec == Spec /\ WF_vars(Next)

-----------------------------------------------------------------------------
(* Properties.                                                             *)

FuncRecord == [start : Nat, end : Nat, maxDepth : Nat]

TypeOK ==
  /\ prog \in Seq(Insn) /\ prog # <<>>
  /\ phase \in Phases
  /\ funcs \in Seq(FuncRecord)
  /\ fn \in FuncRecord
  /\ hasJump \in BOOLEAN
  /\ i \in 0 .. N
  /\ cur \in Nat
  /\ reachable \in BOOLEAN
  /\ depth \in [Indices(prog) -> Nat]
  /\ expected \in [Indices(prog) -> Nat \cup {-1}]
  /\ leader \in [Indices(prog) -> Nat \cup {-1}]
  /\ region \in Nat

(***************************************************************************)
(* What the emitter relies on: when analysis succeeds, the depths it left  *)
(* behind are a consistent annotation of the whole program, so "slot       *)
(* depth - 1" names the same operand on every path into an instruction.    *)
(***************************************************************************)
AnalysisSound ==
  phase = "done" => ConsistentDepths(prog, depth, MaxSlots)

(***************************************************************************)
(* The scan refuses only what no annotation could satisfy: if a program    *)
(* that starts with OP_ENTER is rejected, there is no consistent           *)
(* annotation for it (depths range over what the stack can hold).          *)
(***************************************************************************)
NoFalseRejection ==
  phase = "rejected" /\ Op(prog, 0) = "ENTER" =>
    ~ \E D \in [Indices(prog) -> 0 .. MaxSlots] :
        ConsistentDepths(prog, D, MaxSlots)

(***************************************************************************)
(* Every wasm local the emitter will address exists: SLOT(d - 1),          *)
(* SLOT(d - 2) and the pushed SLOT(d) all lie below numLocals, which is    *)
(* 1 + maxDepth of the function.                                           *)
(***************************************************************************)
LocalsDeclared ==
  \A f \in 1 .. Len(funcs) : \A k \in Extent(funcs[f]) :
    /\ depth[k] <= funcs[f].maxDepth
    /\ After(prog, depth, k) <= funcs[f].maxDepth

(***************************************************************************)
(* The functions found tile the program: each starts at an OP_ENTER, the   *)
(* next one starts where it ends, none contains a second OP_ENTER.         *)
(***************************************************************************)
FunctionsTile ==
  /\ \A f \in 1 .. Len(funcs) :
       /\ funcs[f].start = IF f = 1 THEN 0 ELSE funcs[f - 1].end
       /\ \A k \in Extent(funcs[f]) : Op(prog, k) = "ENTER" <=> k = funcs[f].start
  /\ phase = "done" => funcs[Len(funcs)].end = N

(***************************************************************************)
(* The br_table of a function is right: leaders are numbered 0, 1, 2 ...   *)
(* in program order, and every instruction a conditional branch names, and *)
(* every empty-stack instruction of a function with computed jumps, is a   *)
(* leader -- one that is missing would send the jump to the BAD block.     *)
(***************************************************************************)
LeadersDense ==
  \A f \in 1 .. Len(funcs) : \A k \in Extent(funcs[f]) :
    leader[k] >= 0 =>
      \A n \in 0 .. leader[k] - 1 : \E j \in funcs[f].start .. k - 1 : leader[j] = n

LeadersComplete ==
  phase = "done" =>
    /\ \A k \in Indices(prog) :
         Op(prog, k) \in CondBranch => leader[Arg(prog, k)] >= 0
    /\ \A f \in 1 .. Len(funcs) : \A j, k \in Extent(funcs[f]) :
         Op(prog, j) = "JUMP" /\ depth[k] = 0 => leader[k] >= 0

(***************************************************************************)
(* What the emitter builds functions, locals and branch tables from is     *)
(* right: the functions tile the program, the slots of each are declared   *)
(* locals, and its leaders are complete and numbered without gaps.         *)
(***************************************************************************)
EmissionReady == FunctionsTile /\ LocalsDeclared /\ LeadersDense /\ LeadersComplete

\* Compilation of any program comes to an end, one way or the other.
Terminates == <>(phase \in {"done", "rejected"})
=============================================================================
