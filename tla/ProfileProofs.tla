---------------------------- MODULE ProfileProofs ---------------------------
(***************************************************************************)
(* Proofs about module Profile: the profiler only watches, a report        *)
(* accounts for every instruction, and the function that is charged for    *)
(* an instruction is the one it belongs to.                                *)
(***************************************************************************)
EXTENDS Profile, CompiledProofs

-----------------------------------------------------------------------------
(* The profiler takes no part in what it watches.                          *)

LEMMA StepsOfInterp == ProfileInit => Init
BY DEF ProfileInit

LEMMA ProfileStepIsStep ==
  ASSUME [ProfileNext]_allVars PROVE [Next]_vars
<1>1. CASE LoadSymbols \/ (\E level \in DebugLevels : VM_Debug(level))
           \/ (\E i \in Entries(prog.insns) : HostBreaks(i)) \/ VM_VmProfile_f
  BY <1>1 DEF LoadSymbols, VM_Debug, HostBreaks, VM_VmProfile_f
<1>2. CASE ProfiledInstruction \/ ProfiledCall \/ ProfiledReturn \/ ProfiledFree
  BY <1>2 DEF ProfiledInstruction, ProfiledCall, ProfiledReturn, ProfiledFree, Next
<1>3. CASE UNCHANGED allVars BY <1>3 DEF allVars
<1>4. QED BY <1>1, <1>2, <1>3 DEF ProfileNext

LEMMA WatchesOnly == ProfileSpec => Spec
<1>1. [ProfileNext]_allVars => [Next]_vars BY ProfileStepIsStep
<1>2. QED BY <1>1, StepsOfInterp, PTL DEF ProfileSpec, Spec

-----------------------------------------------------------------------------
(* Sums of counts, and symbols.                                            *)

Counted(c) == Total(c, DOMAIN c)

LEMMA ReportCounted == ReportComplete <=> (status = "ok" => Counted(counts) = ran)
BY DEF ReportComplete, Counted, Total

LEMMA CountedNone ==
  ASSUME NEW n \in Nat, NEW c, c = [s \in 0 .. n |-> 0] PROVE Counted(c) = 0
<1> DEFINE S == 0 .. n
<1>1. IsFiniteSet(S) BY FS_Interval
<1>2. c = [s \in S |-> 0] /\ DOMAIN c = S OBVIOUS
<1> HIDE DEF S
<1>3. Total(c, S) = 0 BY <1>1, <1>2, SumOfNone
<1>4. QED BY <1>2, <1>3 DEF Counted

LEMMA CountedMore ==
  ASSUME NEW n \in Nat, NEW c \in [0 .. n -> Nat], NEW a \in 0 .. n,
         NEW d, d = [c EXCEPT ![a] = @ + 1]
  PROVE  Counted(d) = Counted(c) + 1
<1> DEFINE S == 0 .. n
<1>1. IsFiniteSet(S) BY FS_Interval
<1>2. /\ c \in [S -> Int] /\ a \in S /\ DOMAIN c = S /\ DOMAIN d = S
      /\ d \in [S -> Int] /\ d[a] = c[a] + 1 /\ \A x \in S \ {a} : d[x] = c[x]
  OBVIOUS
<1> HIDE DEF S
<1>3. Total(d, S) = Total(c, S) + 1
  BY <1>1, <1>2, SumGrows
<1>4. QED BY <1>2, <1>3 DEF Counted

\* The symbols that can be charged.
Charged == IF symbols = <<>> THEN {0} ELSE DOMAIN symbols

LEMMA LookupFinds ==
  ASSUME NEW S, symbols \in Seq(S), NEW v
  PROVE  /\ Lookup(v) \in Charged /\ Charged \subseteq 0 .. Len(symbols)
         /\ symbols # <<>> =>
              LET T == {k \in DOMAIN symbols : \A j \in 2 .. k : symbols[j].value <= v}
              IN  Lookup(v) \in T /\ \A k \in T : k <= Lookup(v)
<1> DEFINE T == {k \in DOMAIN symbols : \A j \in 2 .. k : symbols[j].value <= v}
<1>1. Len(symbols) \in Nat /\ DOMAIN symbols = 1 .. Len(symbols) OBVIOUS
<1>2. CASE symbols = <<>>
  BY <1>1, <1>2 DEF Lookup, Charged
<1>3. CASE symbols # <<>>
  <2>1. 1 \in DOMAIN symbols BY <1>1, <1>3
  <2>2. 2 .. 1 = {} OBVIOUS
  <2>3. 1 \in T BY <2>1, <2>2
  <2>4. T \subseteq 0 .. Len(symbols) /\ T # {} BY <1>1, <2>3
  <2>5. Lookup(v) = Max(T) BY <1>3 DEF Lookup
  <2>6. Lookup(v) \in T /\ \A k \in T : k <= Lookup(v)
    <3> HIDE DEF T
    <3>1. QED BY <1>1, <2>4, <2>5, Greatest
  <2>7. QED BY <1>1, <1>3, <2>6 DEF Charged
<1>4. QED BY <1>2, <1>3

-----------------------------------------------------------------------------
(* How many activations there are.                                         *)

LEMMA InstructionLevel ==
  ASSUME TypeInv, Instruction
  PROVE  /\ Running /\ Level \in Nat \ {0} /\ Level = Len(acts) /\ DOMAIN acts = 1 .. Level
         /\ \/ Len(acts') = Level
            \/ Len(acts') = Level - 1 /\ At({"LEAVE"}) /\ acts' = SubSeq(acts, 1, Level - 1)
<1>1. acts \in Seq(ActivationRecord) BY DEF TypeInv, TypeOK
<1>2. Running
  BY DEF Instruction, FetchError, OperandMissing, BadInstruction, Nothing, PushCached,
         LoadMisaligned, LoadValue, StoreValue, Argument, BlockCopy, CallWild, CallFunction,
         CallOutOfRange, CallSystem, PushStale, Pop, Enter, LeaveWild, Leave, LeaveVM,
         Jump, Branch, Unary, Binary, At
<1>3. Level \in Nat \ {0} /\ Level = Len(acts) /\ DOMAIN acts = 1 .. Level
  BY <1>1, <1>2 DEF Running, Level
<1>4. CASE LeaveVM
  <2>1. acts' = acts \/ acts' = SubSeq(acts, 1, Level - 1) BY <1>4 DEF LeaveVM, Halt
  <2>2. At({"LEAVE"}) BY <1>4 DEF LeaveVM
  <2>3. Len(SubSeq(acts, 1, Level - 1)) = Level - 1 BY <1>1, <1>3
  <2>4. QED BY <1>2, <1>3, <2>1, <2>2, <2>3
<1>5. CASE ~ LeaveVM
  <2>1. acts' = acts \/ \E b : Continue(b)
    <3>1. CASE Nothing \/ PushCached \/ LoadValue \/ StoreValue \/ Argument \/ PushStale \/ Pop
               \/ Branch \/ Unary
      BY <3>1 DEF Nothing, PushCached, LoadValue, StoreValue, Argument, PushStale, Pop,
                  Branch, Unary, Dispatch, Dispatch2
    <3>2. CASE BlockCopy \/ CallFunction \/ CallSystem \/ Enter \/ Leave \/ Jump \/ Binary
      BY <3>2 DEF BlockCopy, CallFunction, CallSystem, Enter, Leave, Jump, Binary, Dispatch, Halt
    <3>3. CASE FetchError \/ OperandMissing \/ BadInstruction \/ LoadMisaligned \/ CallWild
               \/ CallOutOfRange \/ LeaveWild
      BY <3>3 DEF FetchError, OperandMissing, BadInstruction, LoadMisaligned, CallWild,
                  CallOutOfRange, LeaveWild, Halt
    <3>4. QED BY <1>5, <3>1, <3>2, <3>3 DEF Instruction
  <2>2. \A b : Len([acts EXCEPT ![Level] = b]) = Len(acts)
    <3> TAKE b
    <3>1. [acts EXCEPT ![Level] = b] \in [1 .. Level -> ActivationRecord \cup {b}] BY <1>1, <1>3
    <3>2. Level \in Nat BY <1>3
    <3> HIDE DEF Level
    <3>3. Len([acts EXCEPT ![Level] = b]) = Level BY <3>1, <3>2
    <3>4. QED BY <1>3, <3>3
  <2>3. QED BY <1>2, <1>3, <2>1, <2>2 DEF Continue
<1>6. QED BY <1>4, <1>5

\* What the profiler keeps of the activations that stay.
LEMMA RelookedTyped ==
  ASSUME TypeInv, Instruction, NEW S, symbols \in Seq(S), profiled \in Seq(Charged),
         Len(profiled) = Level
  PROVE  /\ Relooked \in Seq(Charged) /\ Len(Relooked) = Len(acts')
         /\ \A k \in 1 .. Level - 1 : k <= Len(acts') => Relooked[k] = profiled[k]
         /\ Len(acts') = Level =>
              Relooked[Level] = IF Does("ENTER") \/ Does("LEAVE") THEN Lookup(acts'[Level].pc)
                                ELSE profiled[Level]
<1>1. Level \in Nat \ {0} /\ Len(acts') \in {Level, Level - 1} BY InstructionLevel
<1> DEFINE v == Lookup(acts'[Level].pc)
<1>2. v \in Charged BY LookupFinds
<1> HIDE DEF v
<1>3. CASE Len(acts') < Level
  <2>1. Relooked = SubSeq(profiled, 1, Len(acts')) /\ Len(acts') = Level - 1
    BY <1>1, <1>3 DEF Relooked
  <2> DEFINE L == Level
  <2>2. L \in Nat \ {0} /\ Len(profiled) = L /\ Len(acts') = L - 1 BY <1>1, <2>1
  <2> HIDE DEF L
  <2>3. /\ SubSeq(profiled, 1, L - 1) \in Seq(Charged) /\ Len(SubSeq(profiled, 1, L - 1)) = L - 1
        /\ \A k \in 1 .. L - 1 : SubSeq(profiled, 1, L - 1)[k] = profiled[k]
    BY <2>2
  <2>4. QED BY <1>1, <1>3, <2>1, <2>2, <2>3 DEF L
<1>4. CASE Len(acts') = Level
  <2> DEFINE L == Level
  <2>1. Relooked = IF Does("ENTER") \/ Does("LEAVE") THEN [profiled EXCEPT ![L] = v] ELSE profiled
    BY <1>1, <1>4 DEF Relooked, v
  <2>2. L \in Nat \ {0} /\ Len(profiled) = L BY <1>1
  <2> HIDE DEF L
  <2>3. /\ [profiled EXCEPT ![L] = v] \in Seq(Charged) /\ Len([profiled EXCEPT ![L] = v]) = L
        /\ [profiled EXCEPT ![L] = v][L] = v
        /\ \A k \in 1 .. L - 1 : [profiled EXCEPT ![L] = v][k] = profiled[k]
    BY <1>2, <2>2
  <2>4. QED BY <1>4, <2>1, <2>2, <2>3 DEF L, v
<1>5. QED BY <1>1, <1>3, <1>4

-----------------------------------------------------------------------------
(***************************************************************************)
(* The inductive invariant: there is a count of each symbol and a symbol   *)
(* that exists for each activation; nullSym is charged only if there are   *)
(* no symbols, so that a report leaves no count behind; and nothing runs   *)
(* before the file is read.                                                *)
(***************************************************************************)
CountsInv ==
  status = "ok" =>
    /\ \E S : symbols \in Seq(S)
    /\ profiled \in Seq(Charged) /\ Len(profiled) = Level
    /\ counts \in [0 .. Len(symbols) -> Nat] /\ (symbols # <<>> => counts[0] = 0)
    /\ ran \in Nat /\ Counted(counts) = ran
    /\ reading = "loading" => acts = <<>> /\ ran = 0

LEMMA ProfileInitCounts == ProfileInit => CountsInv
<1> SUFFICES ASSUME ProfileInit PROVE CountsInv OBVIOUS
<1>1. symbols = <<>> /\ profiled = <<>> /\ acts = <<>> /\ ran = 0 /\ counts = [s \in 0 .. 0 |-> 0]
  BY DEF ProfileInit, FileInit, Init
<1>2. Counted(counts) = 0 BY <1>1, CountedNone
<1>3. \E S : symbols \in Seq(S)
  <2>1. symbols \in Seq({}) BY <1>1
  <2>2. QED BY <2>1
<1>4. profiled \in Seq(Charged) /\ Len(profiled) = Level BY <1>1 DEF Level
<1>5. QED BY <1>1, <1>2, <1>3, <1>4 DEF CountsInv

LEMMA LoadingCounts ==
  ASSUME TypeInv, CountsInv, LoadSymbols PROVE CountsInv'
<1> SUFFICES ASSUME status' = "ok" PROVE CountsInv' BY DEF CountsInv
<1>1. /\ UNCHANGED <<status, acts, profiled, ran>> /\ FileNext
      /\ counts' = [s \in 0 .. Len(symbols') |-> 0]
  BY DEF LoadSymbols, vars
<1>2. reading = "loading" /\ (symbols' = symbols \/ \E x : symbols' = Append(symbols, x))
  BY <1>1 DEF FileNext, NoFile, ReadSegment, SkipToken, ReadValue, NewSymbol, NoMemory, EndOfText,
              Overrun, Reads, AtEnd
<1>3. /\ acts = <<>> /\ ran = 0 /\ profiled \in Seq(Charged) /\ Len(profiled) = Level
  BY <1>1, <1>2 DEF CountsInv
<1>4. \E S : symbols' \in Seq(S)
  <2>1. PICK S : symbols \in Seq(S) BY <1>1 DEF CountsInv
  <2>2. CASE symbols' = symbols BY <2>1, <2>2
  <2>3. ASSUME NEW x, symbols' = Append(symbols, x) PROVE \E T : symbols' \in Seq(T)
    <3>1. symbols \in Seq(S \cup {x}) BY <2>1
    <3>2. Append(symbols, x) \in Seq(S \cup {x}) BY <3>1
    <3>3. QED BY <2>3, <3>2
  <2>4. QED BY <1>2, <2>2, <2>3
<1>5. Len(symbols') \in Nat BY <1>4
<1>6. Counted(counts') = 0
  <2> DEFINE c == counts'
             n == Len(symbols')
  <2>1. n \in Nat /\ c = [s \in 0 .. n |-> 0] BY <1>1, <1>5
  <2> HIDE DEF c, n
  <2>2. Counted(c) = 0 BY <2>1, CountedNone
  <2>3. QED BY <2>2 DEF c
<1>7. profiled' \in Seq(Charged') /\ Len(profiled') = Level'
  <2>1. Len(profiled) = 0 /\ Level' = Level BY <1>1, <1>3 DEF Level
  <2>2. profiled = <<>> BY <1>3, <2>1
  <2>3. QED BY <1>1, <1>3, <2>1, <2>2
<1>8. counts' \in [0 .. Len(symbols') -> Nat] /\ counts'[0] = 0 BY <1>1, <1>5
<1>9. QED BY <1>1, <1>3, <1>4, <1>6, <1>7, <1>8 DEF CountsInv

\* The instruction is charged before it is carried out.
LEMMA InstructionCounts ==
  ASSUME TypeInv, CountsInv, ProfiledInstruction PROVE CountsInv'
<1> SUFFICES ASSUME status' = "ok" PROVE CountsInv' BY DEF CountsInv
<1>1. /\ Instruction /\ symbols' = symbols /\ reading' = reading /\ profiled' = Relooked
      /\ counts' = IF Fetched THEN [counts EXCEPT ![profiled[Level]] = @ + 1] ELSE counts
      /\ ran' = IF Fetched THEN ran + 1 ELSE ran
  BY DEF ProfiledInstruction, fileVars
<1>2. Running /\ Level \in Nat \ {0} /\ Level = Len(acts) BY <1>1, InstructionLevel
<1>3. PICK S : symbols \in Seq(S) BY <1>2 DEF CountsInv, Running
<1>4. /\ profiled \in Seq(Charged) /\ Len(profiled) = Level
      /\ counts \in [0 .. Len(symbols) -> Nat] /\ (symbols # <<>> => counts[0] = 0)
      /\ ran \in Nat /\ Counted(counts) = ran /\ (reading = "loading" => acts = <<>>)
  BY <1>2 DEF CountsInv, Running
<1>5. reading # "loading" BY <1>2, <1>4
<1>6. profiled[Level] \in Charged /\ Charged \subseteq 0 .. Len(symbols)
  <2> DEFINE L == Level
  <2>1. L \in Nat \ {0} /\ Len(profiled) = L BY <1>2, <1>4
  <2> HIDE DEF L
  <2>2. profiled[L] \in Charged BY <1>4, <2>1
  <2>3. QED BY <1>3, <2>2, LookupFinds DEF L
<1>7. profiled' \in Seq(Charged') /\ Len(profiled') = Level'
  <2>1. Relooked \in Seq(Charged) /\ Len(Relooked) = Len(acts') BY <1>1, <1>3, <1>4, RelookedTyped
  <2>2. Charged' = Charged /\ Level' = Len(acts') BY <1>1 DEF Charged, Level
  <2>3. QED BY <1>1, <2>1, <2>2
<1> DEFINE n == Len(symbols)
           s == profiled[Level]
           more == [counts EXCEPT ![s] = @ + 1]
<1>8. n \in Nat /\ s \in 0 .. n /\ counts \in [0 .. n -> Nat] BY <1>3, <1>4, <1>6
<1>9. symbols # <<>> => s # 0 BY <1>3, <1>6 DEF Charged
<1> HIDE DEF n, s
<1>10. Counted(more) = Counted(counts) + 1 BY <1>8, CountedMore
<1>11. more \in [0 .. n -> Nat] /\ (symbols # <<>> => more[0] = 0) BY <1>4, <1>8, <1>9
<1> HIDE DEF more
<1>12. /\ counts' \in [0 .. n -> Nat] /\ (symbols # <<>> => counts'[0] = 0)
       /\ ran' \in Nat /\ Counted(counts') = ran'
  <2>1. CASE Fetched
    <3>1. counts' = more /\ ran' = ran + 1 BY <1>1, <2>1 DEF more, s
    <3>2. QED BY <1>4, <1>10, <1>11, <3>1
  <2>2. CASE ~ Fetched
    <3>1. counts' = counts /\ ran' = ran BY <1>1, <2>2
    <3>2. QED BY <1>4, <1>8, <3>1
  <2>3. QED BY <2>1, <2>2
<1>13. QED BY <1>1, <1>3, <1>5, <1>7, <1>12 DEF CountsInv, n

LEMMA CallCounts ==
  ASSUME TypeInv, CountsInv, ProfiledCall PROVE CountsInv'
<1> SUFFICES ASSUME status' = "ok" PROVE CountsInv' BY DEF CountsInv
<1>1. /\ Created /\ HostCalls /\ UNCHANGED <<symbols, reading, counts, ran>>
      /\ profiled' = Append(profiled, Lookup(0))
  BY DEF ProfiledCall, fileVars
<1>2. status = "ok" /\ \E b : acts' = Append(acts, b)
  <2>1. PICK args \in HostArgs, g \in Garbage : VM_Call(args, g) BY <1>1 DEF HostCalls
  <2>2. status = "ok" BY <2>1 DEF VM_Call, HostMayCall
  <2>3. ~ Halt("undefined") BY DEF Halt
  <2>4. acts' = Append(acts, Activation(vm.programStack, args[1], g)) BY <2>1, <2>3 DEF VM_Call
  <2>5. QED BY <2>2, <2>4
<1>3. acts \in Seq(ActivationRecord) BY DEF TypeInv, TypeOK
<1>4. PICK S : symbols \in Seq(S) BY <1>2 DEF CountsInv
<1>5. /\ profiled \in Seq(Charged) /\ Len(profiled) = Level
      /\ counts \in [0 .. Len(symbols) -> Nat] /\ (symbols # <<>> => counts[0] = 0)
      /\ ran \in Nat /\ Counted(counts) = ran
  BY <1>2 DEF CountsInv
<1>6. profiled' \in Seq(Charged') /\ Len(profiled') = Level'
  <2>1. Lookup(0) \in Charged BY <1>4, LookupFinds
  <2>2. Len(acts') = Len(acts) + 1
    <3>1. PICK b : acts' = Append(acts, b) BY <1>2
    <3>2. acts \in Seq(ActivationRecord \cup {b}) BY <1>3
    <3>3. QED BY <3>1, <3>2
  <2>3. Charged' = Charged BY <1>1 DEF Charged
  <2>4. Append(profiled, Lookup(0)) \in Seq(Charged)
        /\ Len(Append(profiled, Lookup(0))) = Len(profiled) + 1
    BY <1>5, <2>1
  <2>5. QED BY <1>1, <1>5, <2>2, <2>3, <2>4 DEF Level
<1>7. reading' # "loading" BY <1>1 DEF Created
<1>8. QED BY <1>1, <1>4, <1>5, <1>6, <1>7 DEF CountsInv

\* What changes neither the symbols nor the counts nor the activations' number.
LEMMA SameCounts ==
  ASSUME CountsInv, status = "ok", UNCHANGED <<symbols, reading, counts, profiled, ran>>,
         Len(acts') = Len(acts), acts = <<>> => acts' = <<>>
  PROVE  CountsInv'
<1>1. Charged' = Charged /\ Level' = Level BY DEF Charged, Level
<1>2. counts' = counts /\ symbols' = symbols /\ profiled' = profiled /\ ran' = ran /\ reading' = reading
  OBVIOUS
<1>3. QED BY <1>1, <1>2 DEF CountsInv

LEMMA ReturnCounts ==
  ASSUME TypeInv, CountsInv, ProfiledReturn PROVE CountsInv'
<1>1. HostReturns /\ UNCHANGED <<symbols, reading, counts, profiled, ran>>
  BY DEF ProfiledReturn, fileVars, debugVars
<1>2. PICK v \in HostReplies, w \in HostWrites : SystemCallReturns(v, w) BY <1>1 DEF HostReturns
<1>3. InSyscall /\ \E b : acts' = [acts EXCEPT ![Level] = b]
  BY <1>2 DEF SystemCallReturns, Dispatch, Continue
<1>4. acts \in Seq(ActivationRecord) /\ acts # <<>> BY <1>3 DEF TypeInv, TypeOK, InSyscall, Level
<1>5. Len(acts') = Len(acts)
  <2>1. PICK b : acts' = [acts EXCEPT ![Level] = b] BY <1>3
  <2>2. acts \in Seq(ActivationRecord \cup {b}) BY <1>4
  <2>3. QED BY <2>1, <2>2
<1>6. status = "ok" BY <1>3 DEF InSyscall
<1>7. QED BY <1>1, <1>4, <1>5, <1>6, SameCounts

LEMMA ReportCounts ==
  ASSUME CountsInv, VM_VmProfile_f PROVE CountsInv'
<1>1. /\ status = "ok" /\ UNCHANGED <<status, acts, symbols, reading, profiled>>
      /\ Len(symbols) >= 1 /\ counts' = Reset /\ ran' = 0
  BY DEF VM_VmProfile_f, HostMayCall, vars, fileVars
<1>2. PICK S : symbols \in Seq(S) BY <1>1 DEF CountsInv
<1> DEFINE n == Len(symbols)
           c == Reset
<1>3. n \in Nat /\ counts \in [0 .. n -> Nat] /\ counts[0] = 0
  <2>1. symbols # <<>> BY <1>1, <1>2
  <2>2. QED BY <1>1, <1>2, <2>1 DEF CountsInv
<1> HIDE DEF n
<1>4. c = [s \in 0 .. n |-> 0] BY <1>3 DEF Reset
<1> HIDE DEF c
<1>5. Counted(c) = 0 BY <1>3, <1>4, CountedNone
<1>6. c \in [0 .. n -> Nat] /\ c[0] = 0 BY <1>3, <1>4
<1>7. Charged' = Charged /\ Level' = Level BY <1>1 DEF Charged, Level
<1>8. counts' = c /\ n' = n BY <1>1 DEF c, n
<1>9. QED BY <1>1, <1>5, <1>6, <1>7, <1>8 DEF CountsInv, n

LEMMA NextCounts ==
  ASSUME TypeInv, CountsInv, [ProfileNext]_allVars PROVE CountsInv'
<1>1. CASE ProfiledFree
  <2>1. status' # "ok"
    BY <1>1 DEF ProfiledFree, VM_Free, Halt
  <2>2. QED BY <2>1 DEF CountsInv
<1>2. CASE \/ \E level \in DebugLevels : VM_Debug(level)
           \/ \E i \in Entries(prog.insns) : HostBreaks(i)
           \/ UNCHANGED allVars
  <2>1. UNCHANGED <<status, acts, symbols, reading, counts, profiled, ran>>
    BY <1>2 DEF VM_Debug, HostBreaks, allVars, vars, fileVars, debugVars
  <2>2. CASE status = "ok" BY <2>1, <2>2, SameCounts
  <2>3. CASE status # "ok" BY <2>1, <2>3 DEF CountsInv
  <2>4. QED BY <2>2, <2>3
<1>3. QED BY <1>1, <1>2, LoadingCounts, InstructionCounts, CallCounts, ReturnCounts, ReportCounts
          DEF ProfileNext

LEMMA CountsInvHolds == ProfileSpec => [](TypeInv /\ InterpInv /\ CountsInv)
<1>1. TypeInv /\ CountsInv /\ [ProfileNext]_allVars => CountsInv' BY NextCounts
<1>2. Spec => [](TypeInv /\ InterpInv)
  <2>1. TypeInv /\ InterpInv /\ [Next]_vars => TypeInv' BY NextTyped
  <2>2. QED BY <2>1, InitTypeInv, InterpInvHolds, PTL DEF Spec
<1>3. QED BY <1>1, <1>2, WatchesOnly, ProfileInitCounts, PTL DEF ProfileSpec

(***************************************************************************)
(* Whatever runs beside whatever symbols: the counts of profileCount add   *)
(* up to the instructions since the last report, in every activation and   *)
(* however the calls nest; a report of VM_VmProfile_f loses none and       *)
(* leaves none for the next one.                                           *)
(***************************************************************************)
THEOREM ReportsAreComplete == ProfileSpec => []ReportComplete
<1>1. CountsInv => ReportComplete BY ReportCounted DEF CountsInv
<1>2. QED BY <1>1, CountsInvHolds, PTL

-----------------------------------------------------------------------------
(* Functions and the symbols that name them.                               *)

\* Word pc is the place of an instruction of the function at e, behind its
\* OP_ENTER.
Lies(pc, e) ==
  \E i \in Indices(Insns) :
    InFunction(Insns, e, i) /\ Op(Insns, i) # "ENTER" /\ pc = Place(prog, i)

LEMMA PlacesGrow ==
  ASSUME TypeInv, NEW i \in Indices(Insns), NEW j \in Indices(Insns)
  PROVE  /\ Place(prog, i) <= Place(prog, j) <=> i <= j
         /\ Place(prog, i) \in Nat /\ Place(prog, j) \in Nat
<1> DEFINE W == WordsBefore(Insns)
<1>1. Len(Insns) \in Nat BY CodeTyped
<1>2. Ascends(W, Len(Insns)) BY <1>1, WordsAscend DEF W
<1>3. Place(prog, i) = W[i] /\ Place(prog, j) = W[j] BY DEF Place, Expanded, Insns
<1>4. i \in 0 .. Len(Insns) /\ j \in 0 .. Len(Insns) /\ i \in Int /\ j \in Int BY <1>1 DEF Indices
<1>5. W[i] \in Nat /\ W[j] \in Nat BY <1>1, <1>4, WordsBeforeStep
<1> HIDE DEF W
<1>6. \A k, l \in Indices(Insns) : k < l => W[k] < W[l]
  <2> SUFFICES ASSUME NEW k \in Indices(Insns), NEW l \in Indices(Insns), k < l PROVE W[k] < W[l]
    OBVIOUS
  <2>1. k + 1 \in 0 .. Len(Insns) /\ l \in 0 .. Len(Insns) /\ k + 1 <= l /\ k \in 0 .. Len(Insns) - 1
    BY <1>1 DEF Indices
  <2>2. W[k + 1] <= W[l] BY <1>1, <1>2, <2>1, AscendsFar
  <2>3. W[k] \in Nat /\ W[k + 1] \in Nat /\ W[l] \in Nat /\ W[k] < W[k + 1]
    BY <1>1, <1>2, <2>1 DEF Ascends
  <2>4. QED BY <2>2, <2>3
<1>7. QED BY <1>3, <1>4, <1>5, <1>6

\* Where function i begins, for the functions up to w.
Begun(w) == {code.pointers[i] : i \in {k \in Entries(prog.insns) : code.pointers[k] <= w}}

LEMMA AroundIs ==
  ASSUME TypeInv, NEW w \in Nat, NEW x \in Begun(w), \A y \in Begun(w) : y <= x
  PROVE  FunctionAround(w) = x
<1>1. \A i \in Indices(Insns) : code.pointers[i] = Place(prog, i) /\ Place(prog, i) \in Nat
  BY CodeAt
<1>2. Begun(w) \subseteq 0 .. w BY <1>1 DEF Begun, Entries, Insns
<1> DEFINE T == Begun(w)
<1>3. FunctionAround(w) = Max(T) BY DEF FunctionAround, Begun
<1>4. T \subseteq 0 .. w /\ x \in T /\ \A y \in T : y <= x BY <1>2
<1> HIDE DEF T
<1>5. Max(T) \in T /\ \A y \in T : y <= Max(T) BY <1>4, Greatest
<1>6. Max(T) <= x /\ x <= Max(T) /\ Max(T) \in 0 .. w /\ x \in 0 .. w BY <1>4, <1>5
<1>7. QED BY <1>3, <1>6

LEMMA AroundLies ==
  ASSUME TypeInv, NEW e \in Indices(Insns), NEW pc, Lies(pc, e)
  PROVE  /\ FunctionAround(pc) = Place(prog, e) /\ pc \in Nat
         /\ OpcodeNumbered(code.image[pc]) # "ENTER"
<1>1. PICK i \in Indices(Insns) :
        InFunction(Insns, e, i) /\ Op(Insns, i) # "ENTER" /\ pc = Place(prog, i)
  BY DEF Lies
<1>2. /\ \A k \in Indices(Insns) : code.pointers[k] = Place(prog, k) /\ Place(prog, k) \in Nat
      /\ OpcodeNumbered(code.image[pc]) = Op(Insns, i)
  BY <1>1, CodeAt
<1>3. /\ e <= i /\ e \in Int /\ i \in Int /\ Op(Insns, e) = "ENTER"
      /\ \A k \in e + 1 .. i : Op(Insns, k) # "ENTER"
  BY <1>1 DEF InFunction, Indices
<1>4. Place(prog, e) \in Begun(pc)
  <2>1. e \in Entries(prog.insns) BY <1>3 DEF Entries, Insns
  <2>2. Place(prog, e) <= pc BY <1>1, <1>3, PlacesGrow
  <2>3. QED BY <1>2, <2>1, <2>2 DEF Begun
<1>5. ASSUME NEW y \in Begun(pc) PROVE y <= Place(prog, e)
  <2>1. PICK k \in Indices(Insns) :
          Op(Insns, k) = "ENTER" /\ y = Place(prog, k) /\ Place(prog, k) <= Place(prog, i)
    BY <1>1, <1>2 DEF Begun, Entries, Insns
  <2>2. k <= i /\ k \in Int BY <2>1, PlacesGrow DEF Indices
  <2>3. k <= e
    <3>1. CASE e < k
      <4>1. k \in e + 1 .. i BY <1>3, <2>2, <3>1
      <4>2. QED BY <1>3, <2>1, <4>1
    <3>2. QED BY <1>3, <2>2, <3>1
  <2>4. QED BY <2>1, <2>3, PlacesGrow
<1>6. pc \in Nat BY <1>1, <1>2
<1>7. QED BY <1>1, <1>2, <1>4, <1>5, <1>6, AroundIs

\* The symbols are those of such a list.
Listed ==
  /\ file.program = Insns /\ file.called /\ Describes(file)
  /\ symbols = file.symbols /\ symbols # <<>> /\ \E S : symbols \in Seq(S)

LEMMA FirstPlace == ASSUME TypeInv PROVE Place(prog, 0) = 0
<1>1. Len(Insns) \in Nat BY CodeTyped
<1>2. 0 \in Indices(Insns) /\ Place(prog, 0) = WordsBefore(Insns)[0]
  BY CodeTyped DEF Place, Expanded, Insns
<1>3. QED BY <1>1, <1>2, WordsBeforeStep

LEMMA NameRight ==
  ASSUME TypeInv, Op(Insns, 0) = "ENTER", Listed, NEW v \in Nat
  PROVE  NameOf(v) = FunctionAround(v)
<1> DEFINE at(k) == symbols[k].value
           n == Len(symbols)
           l == Lookup(v)
           x == at(l)
<1>1. PICK S : symbols \in Seq(S) BY DEF Listed
<1>2. n \in Nat \ {0} /\ DOMAIN symbols = 1 .. n BY <1>1 DEF Listed
<1>3. /\ l \in 1 .. n /\ \A j \in 2 .. l : at(j) <= v
      /\ \A k \in 1 .. n : (\A j \in 2 .. k : at(j) <= v) => k <= l
  BY <1>1, <1>2, LookupFinds DEF Listed
<1>4. /\ \A i, j \in 1 .. n : i < j => at(i) < at(j)
      /\ {at(i) : i \in 1 .. n} = {Place(prog, i) : i \in Entries(Insns)}
  BY <1>2 DEF Listed, Describes, Place, Insns
<1>5. /\ Entries(Insns) \subseteq Indices(Insns) /\ 0 \in Entries(Insns)
      /\ \A i \in Indices(Insns) : Place(prog, i) \in Nat /\ code.pointers[i] = Place(prog, i)
  BY CodeTyped, CodeAt DEF Entries
<1>6. Place(prog, 0) = 0 BY FirstPlace
<1>7. Begun(v) = {at(i) : i \in {k \in 1 .. n : at(k) <= v}}
  <2>1. Begun(v) = {y \in {Place(prog, i) : i \in Entries(Insns)} : y <= v}
    BY <1>5 DEF Begun, Insns
  <2> HIDE DEF n
  <2>2. QED BY <1>4, <2>1
<1> HIDE DEF l
<1>8. \A i \in 1 .. n : at(i) \in Nat
  <2> TAKE i \in 1 .. n
  <2>1. at(i) \in {at(k) : k \in 1 .. n} OBVIOUS
  <2> HIDE DEF at, n
  <2>2. QED BY <1>4, <1>5, <2>1
<1>9. at(1) = 0
  <2>1. 0 \in {at(k) : k \in 1 .. n}
    <3> HIDE DEF at, n
    <3>1. QED BY <1>4, <1>5, <1>6
  <2>2. PICK k \in 1 .. n : at(k) = 0 BY <2>1
  <2> HIDE DEF at
  <2>3. 1 \in 1 .. n /\ (k # 1 => at(1) < at(k)) BY <1>2, <1>4
  <2>4. QED BY <1>8, <2>2, <2>3
<1> HIDE DEF at
<1>10. x \in Begun(v)
  <2>1. at(l) <= v
    <3>1. CASE l = 1 BY <1>9, <3>1
    <3>2. CASE l # 1
      <4>1. l \in 2 .. l BY <1>2, <1>3, <3>2
      <4>2. QED BY <1>3, <4>1
    <3>3. QED BY <3>1, <3>2
  <2> HIDE DEF n
  <2>2. QED BY <1>3, <1>7, <2>1
<1>11. ASSUME NEW y \in Begun(v) PROVE y <= x
  <2>1. PICK k \in 1 .. n : at(k) <= v /\ y = at(k) BY <1>7
  <2> HIDE DEF n
  <2>2. ASSUME NEW j \in 2 .. k PROVE at(j) <= v
    <3>1. j \in 1 .. n /\ j \in Int /\ k \in Int BY <1>2, <2>1
    <3>2. at(j) \in Nat /\ at(k) \in Nat BY <1>8, <2>1, <3>1
    <3>3. j = k \/ at(j) < at(k) BY <1>4, <3>1, <2>1
    <3>4. QED BY <2>1, <3>2, <3>3
  <2>3. k <= l BY <1>3, <2>1, <2>2
  <2>4. k = l \/ at(k) < at(l) BY <1>2, <1>3, <1>4, <2>1, <2>3
  <2>5. QED BY <1>3, <1>8, <2>1, <2>4
<1>12. FunctionAround(v) = x BY <1>10, <1>11, AroundIs
<1>13. QED BY <1>12 DEF NameOf, at, l

-----------------------------------------------------------------------------
(* What an instruction does to the innermost activation, and to memory.    *)

\* Where activation a goes on.
Pc(m, a) == IF a.inSyscall THEN FetchWord(m, a.ps) ELSE a.pc

\* Control stays in the function.
Follows ==
  /\ Opcode \notin {"ENTER", "LEAVE"}
  /\ \E e \in Indices(Insns) : Lies(A.pc, e) /\ Lies(Pc(image', acts'[Level]), e)

\* Control goes on at pc, in the same activation.
GoesTo(pc) == acts'[Level].pc = pc /\ ~ acts'[Level].inSyscall

LEMMA DispatchGoes ==
  ASSUME Sound, Running, NEW c, NEW pc, NEW ps, NEW n, MovedTo(A, c, pc, ps, n),
         Dispatch(c) \/ Dispatch2(c)
  PROVE  GoesTo(pc)
<1>1. A \in ActivationRecord /\ Level \in DOMAIN acts /\ ~ A.inSyscall
  BY RunningTyped, SoundFacts DEF Sound, Running
<1>2. MovedTo(A, Reloaded(c), pc, ps, n) BY <1>1, ReloadMoves
<1>3. acts'[Level] = c \/ acts'[Level] = Reloaded(c)
  BY <1>1 DEF Dispatch, Dispatch2, Continue
<1>4. QED BY <1>1, <1>2, <1>3 DEF MovedTo, GoesTo

LEMMA FallsOn ==
  ASSUME Sound, NEW ops, At(ops), ops \cap (Diverts \cup {"ENTER"}) = {},
         Pc(image', acts'[Level]) = A.pc + 1 + OperandWords(Opcode)
  PROVE  Follows
<1>1. Running BY DEF At
<1>2. PICK e \in Indices(Insns), i \in Indices(Insns) : Here(e, i) BY <1>1, SomewhereHere
<1>3. /\ Opcode = Op(Insns, i) /\ Opcode \in ops /\ InFunction(Insns, e, i)
      /\ A.pc = Place(prog, i)
      /\ Opcode \notin Diverts =>
           /\ i + 1 \in Indices(Insns) /\ InFunction(Insns, e, i + 1)
           /\ Op(Insns, i + 1) # "ENTER"
           /\ Place(prog, i + 1) = A.pc + 1 + OperandWords(Opcode)
  BY <1>2, NextInstruction
<1>4. Opcode \notin {"ENTER", "LEAVE"} /\ Opcode \notin Diverts BY <1>3 DEF Diverts
<1>5. Lies(A.pc, e) /\ Lies(Pc(image', acts'[Level]), e) BY <1>2, <1>3, <1>4 DEF Lies
<1>6. QED BY <1>4, <1>5 DEF Follows

LEMMA ComputingFollows ==
  ASSUME Sound, status' = "ok",
         \/ Nothing \/ PushCached \/ LoadValue \/ PushStale \/ Pop \/ Unary \/ Binary
         \/ StoreValue \/ Argument \/ BlockCopy
  PROVE  Follows
<1>1. Running
  BY DEF Nothing, PushCached, LoadValue, PushStale, Pop, Unary, Binary, StoreValue, Argument,
         BlockCopy, At
<1>2. A \in ActivationRecord /\ A.pc \in Int BY <1>1, RunningTyped DEF Sound
<1>3. ASSUME NEW ops, At(ops), ops \cap (Diverts \cup {"ENTER"}) = {},
             NEW c, Dispatch(c) \/ Dispatch2(c), NEW pc, NEW n, MovedTo(A, c, pc, A.ps, n),
             pc = A.pc + 1 + OperandWords(Opcode)
      PROVE  Follows
  <2>1. GoesTo(pc) BY <1>1, <1>3, DispatchGoes
  <2>2. Pc(image', acts'[Level]) = pc BY <2>1 DEF GoesTo, Pc
  <2>3. QED BY <1>3, <2>2, FallsOn
<1>4. CASE Nothing \/ PushStale \/ Pop
  <2> DEFINE pc == A.pc + 1
             ops == {"IGNORE", "BREAK", "PUSH", "POP"}
  <2>1. PICK n \in {A.ofs, Slot(A.ofs + 1), Slot(A.ofs - 1)} :
          At(ops) /\ (Dispatch([A EXCEPT !.pc = pc, !.ofs = n]) \/ Dispatch2([A EXCEPT !.pc = pc]))
    BY <1>4 DEF Nothing, PushStale, Pop, At
  <2>2. ops \cap (Diverts \cup {"ENTER"}) = {} BY DEF Diverts
  <2>3. pc = A.pc + 1 + OperandWords(Opcode)
    <3>1. Opcode \in ops BY <2>1 DEF At
    <3>2. OperandWords(Opcode) = 0 BY <3>1, Effects
    <3>3. QED BY <1>2, <3>2
  <2> HIDE DEF pc, ops
  <2>4. /\ MovedTo(A, [A EXCEPT !.pc = pc, !.ofs = n], pc, A.ps, n)
        /\ MovedTo(A, [A EXCEPT !.pc = pc], pc, A.ps, A.ofs)
    BY <1>2, Moved
  <2>5. QED BY <1>3, <2>1, <2>2, <2>3, <2>4
<1>5. CASE PushCached
  <2> DEFINE v == IF Opcode = "CONST" THEN R2 ELSE Signed(R2 + A.ps)
             pc == A.pc + 2
             n == Slot(A.ofs + 1)
             c == [A EXCEPT !.pc = pc, !.ofs = n, !.opStack[n] = v, !.r0 = v, !.r1 = A.r0]
             ops == {"CONST", "LOCAL"}
  <2>1. At(ops) /\ Dispatch2(c) BY <1>5 DEF PushCached
  <2>2. ops \cap (Diverts \cup {"ENTER"}) = {} BY DEF Diverts
  <2>3. pc = A.pc + 1 + OperandWords(Opcode)
    <3>1. Opcode \in ops BY <2>1 DEF At
    <3>2. OperandWords(Opcode) = 1 BY <3>1, Effects
    <3>3. QED BY <1>2, <3>2
  <2> HIDE DEF pc, ops, v, n
  <2>4. MovedTo(A, c, pc, A.ps, n) BY <1>2, Moved
  <2> HIDE DEF c
  <2>5. QED BY <1>3, <2>1, <2>2, <2>3, <2>4
<1>6. CASE LoadValue
  <2> DEFINE a == Masked(A.r0)
             v == CASE Opcode = "LOAD4" -> FetchWord(image, a)
                    [] Opcode = "LOAD2" -> Fetch2(image, a)
                    [] Opcode = "LOAD1" -> Fetch1(image, a)
             pc == A.pc + 1
             o == A.ofs
             c == [A EXCEPT !.pc = pc, !.opStack[o] = v, !.r0 = v]
  <2>1. At(Load) /\ Dispatch2(c) BY <1>6 DEF LoadValue
  <2>2. Load \cap (Diverts \cup {"ENTER"}) = {} BY DEF Diverts, Load
  <2>3. pc = A.pc + 1 + OperandWords(Opcode)
    <3>1. Opcode \in Load BY <2>1 DEF At
    <3>2. OperandWords(Opcode) = 0 BY <3>1, Effects
    <3>3. QED BY <1>2, <3>2
  <2> HIDE DEF pc, v, o
  <2>4. MovedTo(A, c, pc, A.ps, A.ofs) BY <1>2, Moved
  <2> HIDE DEF c
  <2>5. QED BY <1>3, <2>1, <2>2, <2>3, <2>4
<1>7. CASE Unary
  <2> DEFINE x == IF Opcode \in {"NEGI", "BCOM"} THEN A.r0 ELSE First
             v == UnaryResult(Opcode, x)
             pc == A.pc + 1
             o == A.ofs
             c == [A EXCEPT !.pc = pc, !.opStack[o] = v]
             ops == IntUnary \cup FloatUnary
  <2>1. At(ops) /\ Dispatch(c) BY <1>7 DEF Unary
  <2>2. ops \cap (Diverts \cup {"ENTER"}) = {} BY DEF Diverts, IntUnary, FloatUnary
  <2>3. pc = A.pc + 1 + OperandWords(Opcode)
    <3>1. Opcode \in ops BY <2>1 DEF At
    <3>2. OperandWords(Opcode) = 0 BY <3>1, Effects
    <3>3. QED BY <1>2, <3>2
  <2> HIDE DEF pc, v, ops, o
  <2>4. MovedTo(A, c, pc, A.ps, A.ofs) BY <1>2, Moved
  <2> HIDE DEF c
  <2>5. QED BY <1>3, <2>1, <2>2, <2>3, <2>4
<1>8. CASE Binary
  <2> DEFINE x == IF Opcode \in FloatBinary THEN Second ELSE A.r1
             y == IF Opcode \in FloatBinary THEN First ELSE A.r0
             pc == A.pc + 1
             n == Slot(A.ofs - 1)
             v == BinaryResult(Opcode, x, y)
             c == [A EXCEPT !.pc = pc, !.ofs = n, !.opStack[n] = v]
             ops == IntBinary \cup FloatBinary
  <2>1. At(ops) /\ Dispatch(c) BY <1>8 DEF Binary, Halt
  <2>2. ops \cap (Diverts \cup {"ENTER"}) = {} BY DEF Diverts, IntBinary, FloatBinary
  <2>3. pc = A.pc + 1 + OperandWords(Opcode)
    <3>1. Opcode \in ops BY <2>1 DEF At
    <3>2. OperandWords(Opcode) = 0 BY <3>1, Effects
    <3>3. QED BY <1>2, <3>2
  <2> HIDE DEF pc, v, ops, n
  <2>4. MovedTo(A, c, pc, A.ps, n) BY <1>2, Moved
  <2> HIDE DEF c
  <2>5. QED BY <1>3, <2>1, <2>2, <2>3, <2>4
<1>9. CASE StoreValue
  <2> DEFINE pc == A.pc + 1
             n == Slot(A.ofs - 2)
             c == [A EXCEPT !.pc = pc, !.ofs = n]
  <2>1. At(Store) /\ Dispatch(c) BY <1>9 DEF StoreValue
  <2>2. Store \cap (Diverts \cup {"ENTER"}) = {} BY DEF Diverts, Store
  <2>3. pc = A.pc + 1 + OperandWords(Opcode)
    <3>1. Opcode \in Store BY <2>1 DEF At
    <3>2. OperandWords(Opcode) = 0 BY <3>1, Effects
    <3>3. QED BY <1>2, <3>2
  <2> HIDE DEF pc, n
  <2>4. MovedTo(A, c, pc, A.ps, n) BY <1>2, Moved
  <2> HIDE DEF c
  <2>5. QED BY <1>3, <2>1, <2>2, <2>3, <2>4
<1>10. CASE Argument \/ BlockCopy
  <2> DEFINE pc == A.pc + 2
             ops == {"ARG", "BLOCK_COPY"}
  <2>1. PICK n \in {Slot(A.ofs - 1), Slot(A.ofs - 2)} :
          At(ops) /\ Dispatch([A EXCEPT !.pc = pc, !.ofs = n])
    BY <1>10 DEF Argument, BlockCopy, Halt, At
  <2>2. ops \cap (Diverts \cup {"ENTER"}) = {} BY DEF Diverts
  <2>3. pc = A.pc + 1 + OperandWords(Opcode)
    <3>1. Opcode \in ops BY <2>1 DEF At
    <3>2. OperandWords(Opcode) = 1 BY <3>1, Effects
    <3>3. QED BY <1>2, <3>2
  <2> HIDE DEF pc, ops
  <2>4. MovedTo(A, [A EXCEPT !.pc = pc, !.ofs = n], pc, A.ps, n) BY <1>2, Moved
  <2>5. QED BY <1>3, <2>1, <2>2, <2>3, <2>4
<1>11. QED BY <1>4, <1>5, <1>6, <1>7, <1>8, <1>9, <1>10

LEMMA JumpingFollows ==
  ASSUME Sound, status' = "ok", Branch \/ Jump
  PROVE  Follows
<1>1. Running BY DEF Branch, Jump, At
<1>2. A \in ActivationRecord /\ A.pc \in Int BY <1>1, RunningTyped DEF Sound
<1>3. PICK e \in Indices(Insns), i \in Indices(Insns) : Here(e, i) BY <1>1, SomewhereHere
<1>4. Len(Insns) \in Nat BY CodeTyped DEF Sound
<1>5. CASE Branch
  <2> DEFINE n == Slot(A.ofs - 2)
  <2>1. At(CondBranch) /\ \E pc \in {R2, A.pc + 2} : Dispatch([A EXCEPT !.pc = pc, !.ofs = n])
    BY <1>5 DEF Branch
  <2>2. PICK pc \in {R2, A.pc + 2} : Dispatch([A EXCEPT !.pc = pc, !.ofs = n]) BY <2>1
  <2> HIDE DEF n
  <2>3. MovedTo(A, [A EXCEPT !.pc = pc, !.ofs = n], pc, A.ps, n) BY <1>2, Moved
  <2>4. GoesTo(pc) BY <1>1, <2>2, <2>3, DispatchGoes
  <2>5. Pc(image', acts'[Level]) = pc BY <2>4 DEF Pc, GoesTo
  <2>6. /\ Opcode = Op(Insns, i) /\ Opcode \in CondBranch /\ InFunction(Insns, e, i)
        /\ A.pc = Place(prog, i)
        /\ Opcode \in CondBranch =>
             /\ Arg(Insns, i) \in Indices(Insns) /\ R2 = Place(prog, Arg(Insns, i))
             /\ SameFunction(Insns, i, Arg(Insns, i)) /\ Op(Insns, Arg(Insns, i)) # "ENTER"
    BY <1>3, <2>1, NextInstruction
  <2>7. CASE pc = R2
    <3>1. InFunction(Insns, e, Arg(Insns, i)) BY <1>4, <2>6, WithinFunction
    <3>2. Opcode \notin {"ENTER", "LEAVE"} BY <2>6 DEF CondBranch, IntBranch, FloatBranch
    <3>3. Lies(A.pc, e) /\ Lies(pc, e) BY <1>3, <2>6, <2>7, <3>1, <3>2 DEF Lies
    <3>4. QED BY <2>5, <3>2, <3>3 DEF Follows
  <2>8. CASE pc = A.pc + 2
    <3>1. OperandWords(Opcode) = 1 BY <2>6, Effects
    <3>2. Pc(image', acts'[Level]) = A.pc + 1 + OperandWords(Opcode) BY <1>2, <2>5, <2>8, <3>1
    <3>3. CondBranch \cap (Diverts \cup {"ENTER"}) = {}
      BY DEF Diverts, CondBranch, IntBranch, FloatBranch
    <3>4. QED BY <2>1, <3>2, <3>3, FallsOn
  <2>9. QED BY <2>2, <2>7, <2>8
<1>6. CASE Jump
  <2> DEFINE j == A.r0
             pc == code.pointers[j]
             n == Slot(A.ofs - 1)
  <2>1. /\ At({"JUMP"}) /\ Dispatch([A EXCEPT !.pc = pc, !.ofs = n]) /\ j \in 0 .. code.count - 1
    BY <1>6 DEF Jump, Halt
  <2>2. j \in Indices(Insns) BY <2>1, CodeFacts DEF Indices, Insns, Sound
  <2>3. /\ Opcode = Op(Insns, i) /\ Opcode \in {"JUMP"} /\ InFunction(Insns, e, i)
        /\ A.pc = Place(prog, i)
    BY <1>3, <2>1, NextInstruction
  <2>4. SameFunction(Insns, i, j) /\ Op(Insns, j) # "ENTER"
    <3>1. i \in DOMAIN code.pointers /\ code.pointers[i] = A.pc
      <4>1. DOMAIN code.pointers = Indices(Insns) BY CodeFacts DEF Indices, Insns, Sound
      <4>2. QED BY <1>3, <2>3, <4>1, CodeAt DEF Sound
    <3>2. QED BY <2>1, <2>2, <3>1, SoundFacts DEF WellBehaved, Insns
  <2> HIDE DEF j, n
  <2>5. InFunction(Insns, e, j) BY <1>4, <2>3, <2>4, WithinFunction
  <2>6. pc = Place(prog, j) BY <2>2, CodeAt DEF Sound
  <2> HIDE DEF pc
  <2>7. MovedTo(A, [A EXCEPT !.pc = pc, !.ofs = n], pc, A.ps, n) BY <1>2, Moved
  <2>8. GoesTo(pc) BY <1>1, <2>1, <2>7, DispatchGoes
  <2>9. Pc(image', acts'[Level]) = pc BY <2>8 DEF Pc, GoesTo
  <2>10. Lies(A.pc, e) /\ Lies(pc, e) BY <1>3, <2>2, <2>3, <2>4, <2>5, <2>6 DEF Lies
  <2>11. QED BY <2>3, <2>9, <2>10 DEF Follows
<1>7. QED BY <1>5, <1>6

\* A system call returns behind the OP_CALL.
LEMMA AskingFollows ==
  ASSUME Sound, status' = "ok", CallSystem
  PROVE  Follows /\ SameOwned(image, image', frames, acts)
<1>1. At({"CALL"}) /\ Running BY DEF CallSystem, At
<1>2. /\ A \in ActivationRecord /\ A.ps \in Int /\ A.pc \in Int /\ Level > 0 /\ Level \in DOMAIN acts
  BY <1>1, RunningTyped, SoundFacts DEF Sound
<1> DEFINE B == Below(frames, acts, Level, Calls)
           v == -1 - A.r0
           m1 == SavedPc(image)
           m == Put(m1, A.ps + 4, 4, v)
           t == FetchWord(image, A.ps + 4)
           b == [Called EXCEPT !.pc = A.r0, !.inSyscall = TRUE, !.stomped = t]
<1>3. /\ Roomy(A.ps) /\ A.ps + 8 <= B /\ B \in Int
      /\ m1 \in Memory /\ FetchWord(m1, A.ps) = A.pc + 1
      /\ \A x \in 0 .. MemSize + 3 : x >= B => m1[x] = image[x]
  BY <1>1, Calling
<1>4. image' = m /\ acts' = [acts EXCEPT ![Level] = b]
  BY DEF CallSystem, Continue, Halt
<1>5. acts'[Level].inSyscall /\ acts'[Level].ps = A.ps
  <2>1. b.inSyscall /\ b.ps = A.ps
    <3> HIDE DEF t
    <3>1. QED BY <1>2 DEF Called, ActivationRecord
  <2> HIDE DEF b
  <2>2. QED BY <1>2, <1>4, <2>1
<1> HIDE DEF v, m1, b, t
<1>6. DOMAIN m1 = 0 .. MemSize + 3 /\ A.ps .. A.ps + 3 \subseteq 0 .. MemSize + 3
  BY <1>2, <1>3, Sizes DEF Roomy, Memory
<1>7. FetchWord(m, A.ps) = A.pc + 1
  <2> DEFINE a == A.ps
  <2>1. \A x \in a .. a + 3 : m[x] = m1[x] BY <1>2, <1>6 DEF Put
  <2>2. a \in Int BY <1>2
  <2> HIDE DEF m, a
  <2>3. FetchWord(m, a) = FetchWord(m1, a) BY <2>1, <2>2, SameFetch
  <2>4. QED BY <1>3, <2>3 DEF a
<1>8. \A x \in 0 .. MemSize + 3 : x >= B => m[x] = image[x]
  <2> HIDE DEF B
  <2>1. QED BY <1>2, <1>3, <1>6 DEF Put
<1> HIDE DEF m
<1>9. SameOwned(image, m, frames, acts) BY <1>2, <1>8, LowStores
<1>10. Follows
  <2>1. OperandWords(Opcode) = 0
    <3>1. Opcode = "CALL" BY <1>1 DEF At
    <3>2. QED BY <3>1, Effects
  <2>2. Pc(image', acts'[Level]) = A.pc + 1 + OperandWords(Opcode)
    BY <1>2, <1>4, <1>5, <1>7, <2>1 DEF Pc
  <2>3. {"CALL"} \cap (Diverts \cup {"ENTER"}) = {} BY DEF Diverts
  <2>4. QED BY <1>1, <2>2, <2>3, FallsOn
<1>11. QED BY <1>4, <1>9, <1>10

\* A function is called at its OP_ENTER.
LEMMA CallingLands ==
  ASSUME Sound, CallFunction
  PROVE  /\ OpcodeNumbered(code.image[Pc(image', acts'[Level])]) = "ENTER"
         /\ SameOwned(image, image', frames, acts)
<1>1. At({"CALL"}) /\ Running BY DEF CallFunction, At
<1>2. A \in ActivationRecord /\ Level > 0 BY <1>1, RunningTyped DEF Sound
<1> DEFINE j == A.r0
           pc == code.pointers[j]
           n == Slot(A.ofs - 1)
           B == Below(frames, acts, Level, Calls)
           m == SavedPc(image)
<1>3. \A x \in 0 .. MemSize + 3 : x >= B => m[x] = image[x] BY <1>1, Calling
<1>4. /\ Dispatch([[A EXCEPT !.ofs = n] EXCEPT !.pc = pc]) /\ j \in 0 .. code.count - 1
      /\ image' = m
  BY DEF CallFunction, Called
<1>5. j \in Indices(Insns) BY <1>4, CodeFacts DEF Indices, Insns, Sound
<1>6. Op(Insns, j) = "ENTER" BY <1>1, <1>5, SoundFacts DEF WellBehaved, Insns
<1> HIDE DEF j, n, m
<1>7. OpcodeNumbered(code.image[pc]) = "ENTER" BY <1>5, <1>6, CodeAt DEF Sound
<1> HIDE DEF pc
<1>8. MovedTo(A, [[A EXCEPT !.ofs = n] EXCEPT !.pc = pc], pc, A.ps, n) BY <1>2, Moved
<1>9. GoesTo(pc) BY <1>1, <1>4, <1>8, DispatchGoes
<1>10. SameOwned(image, m, frames, acts) BY <1>2, <1>3, LowStores
<1>11. QED BY <1>4, <1>7, <1>9, <1>10 DEF Pc, GoesTo

\* OP_ENTER and OP_LEAVE, after which the symbol is looked up.
LEMMA EnteringLands ==
  ASSUME Sound, status' = "ok", Enter
  PROVE  /\ Does("ENTER") /\ ~ acts'[Level].inSyscall /\ acts'[Level].pc \in Nat
         /\ SameOwned(image, image', frames, acts)
<1>1. At({"ENTER"}) /\ Running BY DEF Enter, At
<1>2. /\ A \in ActivationRecord /\ A.pc \in Int /\ A.ps \in Int /\ Level > 0
      /\ image \in Memory /\ DOMAIN image = 0 .. MemSize + 3
  BY <1>1, RunningTyped, SoundFacts DEF Sound, Memory
<1>3. PICK e \in Indices(Insns), i \in Indices(Insns) : Here(e, i) BY <1>1, SomewhereHere
<1> DEFINE B == Below(frames, acts, Level, Calls)
           pc == A.pc + 2
           ps == A.ps - R2
           m == Put(image, FrameNote, 4, A.ps)
<1>4. /\ Opcode = Op(Insns, i) /\ Opcode \in {"ENTER"} /\ A.pc \in Nat
      /\ Opcode \in HasOperand \ CondBranch => R2 = Arg(Insns, i)
  BY <1>1, <1>3, NextInstruction
<1>5. R2 = Arg(Insns, i) /\ R2 \in Int /\ R2 >= 8
  <2>1. "ENTER" \in HasOperand \ CondBranch
    BY DEF HasOperand, HasI4Operand, CondBranch, IntBranch, FloatBranch
  <2>2. R2 = Arg(Insns, i) BY <1>4, <2>1
  <2>3. QED BY <1>4, <2>2, CodeTyped, SoundFacts DEF WellFormed, Sound
<1>6. A.ps = B BY <1>3, <1>4 DEF Here, RunsAt, A, Insns
<1>7. image' = m /\ Dispatch([A EXCEPT !.pc = pc, !.ps = ps]) BY DEF Enter, Halt
<1>8. \A x \in 0 .. MemSize + 3 : x >= B => m[x] = image[x]
  <2>1. \A x \in FrameNote .. FrameNote + 3 : x < A.ps BY <1>2, <1>5 DEF FrameNote
  <2>2. \A x \in 0 .. MemSize + 3 : x \notin FrameNote .. FrameNote + 3 => m[x] = image[x]
    BY <1>2 DEF Put
  <2> HIDE DEF B, m
  <2>3. \A x \in 0 .. MemSize + 3 : x >= B => x \notin FrameNote .. FrameNote + 3
    BY <1>2, <1>6, <2>1
  <2>4. QED BY <2>2, <2>3
<1> HIDE DEF m
<1>9. SameOwned(image, m, frames, acts) BY <1>2, <1>8, LowStores
<1>10. GoesTo(pc)
  <2> HIDE DEF pc, ps
  <2>1. MovedTo(A, [A EXCEPT !.pc = pc, !.ps = ps], pc, ps, A.ofs) BY <1>2, Moved
  <2>2. QED BY <1>1, <1>7, <2>1, DispatchGoes
<1>11. Does("ENTER") BY <1>1, <1>4 DEF Does, Fetched, At
<1>12. QED BY <1>4, <1>7, <1>9, <1>10, <1>11 DEF GoesTo

LEMMA LeavingLands ==
  ASSUME Sound, status' = "ok", Leave
  PROVE  /\ Does("LEAVE") /\ ~ acts'[Level].inSyscall /\ acts'[Level].pc \in Nat
         /\ image' = image
<1>1. At({"LEAVE"}) /\ Running /\ Opcode = "LEAVE" BY DEF Leave, At
<1>2. A \in ActivationRecord BY <1>1, RunningTyped DEF Sound
<1> DEFINE pc == SavedReturn
           ps == CallerPs
<1>3. /\ image' = image /\ pc \in 0 .. code.length - 1 /\ Dispatch([A EXCEPT !.pc = pc, !.ps = ps])
  BY DEF Leave, Halt
<1>4. pc \in Nat BY <1>3
<1> HIDE DEF pc, ps
<1>5. MovedTo(A, [A EXCEPT !.pc = pc, !.ps = ps], pc, ps, A.ofs) BY <1>2, Moved
<1>6. GoesTo(pc) BY <1>1, <1>3, <1>5, DispatchGoes
<1>7. Does("LEAVE") BY <1>1 DEF Does, Fetched, At
<1>8. QED BY <1>3, <1>4, <1>6, <1>7 DEF GoesTo

LEMMA InstructionOwns ==
  ASSUME Sound, Instruction, status' = "ok"
  PROVE  SameOwned(image, image', frames, acts)
<1>0. DOMAIN image = 0 .. MemSize + 3 BY SoundFacts DEF Memory
<1>1. CASE StoreValue \/ BlockCopy
  <2> DEFINE ops == Store \cup {"BLOCK_COPY"}
  <2>1. At(ops) /\ Running BY <1>1 DEF StoreValue, BlockCopy, At
  <2>2. ops \cap (Diverts \cup {"ENTER"}) = {} BY DEF Diverts, Store
  <2>3. \A x \in 0 .. MemSize + 3 : x \notin Written => image'[x] = image[x]
    <3>1. CASE StoreValue
      <4>1. At(Store) /\ image' = Put(image, Masked(A.r1), StoreBytes[Opcode], A.r0)
        BY <3>1 DEF StoreValue
      <4>2. QED BY <1>0, <4>1 DEF Written, Put
    <3>2. CASE BlockCopy
      <4>1. At({"BLOCK_COPY"}) /\ image' = Copied(image, A.r1, A.r0, R2)
        BY <3>2 DEF BlockCopy, Halt
      <4>2. ~ At(Store) BY <4>1 DEF At, Store
      <4>3. QED BY <1>0, <4>1, <4>2 DEF Written, Copied
    <3>3. QED BY <1>1, <3>1, <3>2
  <2> HIDE DEF ops
  <2>4. QED BY <2>1, <2>2, <2>3, OutsideWritten
<1>2. CASE Argument BY <1>2, ArgumentApart
<1>3. CASE CallFunction BY <1>3, CallingLands
<1>4. CASE CallSystem BY <1>4, AskingFollows
<1>5. CASE Enter BY <1>5, EnteringLands
<1>6. CASE \/ Nothing \/ PushCached \/ LoadValue \/ PushStale \/ Pop \/ Unary \/ Binary
           \/ Branch \/ Jump \/ Leave \/ LeaveVM
  <2>1. image' = image
    BY <1>6 DEF Nothing, PushCached, LoadValue, PushStale, Pop, Unary, Binary, Branch, Jump, Leave,
                LeaveVM, Halt
  <2>2. QED BY <2>1, MemoryKept
<1>7. CASE FetchError \/ OperandMissing \/ BadInstruction \/ LoadMisaligned
           \/ CallWild \/ CallOutOfRange \/ LeaveWild
  BY <1>7 DEF FetchError, OperandMissing, BadInstruction, LoadMisaligned, CallWild,
              CallOutOfRange, LeaveWild, Halt
<1>8. QED BY <1>1, <1>2, <1>3, <1>4, <1>5, <1>6, <1>7 DEF Instruction

LEMMA InstructionLands ==
  ASSUME Sound, Instruction, status' = "ok", Len(acts') = Level
  PROVE  \/ Follows
         \/ OpcodeNumbered(code.image[Pc(image', acts'[Level])]) = "ENTER"
         \/ /\ Does("ENTER") \/ Does("LEAVE")
            /\ ~ acts'[Level].inSyscall /\ acts'[Level].pc \in Nat
<1>1. CASE \/ Nothing \/ PushCached \/ LoadValue \/ PushStale \/ Pop \/ Unary \/ Binary
           \/ StoreValue \/ Argument \/ BlockCopy
  BY <1>1, ComputingFollows
<1>2. CASE Branch \/ Jump BY <1>2, JumpingFollows
<1>3. CASE CallFunction BY <1>3, CallingLands
<1>4. CASE CallSystem BY <1>4, AskingFollows
<1>5. CASE Enter BY <1>5, EnteringLands
<1>6. CASE Leave BY <1>6, LeavingLands
<1>7. CASE LeaveVM
  <2>1. acts' = SubSeq(acts, 1, Level - 1) /\ Level > 0 BY <1>7 DEF LeaveVM, Halt, At, Running
  <2>2. Level \in Nat \ {0} /\ acts \in Seq(ActivationRecord) /\ Level = Len(acts)
    BY <2>1, SoundFacts
  <2>3. Len(SubSeq(acts, 1, Level - 1)) = Level - 1 BY <2>2
  <2>4. QED BY <2>1, <2>2, <2>3
<1>8. CASE FetchError \/ OperandMissing \/ BadInstruction \/ LoadMisaligned
           \/ CallWild \/ CallOutOfRange \/ LeaveWild
  BY <1>8 DEF FetchError, OperandMissing, BadInstruction, LoadMisaligned, CallWild,
              CallOutOfRange, LeaveWild, Halt
<1>9. QED BY <1>1, <1>2, <1>3, <1>4, <1>5, <1>6, <1>7, <1>8 DEF Instruction

\* The answer to a system call goes on where the activation waited.
LEMMA AnswerLands ==
  ASSUME Sound, NEW v \in HostReplies, NEW w \in HostWrites, SystemCallReturns(v, w)
  PROVE  /\ Level > 0 /\ \E b : acts' = [acts EXCEPT ![Level] = b]
         /\ Pc(image', acts'[Level]) = Pc(image, acts[Level])
         /\ SameOwned(image, image', frames, acts)
<1> DEFINE B == Below(frames, acts, Level, Calls)
           m1 == Overwritten(image, w)
           m == Restored(m1)
           n == Slot(A.ofs + 1)
           c == [A EXCEPT !.inSyscall = FALSE, !.ofs = n, !.opStack[n] = v, !.pc = FetchWord(m, A.ps)]
<1>1. InSyscall /\ Level > 0 /\ A.inSyscall BY DEF SystemCallReturns, InSyscall
<1>2. /\ Level \in DOMAIN acts /\ A \in ActivationRecord /\ A.ps \in Int
      /\ image \in Memory /\ DOMAIN image = 0 .. MemSize + 3
  <2>1. Level \in DOMAIN acts /\ A \in ActivationRecord /\ image \in Memory
    BY <1>1, SoundFacts DEF A
  <2>2. QED BY <2>1 DEF ActivationRecord, Memory
<1>3. Suspended(prog, image, frames, acts, Level, Calls) BY <1>1, SuspendedHere
<1>4. /\ Roomy(A.ps) /\ A.stomped = B
      /\ Waits(prog, frames, acts, FetchWord(image, A.ps), A.ps, A.ofs, Level, Calls)
  BY <1>3 DEF Suspended, A
<1>5. B \in Int /\ A.ps + 8 <= B
  <2>1. PICK e, i \in Indices(Insns) : InFunction(Insns, e, i) /\ A.ps = B - Arg(Insns, e)
    BY <1>4 DEF Waits, Insns
  <2>2. Arg(Insns, e) >= 8 /\ Arg(Insns, e) \in Int
    BY <2>1, SoundFacts, CodeTyped DEF WellFormed, Sound, InFunction
  <2>3. B \in Int BY <1>1, Lowest
  <2> HIDE DEF B
  <2>4. QED BY <2>1, <2>2, <2>3
<1>6. image' = m /\ Dispatch(c) BY DEF SystemCallReturns
<1>7. SameOwned(image, m1, frames, acts) /\ SameAt(image, m1, A.ps) /\ DOMAIN m1 = 0 .. MemSize + 3
  <2>1. DOMAIN w \cap Reserved = {} BY <1>1, SoundFacts DEF WellBehaved
  <2>2. \A x \in (0 .. MemSize + 3) \cap Reserved : m1[x] = image[x] BY <1>2, <2>1 DEF Overwritten
  <2>3. DOMAIN m1 = 0 .. MemSize + 3 BY <1>2 DEF Overwritten
  <2> HIDE DEF m1
  <2>4. QED BY <1>1, <1>4, <2>2, <2>3, OtherStores
<1>8. m = Put(m1, A.ps + 4, 4, B) BY <1>4 DEF Restored
<1> HIDE DEF m1, m
<1>9. FetchWord(m, A.ps) = FetchWord(image, A.ps)
  <2> DEFINE a == A.ps
  <2>1. a .. a + 3 \subseteq 0 .. MemSize + 3 BY <1>4, Sizes DEF Roomy
  <2>2. \A x \in a .. a + 3 : m[x] = m1[x] BY <1>2, <1>7, <1>8, <2>1 DEF Put
  <2>3. a \in Int BY <1>2
  <2> HIDE DEF a
  <2>4. FetchWord(m, a) = FetchWord(m1, a) BY <2>2, <2>3, SameFetch
  <2>5. QED BY <1>7, <2>4 DEF SameAt, a
<1>10. SameOwned(image, m, frames, acts)
  <2>1. \A x \in 0 .. MemSize + 3 : x >= B => m[x] = m1[x]
    <3> HIDE DEF B
    <3>1. QED BY <1>2, <1>5, <1>7, <1>8 DEF Put
  <2>2. SameOwned(m1, m, frames, acts) BY <1>1, <2>1, LowerStores
  <2>3. QED BY <1>7, <2>2 DEF SameOwned, SameAt
<1>11. /\ acts' = [acts EXCEPT ![Level] = Reloaded(c)]
       /\ acts'[Level].pc = FetchWord(m, A.ps) /\ ~ acts'[Level].inSyscall
  <2> DEFINE pc == FetchWord(m, A.ps)
  <2> HIDE DEF pc, n
  <2>1. ~ c.inSyscall /\ c.pc = pc /\ DOMAIN c = DOMAIN A BY <1>2 DEF ActivationRecord, pc
  <2> HIDE DEF c
  <2>2. ~ Reloaded(c).inSyscall /\ Reloaded(c).pc = pc BY <1>2, <2>1 DEF Reloaded, ActivationRecord
  <2>3. acts' = [acts EXCEPT ![Level] = Reloaded(c)] BY <1>6 DEF Dispatch, Continue
  <2>4. acts'[Level] = Reloaded(c) BY <1>2, <2>3
  <2>5. QED BY <2>2, <2>3, <2>4 DEF pc
<1>12. Pc(image', acts'[Level]) = Pc(image, acts[Level]) BY <1>1, <1>9, <1>11 DEF Pc, A
<1>13. QED BY <1>1, <1>6, <1>10, <1>11, <1>12

\* VM_Call begins at vmMain and changes nothing that waits.
LEMMA CallBegins ==
  ASSUME Sound, HostCalls, status' = "ok"
  PROVE  /\ \E b : acts' = Append(acts, b) /\ b.pc = 0 /\ ~ b.inSyscall
         /\ SameOwned(image, image', frames, acts)
         /\ Level > 0 => SameAt(image, image', acts[Level].ps)
<1>1. PICK args \in HostArgs, garbage \in Garbage : VM_Call(args, garbage) BY DEF HostCalls
<1> DEFINE b == Activation(vm.programStack, args[1], garbage)
           ws == <<-1, 0>> \o args
           p == vm.programStack
           a == p - FrameBytes
           n == NArgs + 2
           m == PutWords(image, a, n, ws)
<1>2. b.ps = a /\ b.pc = 0 /\ ~ b.inSyscall BY DEF Activation, Reloaded
<1>3. HostMayCall /\ image' = m /\ acts' = Append(acts, b) BY <1>1, <1>2 DEF VM_Call, Halt
<1>4. p \in Int /\ p <= MemSize
  <2>1. \A x \in 0 .. MemSize + 3 : x >= vm.programStack => image[x] = image[x] OBVIOUS
  <2>2. QED BY <1>3, <2>1, HostCallsBelow
<1>5. n \in Nat \ {0} /\ FrameBytes = 4 * n BY Sizes DEF FrameBytes
<1> HIDE DEF b, ws, n, p
<1>6. \A x \in 0 .. MemSize + 3 : x >= p => m[x] = image[x]
  <2>1. a \in Int /\ a + 4 * n = p BY <1>4, <1>5
  <2>2. DOMAIN image = 0 .. MemSize + 3 BY SoundFacts DEF Memory
  <2> HIDE DEF a
  <2>3. QED BY <1>4, <1>5, <2>1, <2>2 DEF PutWords
<1> HIDE DEF m
<1>7. SameOwned(image, m, frames, acts) /\ (Level > 0 => SameAt(image, m, acts[Level].ps))
  BY <1>3, <1>6, HostCallsBelow DEF p
<1>8. QED BY <1>2, <1>3, <1>7

-----------------------------------------------------------------------------
(* The symbol that is charged.                                             *)

LEMMA ProgramStays ==
  ASSUME [Next]_vars PROVE prog' = prog /\ code' = code
<1>1. CASE Instruction
  BY <1>1 DEF Instruction, FetchError, OperandMissing, BadInstruction, Nothing, PushCached,
         LoadMisaligned, LoadValue, StoreValue, Argument, BlockCopy, CallWild, CallFunction,
         CallOutOfRange, CallSystem, PushStale, Pop, Enter, LeaveWild, Leave, LeaveVM,
         Jump, Branch, Unary, Binary, Halt
<1>2. CASE HostReturns \/ HostCalls \/ VM_Free
  BY <1>2 DEF HostReturns, HostCalls, VM_Free, SystemCallReturns, VM_Call, Halt
<1>3. QED BY <1>1, <1>2 DEF Next, vars

\* Symbol s is right for activation a, if it is not at OP_ENTER.
Right(m, a, s) ==
  OpcodeNumbered(code.image[Pc(m, a)]) # "ENTER" => symbols[s].value = FunctionAround(Pc(m, a))

(***************************************************************************)
(* The inductive invariant: the file beside a program that has been called *)
(* is one of those, and each activation, the waiting ones included, has    *)
(* the symbol of the function in which it goes on.                         *)
(***************************************************************************)
ChargedInv ==
  /\ file \in Files /\ file.program = Insns /\ (acts # <<>> => file.called)
  /\ status = "ok" /\ symbols = file.symbols /\ symbols # <<>> =>
       \A k \in 1 .. Level : Right(image, acts[k], profiled[k])

LEMMA InitCharged == ProfileInit => ChargedInv
<1> SUFFICES ASSUME ProfileInit PROVE ChargedInv OBVIOUS
<1>1. file \in Files /\ file.program = Insns /\ acts = <<>>
  BY DEF ProfileInit, FileInit, Init, Insns
<1>2. 1 .. Level = {} BY <1>1 DEF Level
<1>3. QED BY <1>1, <1>2 DEF ChargedInv

LEMMA LoadingCharged ==
  ASSUME TypeInv, CountsInv, ChargedInv, LoadSymbols PROVE ChargedInv'
<1>1. UNCHANGED <<prog, acts, status>> /\ file' = file /\ reading = "loading"
  BY DEF LoadSymbols, vars, FileNext, NoFile, ReadSegment, SkipToken, ReadValue, NewSymbol,
         NoMemory, EndOfText, Overrun, Reads, AtEnd
<1>2. file' \in Files /\ file'.program = Insns' /\ (acts' # <<>> => file'.called)
  BY <1>1 DEF ChargedInv, Insns
<1>3. status' = "ok" => 1 .. Level' = {}
  <2>1. status = "ok" => acts' = <<>> BY <1>1 DEF CountsInv
  <2>2. QED BY <1>1, <2>1 DEF Level
<1>4. QED BY <1>2, <1>3 DEF ChargedInv

\* What the steps below have in common.
LEMMA ChargedSteps ==
  ASSUME TypeInv, ChargedInv, [Next]_vars, file' = file, symbols' = symbols,
         acts = <<>> /\ acts' # <<>> => file.called,
         status' = "ok" /\ symbols = file.symbols /\ symbols # <<>> =>
           \A k \in 1 .. Len(acts') : Right(image', acts'[k], profiled'[k])
  PROVE  ChargedInv'
<1>1. prog' = prog /\ code' = code BY ProgramStays
<1>2. file' \in Files /\ file'.program = Insns' /\ (acts' # <<>> => file'.called)
  BY <1>1 DEF ChargedInv, Insns
<1>3. ASSUME NEW k, Right(image', acts'[k], profiled'[k]) PROVE Right(image, acts[k], profiled[k])'
  BY <1>1, <1>3 DEF Right, Pc, FunctionAround
<1>4. Level' = Len(acts') BY DEF Level
<1>5. QED BY <1>2, <1>3, <1>4 DEF ChargedInv

LEMMA InstructionCharged ==
  ASSUME Sound, CountsInv, ChargedInv, Describes(file), ProfiledInstruction PROVE ChargedInv'
<1>1. /\ Instruction /\ [Next]_vars /\ symbols' = symbols /\ file' = file /\ profiled' = Relooked
  BY DEF ProfiledInstruction, fileVars, Next
<1>2. prog' = prog /\ code' = code BY <1>1, ProgramStays
<1>3. TypeInv /\ InterpInv /\ status = "ok" BY DEF Sound
<1>4. /\ Running /\ Level \in Nat \ {0} /\ Level = Len(acts) /\ DOMAIN acts = 1 .. Level
      /\ Len(acts') \in {Level, Level - 1}
  BY <1>1, <1>3, InstructionLevel
<1> SUFFICES ASSUME status' = "ok", symbols = file.symbols, symbols # <<>>,
                    NEW k \in 1 .. Len(acts')
             PROVE  Right(image', acts'[k], profiled'[k])
  <2>1. acts # <<>> BY <1>4
  <2>2. QED BY <1>1, <1>3, <2>1, ChargedSteps
<1>5. PICK S : symbols \in Seq(S) BY <1>3 DEF CountsInv
<1>6. /\ profiled \in Seq(Charged) /\ Len(profiled) = Level
      /\ \A j \in 1 .. Level : Right(image, acts[j], profiled[j])
  BY <1>3 DEF CountsInv, ChargedInv
<1>7. /\ \A j \in 1 .. Level - 1 : j <= Len(acts') => profiled'[j] = profiled[j]
      /\ Len(acts') = Level =>
           profiled'[Level] = IF Does("ENTER") \/ Does("LEAVE") THEN Lookup(acts'[Level].pc)
                              ELSE profiled[Level]
  BY <1>1, <1>3, <1>5, <1>6, RelookedTyped
<1>8. \A j \in 1 .. Level - 1 : acts'[j] = acts[j] BY <1>1, <1>3, <1>4, NextKeeps DEF Keeps, OuterStep
<1>9. CASE k < Level
  <2>1. k \in 1 .. Level - 1 /\ k <= Len(acts') BY <1>4, <1>9
  <2>2. acts'[k] = acts[k] /\ profiled'[k] = profiled[k] BY <1>7, <1>8, <2>1
  <2>3. FetchWord(image', acts[k].ps) = FetchWord(image, acts[k].ps)
    BY <1>1, <1>4, <2>1, InstructionOwns DEF SameOwned, SameAt
  <2>4. Pc(image', acts'[k]) = Pc(image, acts[k]) BY <2>2, <2>3 DEF Pc
  <2>5. Right(image, acts[k], profiled[k]) BY <1>6, <2>1
  <2>6. QED BY <2>2, <2>4, <2>5 DEF Right
<1>10. CASE k = Level
  <2> DEFINE pc == Pc(image', acts'[Level])
             s == profiled[Level]
  <2>1. Len(acts') = Level BY <1>4, <1>10
  <2>2. CASE Follows
    <3>1. PICK e \in Indices(Insns) : Lies(A.pc, e) /\ Lies(pc, e) BY <2>2 DEF Follows
    <3>2. FunctionAround(A.pc) = Place(prog, e) /\ OpcodeNumbered(code.image[A.pc]) # "ENTER"
      BY <1>3, <3>1, AroundLies
    <3>3. FunctionAround(pc) = Place(prog, e) BY <1>3, <3>1, AroundLies
    <3>4. Pc(image, acts[Level]) = A.pc BY <1>4 DEF Pc, Running, A
    <3>5. Right(image, acts[Level], s) BY <1>4, <1>6
    <3>6. symbols[s].value = FunctionAround(pc) BY <3>2, <3>3, <3>4, <3>5 DEF Right
    <3>7. profiled'[Level] = s BY <1>7, <2>1, <2>2 DEF Follows, Does
    <3> HIDE DEF s
    <3>8. Right(image', acts'[Level], s) BY <3>6 DEF Right
    <3>9. QED BY <1>10, <3>7, <3>8
  <2>3. CASE OpcodeNumbered(code.image[pc]) = "ENTER" BY <1>10, <2>3 DEF Right
  <2>4. CASE /\ Does("ENTER") \/ Does("LEAVE")
             /\ ~ acts'[Level].inSyscall /\ acts'[Level].pc \in Nat
    <3>1. pc = acts'[Level].pc /\ pc \in Nat BY <2>4 DEF Pc
    <3>2. Op(Insns, 0) = "ENTER" BY SoundFacts DEF WellFormed
    <3>3. Listed
      <4>1. acts # <<>> BY <1>4
      <4>2. QED BY <1>5, <4>1 DEF Listed, ChargedInv
    <3>4. profiled'[Level] = Lookup(pc) BY <1>7, <2>1, <2>4, <3>1
    <3> HIDE DEF pc
    <3>5. symbols[Lookup(pc)].value = FunctionAround(pc) BY <1>3, <3>1, <3>2, <3>3, NameRight DEF NameOf
    <3>6. Right(image', acts'[Level], Lookup(pc)) BY <3>5 DEF Right, pc
    <3>7. QED BY <1>10, <3>4, <3>6
  <2>5. QED BY <1>1, <2>1, <2>2, <2>3, <2>4, InstructionLands
<1>11. QED BY <1>4, <1>9, <1>10

LEMMA CallCharged ==
  ASSUME Sound, CountsInv, ChargedInv, ProfiledCall PROVE ChargedInv'
<1>1. /\ HostCalls /\ [Next]_vars /\ symbols' = symbols /\ file' = file /\ file.called
      /\ profiled' = IF status' = "ok" THEN Append(profiled, Lookup(0)) ELSE profiled
  BY DEF ProfiledCall, fileVars, Next
<1>2. TypeInv /\ status = "ok" BY DEF Sound
<1> SUFFICES ASSUME status' = "ok", symbols = file.symbols, symbols # <<>>,
                    NEW k \in 1 .. Len(acts')
             PROVE  Right(image', acts'[k], profiled'[k])
  BY <1>1, <1>2, ChargedSteps
<1>3. PICK b : acts' = Append(acts, b) /\ b.pc = 0 /\ ~ b.inSyscall BY <1>1, CallBegins
<1>4. /\ Level \in Nat /\ Level = Len(acts) /\ acts \in Seq(ActivationRecord) /\ ReentryNests
      /\ \A j \in 1 .. Level - 1 : acts[j].inSyscall
  BY SoundFacts DEF Nested
<1>5. /\ profiled \in Seq(Charged) /\ Len(profiled) = Level
      /\ \A j \in 1 .. Level : Right(image, acts[j], profiled[j])
  BY <1>2 DEF CountsInv, ChargedInv
<1>6. Len(acts') = Level + 1 /\ acts'[Level + 1] = b /\ \A j \in 1 .. Level : acts'[j] = acts[j]
  <2> DEFINE n == Level
  <2>1. n \in Nat /\ n = Len(acts) /\ acts \in Seq(ActivationRecord \cup {b}) BY <1>4
  <2> HIDE DEF n
  <2>2. /\ Len(Append(acts, b)) = n + 1 /\ Append(acts, b)[n + 1] = b
        /\ \A j \in 1 .. n : Append(acts, b)[j] = acts[j]
    BY <2>1
  <2>3. QED BY <1>3, <2>2 DEF n
<1>7. \A j \in 1 .. Level : profiled'[j] = profiled[j]
  <2> DEFINE l == Lookup(0)
  <2>1. profiled \in Seq(Charged \cup {l}) BY <1>5
  <2>2. profiled' = Append(profiled, l) BY <1>1
  <2> HIDE DEF l
  <2>3. QED BY <1>4, <1>5, <2>1, <2>2
<1>8. CASE k = Level + 1
  <2>1. Pc(image', acts'[k]) = 0 BY <1>3, <1>6, <1>8 DEF Pc
  <2>2. OpcodeNumbered(code.image[0]) = "ENTER"
    <3>1. Op(Insns, 0) = "ENTER" /\ 0 \in Indices(Insns) BY <1>2, CodeTyped, SoundFacts DEF WellFormed
    <3>2. QED BY <1>2, <3>1, CodeAt, FirstPlace
  <2>3. QED BY <2>1, <2>2 DEF Right
<1>9. CASE k # Level + 1
  <2>1. k \in 1 .. Level BY <1>4, <1>6, <1>9
  <2>2. FetchWord(image', acts[k].ps) = FetchWord(image, acts[k].ps)
    <3>1. CASE k = Level BY <1>1, <2>1, <3>1, CallBegins DEF SameAt
    <3>2. CASE k # Level
      <4>1. k \in 1 .. Len(acts) - 1 BY <1>4, <2>1, <3>2
      <4>2. QED BY <1>1, <4>1, CallBegins DEF SameOwned, SameAt
    <3>3. QED BY <3>1, <3>2
  <2>3. Pc(image', acts'[k]) = Pc(image, acts[k]) BY <1>6, <2>1, <2>2 DEF Pc
  <2>4. QED BY <1>5, <1>7, <2>1, <2>3 DEF Right
<1>10. QED BY <1>8, <1>9

LEMMA ReturnCharged ==
  ASSUME Sound, CountsInv, ChargedInv, ProfiledReturn PROVE ChargedInv'
<1>1. /\ HostReturns /\ [Next]_vars /\ symbols' = symbols /\ file' = file /\ profiled' = profiled
  BY DEF ProfiledReturn, fileVars, debugVars, Next
<1>2. TypeInv /\ status = "ok" BY DEF Sound
<1>3. PICK v \in HostReplies, w \in HostWrites : SystemCallReturns(v, w) BY <1>1 DEF HostReturns
<1>4. PICK b : acts' = [acts EXCEPT ![Level] = b] BY <1>3, AnswerLands
<1>5. /\ Level \in Nat /\ Level = Len(acts) /\ acts \in Seq(ActivationRecord) /\ Level > 0
      /\ DOMAIN acts = 1 .. Level
  BY <1>3, AnswerLands, SoundFacts
<1>6. Len(acts') = Level /\ \A j \in 1 .. Level - 1 : acts'[j] = acts[j]
  <2> DEFINE n == Level
  <2>1. n \in Nat \ {0} /\ n = Len(acts) /\ acts \in Seq(ActivationRecord \cup {b}) BY <1>5
  <2> HIDE DEF n
  <2>2. /\ Len([acts EXCEPT ![n] = b]) = n
        /\ \A j \in 1 .. n - 1 : [acts EXCEPT ![n] = b][j] = acts[j]
    BY <2>1
  <2>3. QED BY <1>4, <2>2 DEF n
<1> SUFFICES ASSUME status' = "ok", symbols = file.symbols, symbols # <<>>,
                    NEW k \in 1 .. Len(acts')
             PROVE  Right(image', acts'[k], profiled'[k])
  <2>1. acts # <<>> BY <1>5
  <2>2. QED BY <1>1, <1>2, <2>1, ChargedSteps
<1>7. k \in 1 .. Level /\ Right(image, acts[k], profiled[k])
  BY <1>2, <1>6 DEF ChargedInv
<1>8. Pc(image', acts'[k]) = Pc(image, acts[k])
  <2>1. CASE k = Level BY <1>3, <2>1, AnswerLands
  <2>2. CASE k # Level
    <3>1. k \in 1 .. Len(acts) - 1 BY <1>5, <1>7, <2>2
    <3>2. FetchWord(image', acts[k].ps) = FetchWord(image, acts[k].ps)
      BY <1>3, <3>1, AnswerLands DEF SameOwned, SameAt
    <3>3. QED BY <1>5, <1>6, <3>1, <3>2 DEF Pc
  <2>3. QED BY <2>1, <2>2
<1>9. QED BY <1>1, <1>7, <1>8 DEF Right

LEMMA NextCharged ==
  ASSUME TypeInv, InterpInv, CompiledInv, Conventional, CountsInv, ChargedInv,
         \A f \in Files : Describes(f), [ProfileNext]_allVars
  PROVE  ChargedInv'
<1>1. Describes(file) BY DEF ChargedInv
<1>2. CASE LoadSymbols BY <1>2, LoadingCharged
<1>3. CASE ProfiledInstruction \/ ProfiledCall \/ ProfiledReturn
  <2>1. CASE status = "ok"
    <3>1. Sound BY <2>1 DEF Sound
    <3>2. QED BY <1>1, <1>3, <3>1, InstructionCharged, CallCharged, ReturnCharged
  <2>2. CASE status # "ok"
    <3>1. ~ Instruction BY <2>2, InstructionLevel DEF Running
    <3>2. ~ HostCalls /\ ~ HostReturns
      BY <2>2 DEF HostCalls, VM_Call, HostMayCall, HostReturns, SystemCallReturns, InSyscall
    <3>3. QED BY <1>3, <3>1, <3>2 DEF ProfiledInstruction, ProfiledCall, ProfiledReturn
  <2>3. QED BY <2>1, <2>2
<1>4. CASE ProfiledFree
  <2>1. status' # "ok" /\ UNCHANGED <<prog, acts, file>>
    BY <1>4 DEF ProfiledFree, VM_Free, Halt
  <2>2. QED BY <2>1 DEF ChargedInv, Insns
<1>5. CASE \/ \E level \in DebugLevels : VM_Debug(level)
           \/ \E i \in Entries(prog.insns) : HostBreaks(i)
           \/ VM_VmProfile_f \/ UNCHANGED allVars
  <2>1. UNCHANGED vars /\ UNCHANGED <<file, symbols, profiled>>
    BY <1>5 DEF VM_Debug, HostBreaks, VM_VmProfile_f, allVars, fileVars, debugVars
  <2>2. UNCHANGED <<prog, code, image, acts, status, file, symbols, profiled>> BY <2>1 DEF vars
  <2>3. QED BY <2>2 DEF ChargedInv, Right, Pc, FunctionAround, Level, Insns
<1>6. QED BY <1>2, <1>3, <1>4, <1>5 DEF ProfileNext

LEMMA ChargedHere ==
  ASSUME Sound, CountsInv, ChargedInv, Describes(file) PROVE ChargedRight
<1> SUFFICES ASSUME symbols = file.symbols, symbols # <<>>
             PROVE  /\ \A k \in DOMAIN acts : Right(image, acts[k], profiled[k])
                    /\ \A k \in DOMAIN frames : NameOf(frames[k].ret) = FunctionAround(frames[k].ret)
  BY DEF ChargedRight, Right, Pc
<1>1. /\ TypeInv /\ status = "ok" /\ AllRight(prog, image, frames, acts)
      /\ DOMAIN acts = 1 .. Level /\ DOMAIN frames = 1 .. Calls /\ Level = Len(acts)
      /\ Calls = Len(frames) /\ Op(Insns, 0) = "ENTER" /\ acts \in Seq(ActivationRecord)
  BY SoundFacts DEF Sound, WellFormed, Calls
<1>2. \A k \in DOMAIN acts : Right(image, acts[k], profiled[k]) BY <1>1 DEF ChargedInv
<1>3. ASSUME NEW k \in DOMAIN frames PROVE NameOf(frames[k].ret) = FunctionAround(frames[k].ret)
  <2>1. FrameRight(prog, image, frames, acts, k) BY <1>1 DEF AllRight
  <2>2. PICK e, i \in Indices(Insns) :
          InFunction(Insns, e, i) /\ Op(Insns, i) = "CALL" /\ frames[k].ret = Place(prog, i + 1)
    BY <2>1 DEF FrameRight, Waits, Insns
  <2>3. i + 1 \in Indices(Insns) BY <2>2, BehindCall
  <2>4. frames[k].ret \in Nat BY <1>1, <2>2, <2>3, CodeAt
  <2>5. Listed
    <3>1. acts # <<>>
      <4>1. frames[k].level \in 1 .. Len(acts) BY <2>1 DEF FrameRight
      <4>2. Len(<<>>) = 0 OBVIOUS
      <4>3. QED BY <4>1, <4>2
    <3>2. \E S : symbols \in Seq(S) BY <1>1 DEF CountsInv
    <3>3. QED BY <3>1, <3>2 DEF Listed, ChargedInv
  <2>6. QED BY <1>1, <2>4, <2>5, NameRight
<1>4. QED BY <1>2, <1>3

(***************************************************************************)
(* If the file beside a program that runs names its functions, in the      *)
(* order of their places, or nothing: whatever a compiled program does and *)
(* however the host calls back, the symbol VM_CallInterpreted charges for  *)
(* the next instruction, in the running and in every waiting activation,   *)
(* is the function this instruction belongs to, though it is looked up     *)
(* only at OP_ENTER and OP_LEAVE; and a stack trace names the function of  *)
(* every call that is pending.                                             *)
(***************************************************************************)
THEOREM FunctionsAreCharged ==
  ASSUME \A f \in Files : Describes(f)
  PROVE  ProfileSpec /\ []Conventional => []ChargedRight
<1> DEFINE Held == TypeInv /\ InterpInv /\ CompiledInv /\ Conventional /\ CountsInv
<1>1. Held /\ ChargedInv /\ [ProfileNext]_allVars => ChargedInv' BY NextCharged
<1>2. Held /\ ChargedInv => ChargedRight
  <2>1. CASE status = "ok"
    <3>1. ChargedInv => Describes(file) BY DEF ChargedInv
    <3>2. QED BY <2>1, <3>1, ChargedHere DEF Sound
  <2>2. CASE status # "ok" BY <2>2 DEF ChargedRight
  <2>3. QED BY <2>1, <2>2
<1>3. ProfileSpec /\ []Conventional => []Held
  BY WatchesOnly, CompiledInvHolds, CountsInvHolds, PTL
<1> HIDE DEF Held
<1>4. QED BY <1>1, <1>2, <1>3, InitCharged, PTL DEF ProfileSpec
=============================================================================
