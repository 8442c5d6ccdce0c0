------------------------------ MODULE Profile -------------------------------
(***************************************************************************)
(* The profiler and the breakpoints of a DEBUG_VM build: what              *)
(* VM_CallInterpreted counts while it interprets, by the symbols that      *)
(* VM_LoadSymbols (module SymbolFile) has found in the file beside the     *)
(* program, and what VM_VmProfile_f and VM_Debug do with it between        *)
(* instructions.  Every step of Interp takes the profiler with it.         *)
(***************************************************************************)
EXTENDS Interp, SymbolFile

CONSTANTS
  DebugLevels,   \* what the host passes to VM_Debug
  MaxCalls       \* bound of the model: VM_Call the host makes

ASSUME ProfileAssumption ==
  /\ DebugLevels \subseteq Nat
  /\ MaxCalls \in Nat

VARIABLES
  counts,    \* profileCount of each symbol; of nullSym at 0
  profiled,  \* profileSymbol of each activation
  debug,     \* vm_debugLevel, vm->breakFunction, vm->breakCount
  calls,     \* history: VM_Call made
  ran        \* history: instructions since the last report

debugVars == <<counts, profiled, debug, calls, ran>>

-----------------------------------------------------------------------------
(* Symbols.                                                                *)

Entries(p) == {i \in Indices(p) : Op(p, i) = "ENTER"}

\* VM_ValueToFunctionSymbol: the list is followed while the next symbol does
\* not lie behind the value; without a list it is nullSym.
Lookup(v) ==
  IF symbols = <<>> THEN 0
  ELSE Max({k \in DOMAIN symbols : \A j \in 2 .. k : symbols[j].value <= v})

-----------------------------------------------------------------------------
ProfileInit ==
  /\ Init
  /\ FileInit
  /\ file.program = prog.insns
  /\ counts = [s \in 0 .. 0 |-> 0]
  /\ profiled = <<>>
  /\ debug = [level |-> 0, breakFunction |-> 0, breakCount |-> 0]
  /\ calls = 0 /\ ran = 0

\* VM_Create: the symbols are read before anything runs.
LoadSymbols ==
  /\ FileNext
  /\ counts' = [s \in 0 .. Len(symbols') |-> 0]
  /\ UNCHANGED <<vars, profiled, debug, calls, ran>>

Created == reading \in {"done", "missing"}

\* Execution gets to the switch.
Fetched == Running /\ A.pc \in DOMAIN code.image /\ ~ FetchFails
Does(op) == Fetched /\ Opcode = op /\ status' = "ok"

\* The function entered at pc, behind the operand of OP_ENTER, is compared as
\* if pc counted bytes.
BreaksHere == debug.breakFunction # 0 /\ A.pc + 2 - 5 = debug.breakFunction

BugRelooked == IF Does("ENTER") THEN [profiled EXCEPT ![Level] = Lookup(acts'[Level].pc)]
               ELSE SubSeq(profiled, 1, Len(acts'))
Relooked ==
  IF Len(acts') < Level THEN SubSeq(profiled, 1, Len(acts'))
  ELSE IF Does("ENTER") \/ Does("LEAVE")
       THEN [profiled EXCEPT ![Level] = Lookup(acts'[Level].pc)]
       ELSE profiled

BreakCount ==
  IF Does("BREAK") \/ (Does("ENTER") /\ debug.level > 0 /\ BreaksHere)
  THEN debug.breakCount + 1 ELSE debug.breakCount

\* profileSymbol->profileCount++ comes before the switch.
ProfiledInstruction ==
  /\ Instruction
  /\ counts' = IF Fetched THEN [counts EXCEPT ![profiled[Level]] = @ + 1] ELSE counts
  /\ profiled' = Relooked
  /\ debug' = [debug EXCEPT !.breakCount = BreakCount]
  /\ ran' = IF Fetched THEN ran + 1 ELSE ran
  /\ UNCHANGED <<fileVars, calls>>

ProfiledCall ==
  /\ Created /\ file.called
  /\ calls < MaxCalls
  /\ HostCalls
  /\ calls' = calls + 1
  /\ profiled' = IF status' = "ok" THEN Append(profiled, Lookup(0)) ELSE profiled
  /\ debug' = [debug EXCEPT !.breakFunction = 0]
  /\ UNCHANGED <<fileVars, counts, ran>>

ProfiledReturn == HostReturns /\ UNCHANGED <<fileVars, debugVars>>

\* VM_Free releases the symbols.
ProfiledFree ==
  /\ Created /\ file.called
  /\ VM_Free
  /\ IF status' = "freed" THEN symbols' = <<>> /\ reading' = "freed"
                          ELSE UNCHANGED <<symbols, reading>>
  /\ UNCHANGED <<file, data, text_p, stage, value, numSymbols,
                 counts, profiled, debug, calls, ran>>

VM_Debug(level) ==
  /\ HostMayCall /\ Created /\ file.called
  /\ level # debug.level
  /\ debug' = [debug EXCEPT !.level = level]
  /\ UNCHANGED <<vars, fileVars, counts, profiled, calls, ran>>

\* The host asks for a stop at the entry of a function.
HostBreaks(i) ==
  /\ HostMayCall /\ Created /\ file.called
  /\ debug.level > 0
  /\ debug' = [debug EXCEPT !.breakFunction = code.pointers[i]]
  /\ UNCHANGED <<vars, fileVars, counts, profiled, calls, ran>>

\* One line per symbol, and every count starts again.
BugReset == [s \in DOMAIN counts |-> IF s = 1 THEN counts[s] ELSE 0]
Reset    == [s \in DOMAIN counts |-> IF s = 0 THEN counts[s] ELSE 0]

VM_VmProfile_f ==
  /\ HostMayCall
  /\ Len(symbols) >= 1
  /\ counts' = Reset
  /\ ran' = 0
  /\ UNCHANGED <<vars, fileVars, profiled, debug, calls>>

ProfileNext ==
  \/ LoadSymbols
  \/ ProfiledInstruction \/ ProfiledCall \/ ProfiledReturn \/ ProfiledFree
  \/ \E level \in DebugLevels : VM_Debug(level)
  \/ \E i \in Entries(prog.insns) : HostBreaks(i)
  \/ VM_VmProfile_f

allVars == <<vars, fileVars, debugVars>>

\* WF of LoadSymbols: a step is enabled as long as the file is read.
FairReading == []<>(reading # "loading") \/ []<><<LoadSymbols>>_allVars

ProfileSpec == ProfileInit /\ [][ProfileNext]_allVars /\ FairReading

-----------------------------------------------------------------------------
\* The entry of the function around word w of the code.
FunctionAround(w) ==
  Max({code.pointers[i] : i \in {k \in Entries(prog.insns) : code.pointers[k] <= w}})

\* The list of a file beside a program that runs names its functions, in the
\* order of their places, or nothing.
Describes(f) ==
  f.called /\ f.symbols # <<>> =>
    /\ \A i, j \in DOMAIN f.symbols : i < j => f.symbols[i].value < f.symbols[j].value
    /\ {f.symbols[i].value : i \in DOMAIN f.symbols} =
         {Expanded(f.program).pointers[i] : i \in Entries(f.program)}

NameOf(v) == symbols[Lookup(v)].value

(***************************************************************************)
(* Through calls, returns and re-entry from system calls, the symbol that  *)
(* is charged for the next instruction is the function this instruction    *)
(* belongs to, OP_ENTER itself excepted, and a stack trace finds the       *)
(* function of every call that is pending, if the list holds the functions *)
(* that the file names and nothing from behind the buffer.                 *)
(***************************************************************************)
ChargedRight ==
  status = "ok" /\ symbols = file.symbols /\ symbols # <<>> =>
    /\ \A k \in DOMAIN acts :
         LET pc == IF acts[k].inSyscall THEN FetchWord(image, acts[k].ps) ELSE acts[k].pc
         IN  OpcodeNumbered(code.image[pc]) # "ENTER" =>
               symbols[profiled[k]].value = FunctionAround(pc)
    /\ \A k \in DOMAIN frames : NameOf(frames[k].ret) = FunctionAround(frames[k].ret)

(***************************************************************************)
(* A report accounts for every instruction that has run since the last     *)
(* one, in whichever activation.                                           *)
(***************************************************************************)
ReportComplete ==
  status = "ok" => MapThenSumSet(LAMBDA s : counts[s], DOMAIN counts) = ran

\* Every file is read to its end, whatever it holds.
ReadingEnds == <>(reading # "loading")
=============================================================================
