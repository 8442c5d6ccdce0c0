------------------------------- MODULE Interp -------------------------------
(***************************************************************************)
(* The bytecode interpreter of vm.c: VM_Call, VM_CallInterpreted and       *)
(* VM_Free, with the host on the other side of vm->systemCall.  One step   *)
(* per bytecode instruction; a system call suspends the C activation of    *)
(* VM_CallInterpreted until the host's handler returns, and the handler    *)
(* may call VM_Call again.                                                 *)
(*                                                                         *)
(* The state after VM_Create is the initial state.  Guest memory is bytes, *)
(* addresses are words, pc counts the words of the expanded code image, as *)
(* in the code.  Com_Error ends the process: status "error" is final.      *)
(* "undefined" is a C access to what was not allocated or not initialised, *)
(* "trap" a SIGFPE.                                                        *)
(*                                                                         *)
(* A definition whose name begins with Bug is a slip the code could have   *)
(* had.  The specification does not use it; it replaces the definition     *)
(* below it in a mutation run, which a property has to notice.             *)
(***************************************************************************)
EXTENDS Alu, CodeImage

CONSTANTS
  Programs,      \* records [insns, depth, returns]: a program, its operand
                 \* depths, and what its vmMain may answer to each command
  MemSize,       \* vm->dataMask + 1
  StackSize,     \* VM_PROGRAM_STACK_SIZE
  OpSlots,       \* OPSTACK_SIZE / 4; opStackOfs is a uint8_t and wraps here
  NArgs,         \* MAX_VMMAIN_ARGS
  NSysArgs,      \* MAX_VMSYSCALL_ARGS
  HostArgs,      \* argument vectors the host passes to VM_Call
  HostReplies,   \* values a system call returns
  HostWrites,    \* what a system call stores into guest memory
  Garbage,       \* contents of an uninitialised operand stack
  MaxCallLevel   \* bound of the model: nested VM_Call the host makes

ASSUME SizesAssumption ==
  /\ MemSize \in Nat \ {0}
  /\ StackSize \in Nat
  /\ OpSlots \in Nat /\ OpSlots >= 2
  /\ NArgs \in Nat \ {0} /\ NSysArgs \in Nat \ {0}
  /\ MaxCallLevel \in Nat
\* vm->codeBase is an array of ints.
ASSUME ProgramsAssumption ==
  \A p \in Programs :
    /\ p.insns \in Seq(Insn) /\ Len(p.insns) > 0
    /\ \A w \in DOMAIN Expanded(p.insns).image : Expanded(p.insns).image[w] \in Word
ASSUME HostAssumption ==
  /\ HostArgs \subseteq [1 .. NArgs -> Word]
  /\ HostReplies \subseteq Word
  /\ \A w \in HostWrites : \A b \in DOMAIN w : w[b] \in Byte
  /\ Garbage \subseteq Word

VARIABLES
  prog,    \* the program, before VM_PrepareInterpreter
  code,    \* vm->codeBase, vm->instructionPointers, vm->codeLength
  image,   \* vm->dataBase
  vm,      \* programStack, callLevel, currentlyInterpreting
  acts,    \* C activations of VM_CallInterpreted, the innermost one last
  frames,  \* history: the bytecode calls that have not returned
  status,  \* what has become of the process
  result   \* history: argument and value of the last VM_Call that returned

vars == <<prog, code, image, vm, acts, frames, status, result>>

-----------------------------------------------------------------------------
(* What VM_Create leaves behind.                                           *)

StackBottom == MemSize - StackSize

\* dataMask + 1 bytes and four more, so that a masked word access is inside.
Init ==
  /\ prog \in Programs
  /\ code = Expanded(prog.insns)
  /\ image = [a \in 0 .. MemSize + 3 |-> 0]
  /\ vm = [programStack |-> MemSize, callLevel |-> 0, currentlyInterpreting |-> 0]
  /\ acts = <<>>
  /\ frames = <<>>
  /\ status = "ok"
  /\ result = <<>>

-----------------------------------------------------------------------------
(* The running activation.                                                 *)

Level == Len(acts)
A     == acts[Level]
BugSlot(k) == k % (OpSlots \div 2)
Slot(k) == k % OpSlots
Masked(x) == x % MemSize

Running   == status = "ok" /\ Level > 0 /\ ~ A.inSyscall
InSyscall == status = "ok" /\ Level > 0 /\ A.inSyscall

Halt(s) == status' = s /\ UNCHANGED <<prog, code, image, vm, acts, frames, result>>

\* The operand stack declared static: all activations share it.
BugContinue(a) ==
  acts' = [k \in DOMAIN acts |->
             IF k = Level THEN a ELSE [acts[k] EXCEPT !.opStack = a.opStack]]

Continue(a) == acts' = [acts EXCEPT ![Level] = a]

\* DISPATCH reloads the cached top of the operand stack; DISPATCH2 does not.
BugReloaded(a) == [a EXCEPT !.r0 = a.opStack[a.ofs]]
Reloaded(a) == [a EXCEPT !.r0 = a.opStack[a.ofs], !.r1 = a.opStack[Slot(a.ofs - 1)]]
Dispatch(a)  == Continue(Reloaded(a))
Dispatch2(a) == Continue(a)

-----------------------------------------------------------------------------
(* VM_Call, and the prologue of VM_CallInterpreted.                        *)

Sentinel == Signed(48879) \* 0xBEEF

\* The arguments, and the two words below them.
FrameBytes == 8 + 4 * NArgs

Activation(entry, command, garbage) ==
  Reloaded([command |-> command, pc |-> 0, ps |-> entry - FrameBytes, entry |-> entry,
            opStack |-> [k \in 0 .. OpSlots - 1 |-> IF k = 0 THEN Sentinel ELSE garbage],
            ofs |-> 0, r0 |-> 0, r1 |-> 0, inSyscall |-> FALSE, stomped |-> 0])

HostMayCall == status = "ok" /\ (Level > 0 => A.inSyscall)

VM_Call(args, garbage) ==
  /\ HostMayCall
  /\ Level < MaxCallLevel
  /\ LET a == Activation(vm.programStack, args[1], garbage)
     IN  IF Within(image, a.ps, FrameBytes)
         THEN /\ image' = PutWords(image, a.ps, NArgs + 2, <<-1, 0>> \o args)
              /\ acts' = Append(acts, a)
              /\ vm' = [vm EXCEPT !.callLevel = @ + 1, !.currentlyInterpreting = 1]
              /\ UNCHANGED <<prog, code, frames, status, result>>
         ELSE Halt("undefined")

\* A second VM_Free is a no-op on a zeroed vm; VM_Call reports "not loaded".
VM_Free ==
  /\ HostMayCall
  /\ IF vm.callLevel # 0
     THEN Halt("error")
     ELSE Halt("freed")

-----------------------------------------------------------------------------
(* Instruction fetch.                                                      *)

\* Instructions are counted instead of bytes.
BugFetchFails ==
  A.pc + 1 >= code.count \/ A.ps <= StackBottom \/ A.ps % 4 # 0

FetchFails ==
  A.pc + 1 >= code.length \/ A.ps <= StackBottom \/ A.ps % 4 # 0

Opcode == OpcodeNumbered(code.image[A.pc])
R2     == code.image[A.pc + 1]

FetchError ==
  /\ Running
  /\ IF A.pc \notin DOMAIN code.image THEN Halt("undefined")
     ELSE FetchFails /\ Halt("error")

\* The instruction at pc is one of ops and execution gets to its case.
At(ops) ==
  /\ Running
  /\ A.pc \in DOMAIN code.image
  /\ ~ FetchFails
  /\ Opcode \in ops
  /\ Opcode \in HasOperand => A.pc + 1 \in DOMAIN code.image

\* A word at the end of the code that was an operand and is taken for an
\* opcode with an operand of its own.
OperandMissing ==
  /\ Running
  /\ A.pc \in DOMAIN code.image
  /\ ~ FetchFails
  /\ Opcode \in HasOperand /\ A.pc + 1 \notin DOMAIN code.image
  /\ Halt("undefined")

\* The switch has no case for it.
BadInstruction == At({"UNDEF", "BAD"}) /\ Halt("error")

BugNothing ==
  /\ At({"IGNORE", "BREAK"})
  /\ Dispatch2(A)
  /\ UNCHANGED <<prog, code, image, vm, frames, status, result>>

Nothing ==
  /\ At({"IGNORE", "BREAK"})
  /\ Dispatch2([A EXCEPT !.pc = @ + 1])
  /\ UNCHANGED <<prog, code, image, vm, frames, status, result>>

-----------------------------------------------------------------------------
(* Constants, loads and stores.                                            *)

PushCached ==
  /\ At({"CONST", "LOCAL"})
  /\ LET v == IF Opcode = "CONST" THEN R2 ELSE Signed(R2 + A.ps)
         n == Slot(A.ofs + 1)
     IN  Dispatch2([A EXCEPT !.pc = @ + 2, !.ofs = n, !.opStack[n] = v,
                             !.r0 = v, !.r1 = A.r0])
  /\ UNCHANGED <<prog, code, image, vm, frames, status, result>>

Misaligned == Opcode = "LOAD4" /\ A.opStack[A.ofs] % 4 # 0

LoadMisaligned == At(Load) /\ Misaligned /\ Halt("error")

LoadValue ==
  /\ At(Load)
  /\ ~ Misaligned
  /\ LET a == Masked(A.r0)
         v == CASE Opcode = "LOAD4" -> FetchWord(image, a)
                [] Opcode = "LOAD2" -> Fetch2(image, a)
                [] Opcode = "LOAD1" -> Fetch1(image, a)
     IN  Dispatch2([A EXCEPT !.pc = @ + 1, !.opStack[A.ofs] = v, !.r0 = v])
  /\ UNCHANGED <<prog, code, image, vm, frames, status, result>>

BugStoreBytes == [STORE1 |-> 1, STORE2 |-> 4, STORE4 |-> 4]
StoreBytes == [STORE1 |-> 1, STORE2 |-> 2, STORE4 |-> 4]

StoreValue ==
  /\ At(Store)
  /\ image' = Put(image, Masked(A.r1), StoreBytes[Opcode], A.r0)
  /\ Dispatch([A EXCEPT !.pc = @ + 1, !.ofs = Slot(@ - 2)])
  /\ UNCHANGED <<prog, code, vm, frames, status, result>>

Argument ==
  /\ At({"ARG"})
  /\ image' = Put(image, Masked(R2 + A.ps), 4, A.r0)
  /\ Dispatch([A EXCEPT !.pc = @ + 2, !.ofs = Slot(@ - 1)])
  /\ UNCHANGED <<prog, code, vm, frames, status, result>>

\* Both ends of both ranges have to survive the mask.
CopyInRange(dest, src, n) ==
  /\ {dest, src, dest + n, src + n} \subseteq 0 .. MemSize - 1

\* memcpy says nothing about ranges that overlap.
CopyDefined(dest, src, n) ==
  dest = src \/ (dest .. dest + n - 1) \cap (src .. src + n - 1) = {}

BlockCopy ==
  /\ At({"BLOCK_COPY"})
  /\ IF ~ CopyInRange(A.r1, A.r0, R2) THEN Halt("error")
     ELSE IF ~ CopyDefined(A.r1, A.r0, R2) THEN Halt("undefined")
     ELSE /\ image' = Copied(image, A.r1, A.r0, R2)
          /\ Dispatch([A EXCEPT !.pc = @ + 2, !.ofs = Slot(@ - 2)])
          /\ UNCHANGED <<prog, code, vm, frames, status, result>>

-----------------------------------------------------------------------------
(* Calls.                                                                  *)

ReturnWordInside == Within(image, A.ps, 4)

CallWild == At({"CALL"}) /\ ~ ReturnWordInside /\ Halt("undefined")

BugCalled == A
Called == [A EXCEPT !.ofs = Slot(@ - 1)]
SavedPc(m) == Put(m, A.ps, 4, A.pc + 1)

FramesUpTo(s) == SubSeq(frames, 1, Max({0} \cup s))
Outer == {k \in DOMAIN frames : frames[k].level < Level}

\* A call whose return address the next one overwrites is no longer pending.
Pending == FramesUpTo(Outer \cup {k \in DOMAIN frames : frames[k].ps > A.ps})

CallFunction ==
  /\ At({"CALL"})
  /\ ReturnWordInside
  /\ A.r0 \in 0 .. code.count - 1
  /\ image' = SavedPc(image)
  /\ Dispatch([Called EXCEPT !.pc = code.pointers[A.r0]])
  /\ frames' = Append(Pending, [level |-> Level, ret |-> A.pc + 1, ps |-> A.ps,
                                base |-> Called.ofs])
  /\ UNCHANGED <<prog, code, vm, status, result>>

CallOutOfRange ==
  /\ At({"CALL"}) /\ ReturnWordInside /\ A.r0 >= code.count
  /\ Halt("error")

\* Where a VM_Call made by the handler starts.
BugSuspendedStack == vm.programStack
SuspendedStack == A.ps - 4

\* The handler gets the words from ps + 4 on; the first is the call's number.
CallSystem ==
  /\ At({"CALL"})
  /\ ReturnWordInside
  /\ A.r0 < 0
  /\ IF Within(image, A.ps + 4, 4 * NSysArgs)
     THEN /\ image' = Put(SavedPc(image), A.ps + 4, 4, -1 - A.r0)
          /\ vm' = [vm EXCEPT !.programStack = SuspendedStack]
          /\ Continue([Called EXCEPT !.pc = A.r0, !.inSyscall = TRUE,
                                     !.stomped = FetchWord(image, A.ps + 4)])
          /\ UNCHANGED <<prog, code, frames, status, result>>
     ELSE Halt("undefined")

\* DEBUG_VM: the number of the call lay over the note of the frame.
BugRestored(m) == m
Restored(m) == Put(m, A.ps + 4, 4, A.stomped)

\* The handler stores w into guest memory and returns v.
SystemCallReturns(v, w) ==
  /\ InSyscall
  /\ LET m == Restored(Overwritten(image, w))
         n == Slot(A.ofs + 1)
     IN  /\ image' = m
         /\ Dispatch([A EXCEPT !.inSyscall = FALSE, !.ofs = n, !.opStack[n] = v,
                               !.pc = FetchWord(m, A.ps)])
  /\ UNCHANGED <<prog, code, vm, frames, status, result>>

-----------------------------------------------------------------------------
(* PUSH, POP, ENTER and LEAVE.                                             *)

PushStale ==
  /\ At({"PUSH"})
  /\ Dispatch([A EXCEPT !.pc = @ + 1, !.ofs = Slot(@ + 1)])
  /\ UNCHANGED <<prog, code, image, vm, frames, status, result>>

Pop ==
  /\ At({"POP"})
  /\ Dispatch([A EXCEPT !.pc = @ + 1, !.ofs = Slot(@ - 1)])
  /\ UNCHANGED <<prog, code, image, vm, frames, status, result>>

\* Where the new frame notes the old one.
BugFrameNote == A.ps
FrameNote == A.ps - R2 + 4

Enter ==
  /\ At({"ENTER"})
  /\ IF Within(image, FrameNote, 4)
     THEN /\ image' = Put(image, FrameNote, 4, A.ps)
          /\ Dispatch([A EXCEPT !.pc = @ + 2, !.ps = @ - R2])
          /\ UNCHANGED <<prog, code, vm, frames, status, result>>
     ELSE Halt("undefined")

BugCallerPs == A.ps
CallerPs == A.ps + R2
SavedReturn == FetchWord(image, CallerPs)

LeaveWild == At({"LEAVE"}) /\ ~ Within(image, CallerPs, 4) /\ Halt("undefined")

Leave ==
  /\ At({"LEAVE"})
  /\ Within(image, CallerPs, 4)
  /\ SavedReturn # -1
  /\ IF SavedReturn \in 0 .. code.length - 1
     THEN /\ Dispatch([A EXCEPT !.pc = SavedReturn, !.ps = CallerPs])
          /\ frames' = IF frames # <<>> /\ frames[Len(frames)].level = Level
                       THEN SubSeq(frames, 1, Len(frames) - 1) ELSE frames
          /\ UNCHANGED <<prog, code, image, vm, status, result>>
     ELSE Halt("error")

\* One operand is left and nothing has been stored below it.
BugStackClean == A.ofs = 1
StackClean    == A.ofs = 1 /\ A.opStack[0] = Sentinel

BugReturned == [vm EXCEPT !.callLevel = @ - 1, !.currentlyInterpreting = 0]
Returned    == [programStack |-> A.entry, callLevel |-> vm.callLevel - 1,
                currentlyInterpreting |-> 0]

\* The label done: the activation returns to VM_Call, VM_Call to the host.
LeaveVM ==
  /\ At({"LEAVE"})
  /\ Within(image, CallerPs, 4)
  /\ SavedReturn = -1
  /\ IF StackClean
     THEN /\ acts' = SubSeq(acts, 1, Level - 1)
          /\ vm' = Returned
          /\ frames' = FramesUpTo(Outer)
          /\ result' = <<A.command, A.opStack[A.ofs]>>
          /\ UNCHANGED <<prog, code, image, status>>
     ELSE Halt("error")

-----------------------------------------------------------------------------
(* Jumps, branches and arithmetic.                                         *)

Jump ==
  /\ At({"JUMP"})
  /\ IF A.r0 \in 0 .. code.count - 1
     THEN /\ Dispatch([A EXCEPT !.pc = code.pointers[A.r0], !.ofs = Slot(@ - 1)])
          /\ UNCHANGED <<prog, code, image, vm, frames, status, result>>
     ELSE Halt("error")

\* Operands as they lie on the operand stack.
Second == A.opStack[Slot(A.ofs - 1)]
First  == A.opStack[A.ofs]

Branch ==
  /\ At(CondBranch)
  /\ LET taken == IF Opcode \in FloatBranch THEN Holds(Opcode, Second, First)
                                            ELSE Holds(Opcode, A.r1, A.r0)
     IN  Dispatch([A EXCEPT !.pc = IF taken THEN R2 ELSE @ + 2, !.ofs = Slot(@ - 2)])
  /\ UNCHANGED <<prog, code, image, vm, frames, status, result>>

Unary ==
  /\ At(IntUnary \cup FloatUnary)
  /\ LET x == IF Opcode \in {"NEGI", "BCOM"} THEN A.r0 ELSE First
     IN  Dispatch([A EXCEPT !.pc = @ + 1, !.opStack[A.ofs] = UnaryResult(Opcode, x)])
  /\ UNCHANGED <<prog, code, image, vm, frames, status, result>>

Binary ==
  /\ At(IntBinary \cup FloatBinary)
  /\ LET a == IF Opcode \in FloatBinary THEN Second ELSE A.r1
         b == IF Opcode \in FloatBinary THEN First ELSE A.r0
         n == Slot(A.ofs - 1)
     IN  IF Traps(Opcode, a, b) THEN Halt("trap")
         ELSE /\ Dispatch([A EXCEPT !.pc = @ + 1, !.ofs = n,
                                    !.opStack[n] = BinaryResult(Opcode, a, b)])
              /\ UNCHANGED <<prog, code, image, vm, frames, status, result>>

-----------------------------------------------------------------------------
Instruction ==
  \/ FetchError \/ OperandMissing \/ BadInstruction \/ Nothing
  \/ PushCached \/ LoadMisaligned \/ LoadValue \/ StoreValue \/ Argument \/ BlockCopy
  \/ CallWild \/ CallFunction \/ CallOutOfRange \/ CallSystem
  \/ PushStale \/ Pop \/ Enter \/ LeaveWild \/ Leave \/ LeaveVM
  \/ Jump \/ Branch \/ Unary \/ Binary

HostReturns == \E v \in HostReplies, w \in HostWrites : SystemCallReturns(v, w)
HostCalls   == \E a \in HostArgs, g \in Garbage : VM_Call(a, g)

Next == Instruction \/ HostReturns \/ HostCalls \/ VM_Free

Spec == Init /\ [][Next]_vars

(***************************************************************************)
(* The loop of VM_CallInterpreted runs on; a handler of the host comes to  *)
(* an end, at every level, however often it calls back.  The host is never *)
(* obliged to call.                                                        *)
(***************************************************************************)
FairSpec ==
  /\ Spec
  /\ WF_vars(Instruction)
  /\ \A k \in 1 .. MaxCallLevel : SF_vars(Level = k /\ HostReturns)

-----------------------------------------------------------------------------
(* Properties of every program, compiled or not.                           *)

ActivationRecord ==
  [command : Word, pc : Int, ps : Int, entry : Int, opStack : [0 .. OpSlots - 1 -> Word],
   ofs : 0 .. OpSlots - 1, r0 : Word, r1 : Word, inSyscall : BOOLEAN, stomped : Word]

TypeOK ==
  /\ code.count = Len(prog.insns) /\ DOMAIN code.pointers = 0 .. code.count - 1
  /\ image \in [0 .. MemSize + 3 -> Byte]
  /\ vm \in [programStack : Int, callLevel : Nat, currentlyInterpreting : {0, 1}]
  /\ acts \in Seq(ActivationRecord)
  /\ frames \in Seq([level : Nat, ret : Int, ps : Int, base : 0 .. OpSlots - 1])
  /\ status \in {"ok", "error", "undefined", "trap", "freed"}
  /\ result \in {<<>>} \cup (Word \X Word)

(***************************************************************************)
(* r0 and r1 cache the two topmost operand slots.  Instructions that leave *)
(* through DISPATCH2 skip the reload and have to keep the cache right by   *)
(* hand, whatever the next instruction is (vm.c, VM_CallInterpreted).      *)
(***************************************************************************)
CacheCoherent ==
  \A k \in 1 .. Len(acts) : ~ acts[k].inSyscall =>
    LET a == acts[k]
    IN  a.r0 = a.opStack[a.ofs] /\ a.r1 = a.opStack[Slot(a.ofs - 1)]

(***************************************************************************)
(* Re-entry through a system call nests: callLevel counts the activations, *)
(* all but the innermost are inside a system call, each starts right below *)
(* the frame its caller was suspended in, and when the last one is gone    *)
(* the program stack is where VM_Create put it and only then VM_Free works. *)
(***************************************************************************)
ReentryNests ==
  /\ vm.callLevel = Len(acts)
  /\ \A k \in 1 .. Len(acts) :
       /\ acts[k].entry = IF k = 1 THEN MemSize ELSE acts[k - 1].ps - 4
       /\ k < Len(acts) => acts[k].inSyscall
  /\ acts = <<>> => vm.programStack = MemSize
  /\ acts # <<>> /\ acts[Len(acts)].inSyscall =>
       vm.programStack = acts[Len(acts)].ps - 4
  /\ status = "freed" => acts = <<>>

(***************************************************************************)
(* A bytecode instruction, a system call or a nested VM_Call never touches *)
(* the private state of the activations it is nested in, and leaves the    *)
(* activations nested one in the other.                                    *)
(***************************************************************************)
OuterUntouched ==
  [][ReentryNests' /\ \A k \in 1 .. Len(acts) - 1 : k <= Len(acts') /\ acts'[k] = acts[k]]_vars

-----------------------------------------------------------------------------
(* Properties of compiled programs: consistent depth annotation, one       *)
(* result left at OP_LEAVE, stores that stay in variables.                 *)

TopFrame == frames[Len(frames)]
Base ==
  IF frames # <<>> /\ TopFrame.level = Level THEN TopFrame.base ELSE 0

(***************************************************************************)
(* What the translator's static analysis rests on: before each             *)
(* instruction opStackOfs is the caller's offset plus the depth annotated, *)
(* without wrapping, on every path and at every level of calls.            *)
(***************************************************************************)
OperandDiscipline ==
  Running => \E i \in DOMAIN code.pointers :
    /\ code.pointers[i] = A.pc
    /\ A.ofs = Base + prog.depth[i]

(***************************************************************************)
(* Return addresses live in guest memory between the arguments and the     *)
(* locals of frames.  While a call is pending, the word below its frame    *)
(* still holds the place to continue, through system calls, nested VM_Call *)
(* and whatever the callee stores.                                         *)
(***************************************************************************)
ReturnAddressesIntact ==
  status = "ok" => \A k \in 1 .. Len(frames) :
    FetchWord(image, frames[k].ps) = frames[k].ret

\* The word OP_CALL reserved for the number of the system call still names
\* the call while its handler runs, even if the handler called VM_Call.
SyscallNumberIntact ==
  status = "ok" => \A k \in 1 .. Len(acts) : acts[k].inSyscall =>
    FetchWord(image, acts[k].ps + 4) = -1 - acts[k].pc

\* VM_StackTrace(pc, ps) prints pc and goes on like this until it finds -1.
Traced(ps) ==
  LET under == FetchWord(image, ps + 4)
  IN  [pc |-> FetchWord(image, under), ps |-> under]

(***************************************************************************)
(* A stack trace taken at any instruction behind OP_ENTER names every call *)
(* of the activation that is pending, innermost first, and stops behind    *)
(* vmMain: the note of each frame, over which OP_CALL writes the number of *)
(* a system call, still leads to the frame of the caller.                  *)
(***************************************************************************)
TraceComplete ==
  Running /\ A.pc \in DOMAIN code.image /\ Opcode # "ENTER" =>
    LET own     == DOMAIN frames \ Outer
        From(k) == IF k \in DOMAIN frames THEN frames[k].ps ELSE A.ps
        first   == Min(own \cup {Len(frames) + 1})
    IN  /\ \A k \in own : Traced(From(k + 1)) = [pc |-> frames[k].ret, ps |-> frames[k].ps]
        /\ Traced(From(first)) = [pc |-> -1, ps |-> A.entry - FrameBytes]

(***************************************************************************)
(* Whatever runs while a function or a system call is pending -- callees,  *)
(* handlers, nested VM_Call -- leaves in guest memory what the pending     *)
(* ones need to go on and what a stack trace needs to name them.           *)
(***************************************************************************)
PendingIntact == ReturnAddressesIntact /\ SyscallNumberIntact /\ TraceComplete

\* No access outside an allocation, and no end of the program by Com_Error
\* except the one for a full program stack.
OnlyStackOverflow ==
  /\ status # "undefined" /\ status # "trap"
  /\ status = "error" => A.ps <= StackBottom \/ A.inSyscall

(***************************************************************************)
(* Whatever happened on the way -- recursion, handlers that call back,     *)
(* a wrapped operand stack -- VM_Call reports an error or returns what the *)
(* function computes on its own.                                           *)
(***************************************************************************)
ResultsRight ==
  result # <<>> /\ result[1] \in DOMAIN prog.returns => result[2] \in prog.returns[result[1]]

\* Every VM_Call comes back to the host.
CallsComplete == (acts # <<>>) ~> (acts = <<>> \/ status # "ok")

\* vm.h: "Is the vm currently running?"
FlagSaysRunning == status = "ok" /\ acts # <<>> => vm.currentlyInterpreting = 1
=============================================================================
