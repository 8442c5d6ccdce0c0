------------------------------ MODULE Compiled ------------------------------
(***************************************************************************)
(* The conventions of the code the interpreter is meant for.  vm.c checks  *)
(* few of them: that a program observes them is up to the compiler, the    *)
(* assembler and the host, and what depends on it is stated here.          *)
(***************************************************************************)
EXTENDS Interp

\* Instruction i belongs to the function that begins at e.
InFunction(c, e, i) ==
  /\ i \in Indices(c) /\ e \in 0 .. i
  /\ Op(c, e) = "ENTER"
  /\ \A k \in e + 1 .. i : Op(c, k) # "ENTER"

(***************************************************************************)
(* The shape of compiled code: functions of their own, entered at OP_ENTER *)
(* only and left at OP_LEAVE with one result, frames with room for two     *)
(* words, arguments that go behind them, and consistent operand depths D.  *)
(***************************************************************************)
WellFormed(c, D) ==
  /\ D \in [Indices(c) -> Nat] /\ ConsistentDepths(c, D, OpSlots)
  /\ Op(c, 0) = "ENTER"
  /\ \A i \in Indices(c) :
       /\ Op(c, i) \notin Diverts => FallsInto(c, i)
       /\ Op(c, i) \in CondBranch => Op(c, Arg(c, i)) # "ENTER"
       /\ Op(c, i) = "ENTER" => Arg(c, i) >= 8
       /\ Op(c, i) = "LEAVE" => D[i] = 1
  /\ \A e, i \in Indices(c) : InFunction(c, e, i) =>
       /\ Op(c, i) = "LEAVE" => Arg(c, i) = Arg(c, e)
       /\ Op(c, i) = "ARG" => Arg(c, i) \in 8 .. Arg(c, e) - 4

\* Where the words begin that OP_CALL, OP_ENTER and VM_Call own: a return
\* address, then the note of the frame or the number of the system call.
Frames == {frames[j].ps : j \in DOMAIN frames}
          \cup UNION {{acts[k].ps, acts[k].entry - FrameBytes} : k \in DOMAIN acts}
Reserved == UNION {p .. p + 7 : p \in Frames}

\* What the next instruction writes through a computed address.
Written ==
  IF At(Store) THEN Masked(A.r1) .. Masked(A.r1) + StoreBytes[Opcode] - 1
  ELSE IF At({"BLOCK_COPY"}) THEN A.r1 .. A.r1 + R2 - 1 ELSE {}

(***************************************************************************)
(* Stores, of the program and of the host, stay in variables; a computed   *)
(* call enters a function; a jump table leads to places of its function;   *)
(* expressions fit into the operand stack.                                 *)
(***************************************************************************)
WellBehaved ==
  /\ Written \cap Reserved = {}
  /\ InSyscall => \A w \in HostWrites : DOMAIN w \cap Reserved = {}
  /\ At({"CALL"}) /\ A.r0 \in Indices(prog.insns) => Op(prog.insns, A.r0) = "ENTER"
  /\ At({"JUMP"}) /\ A.r0 \in Indices(prog.insns) =>
       \A i \in DOMAIN code.pointers : code.pointers[i] = A.pc =>
         /\ SameFunction(prog.insns, i, A.r0) /\ Op(prog.insns, A.r0) # "ENTER"
         /\ prog.depth[A.r0] = After(prog.insns, prog.depth, i)
  /\ At(Opcodes) => A.ofs - Pops(Opcode) + Pushes(Opcode) < OpSlots

(***************************************************************************)
(* A compiled program in the hands of a host that keeps to its memory.     *)
(* The program stack is part of guest memory, and addresses of code and    *)
(* data are ints.                                                          *)
(***************************************************************************)
Conventional ==
  /\ WellFormed(prog.insns, prog.depth)
  /\ WellBehaved
  /\ StackSize <= MemSize /\ MemSize <= HalfMod
  /\ \A i \in DOMAIN code.pointers : code.pointers[i] \in Word

\* A memory of words in which a frame, the arguments of VM_Call and the
\* words a handler may read have their place, whatever the stack check lets pass.
Sized ==
  /\ MemSize % 4 = 0 /\ FrameBytes <= StackBottom /\ NSysArgs <= NArgs + 4
  /\ \A i \in Indices(prog.insns) : Op(prog.insns, i) = "ENTER" =>
       Arg(prog.insns, i) % 4 = 0 /\ Arg(prog.insns, i) <= StackBottom

(***************************************************************************)
(* The program does not itself ask for what vm.c refuses: there is no      *)
(* OP_UNDEF, computed calls and jumps stay in the program, divisions have  *)
(* a result, OP_LOAD4 is aligned, block copies are inside and disjoint.    *)
(***************************************************************************)
Faultless ==
  /\ Sized
  /\ \A i \in Indices(prog.insns) : Op(prog.insns, i) # "UNDEF"
  /\ At({"CALL"}) => A.r0 < code.count
  /\ At({"JUMP"}) => A.r0 \in 0 .. code.count - 1
  /\ At(IntBinary) => ~ Traps(Opcode, A.r1, A.r0)
  /\ At({"LOAD4"}) => A.r0 % 4 = 0
  /\ At({"BLOCK_COPY"}) => CopyInRange(A.r1, A.r0, R2) /\ CopyDefined(A.r1, A.r0, R2)

\* The addresses whose bytes are a program's own: its data and the frames of
\* the calls that are pending, without what the calls own.
InUse ==
  ((0 .. StackBottom - 1) \cup ((IF Level = 0 THEN MemSize ELSE A.ps) .. MemSize - 1))
  \ Reserved

LoadBytes == [LOAD1 |-> 1, LOAD2 |-> 2, LOAD4 |-> 4]

\* What the next instruction reads through a computed address.
Read ==
  IF At(Load) THEN Masked(A.r0) .. Masked(A.r0) + LoadBytes[Opcode] - 1
  ELSE IF At({"BLOCK_COPY"}) THEN A.r0 .. A.r0 + R2 - 1 ELSE {}

(***************************************************************************)
(* The program keeps to what means the same in every back end: it reads    *)
(* and writes bytes of its own, and a jump table is read with nothing else *)
(* on the operand stack.                                                   *)
(***************************************************************************)
Specified ==
  /\ Read \cup Written \subseteq InUse
  /\ \A i \in Indices(prog.insns) : Op(prog.insns, i) = "JUMP" => prog.depth[i] = 1

(***************************************************************************)
(* The programs and hosts of a run keep to the conventions in every state, *)
(* so that what is proved of compiled programs is about them; and then the *)
(* checks of vm.c never stop them but for a full program stack, and no     *)
(* access is outside an allocation.                                        *)
(***************************************************************************)
CompiledRunsClean == Conventional /\ Faultless /\ Specified /\ OnlyStackOverflow
=============================================================================
