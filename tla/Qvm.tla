-------------------------------- MODULE Qvm ---------------------------------
(***************************************************************************)
(* The machine a compiled QVM program may rely on, whichever back end runs *)
(* it: what VM_CallInterpreted and the module emitted by wasm.c have in    *)
(* common, without operand stack limits, return addresses, code words,     *)
(* locals or branch tables.                                                *)
(*                                                                         *)
(* mem holds the bytes a program may rely on: the data below the program   *)
(* stack and the frames of the calls that are pending, without the two     *)
(* linkage words at the foot of a frame, which belong to the back end.     *)
(* What a back end does with a program that reads anything else, leaves    *)
(* the wrong number of operands or jumps out of a function is not          *)
(* specified: there is no step for it.                                     *)
(***************************************************************************)
EXTENDS Alu

CONSTANTS
  Programs,     \* instruction streams
  MemSize, StackSize, NArgs,
  HostArgs, HostReplies, HostWrites

VARIABLES
  prog,    \* the instruction stream
  mem,     \* bytes at the addresses in use
  calls,   \* pending calls, the running one last
  status,  \* "ok", or how it all ended
  result   \* command and value of the last call of the host that returned

vars == <<prog, mem, calls, status, result>>

\* A call: next instruction, frame, frame of the caller, operands, number of
\* the system call it waits for or -1, command if the host is the caller.
Call(pc, ps, base, ops, sys, cmd) ==
  [pc |-> pc, ps |-> ps, base |-> base, ops |-> ops, sys |-> sys, cmd |-> cmd]

StackBottom == MemSize - StackSize
FrameBytes  == 8 + 4 * NArgs
Masked(x)   == x % MemSize

Lowest(cs)  == IF cs = <<>> THEN MemSize ELSE cs[Len(cs)].ps
Linkage(c)  == (c.ps .. c.ps + 7) \cup (c.base .. c.base + 7)
Live(cs) ==
  ((0 .. StackBottom - 1) \cup (Lowest(cs) .. MemSize - 1))
  \ UNION {Linkage(cs[k]) : k \in DOMAIN cs}

Init ==
  /\ prog \in Programs
  /\ mem = [a \in Live(<<>>) |-> 0]
  /\ calls = <<>>
  /\ status = "ok"
  /\ result = <<>>

-----------------------------------------------------------------------------
Top == calls[Len(calls)]
Callers == SubSeq(calls, 1, Len(calls) - 1)

Executes(ops) ==
  /\ status = "ok" /\ calls # <<>> /\ Top.sys = -1
  /\ Op(prog, Top.pc) \in ops

Opcode == Op(prog, Top.pc)
V      == Arg(prog, Top.pc)

\* The k-th operand from the top, and the operands below the n topmost.
Operand(k) == Top.ops[Len(Top.ops) + 1 - k]
Below(n)   == SubSeq(Top.ops, 1, Len(Top.ops) - n)
Holding(n) == Len(Top.ops) >= n

TopBecomes(c)  == calls' = Append(Callers, c)
Proceed(ops)   == TopBecomes([Top EXCEPT !.pc = @ + 1, !.ops = ops])
GoTo(pc, ops)  == TopBecomes([Top EXCEPT !.pc = pc, !.ops = ops])

\* Frames come and go; the rest of the memory stays.
MemoryKept(cs) ==
  /\ DOMAIN mem' = Live(cs)
  /\ \A a \in DOMAIN mem \cap Live(cs) : mem'[a] = mem[a]

Ends(s) == status' = s /\ mem' = <<>> /\ calls' = <<>> /\ result' = <<>> /\ UNCHANGED prog

-----------------------------------------------------------------------------
Nothing ==
  /\ Executes({"IGNORE", "BREAK"})
  /\ Proceed(Top.ops)
  /\ UNCHANGED <<prog, mem, status, result>>

Constant ==
  /\ Executes({"CONST", "LOCAL"})
  /\ Proceed(Append(Top.ops, IF Opcode = "CONST" THEN V ELSE Signed(V + Top.ps)))
  /\ UNCHANGED <<prog, mem, status, result>>

\* The value of a function that returns none.
Push ==
  /\ Executes({"PUSH"})
  /\ \E w \in Word : Proceed(Append(Top.ops, w))
  /\ UNCHANGED <<prog, mem, status, result>>

Pop ==
  /\ Executes({"POP"}) /\ Holding(1)
  /\ Proceed(Below(1))
  /\ UNCHANGED <<prog, mem, status, result>>

Width == [LOAD1 |-> 1, LOAD2 |-> 2, LOAD4 |-> 4, STORE1 |-> 1, STORE2 |-> 2, STORE4 |-> 4]

LoadValue ==
  /\ Executes(Load) /\ Holding(1)
  /\ LET a == Masked(Operand(1))
     IN  /\ Within(mem, a, Width[Opcode])
         /\ Proceed(Append(Below(1), CASE Width[Opcode] = 1 -> Fetch1(mem, a)
                                       [] Width[Opcode] = 2 -> Fetch2(mem, a)
                                       [] Width[Opcode] = 4 -> FetchWord(mem, a)))
  /\ UNCHANGED <<prog, mem, status, result>>

Stored(a, n, x) == Within(mem, a, n) /\ mem' = Put(mem, a, n, x)

StoreValue ==
  /\ Executes(Store) /\ Holding(2)
  /\ Stored(Masked(Operand(2)), Width[Opcode], Operand(1))
  /\ Proceed(Below(2))
  /\ UNCHANGED <<prog, status, result>>

Argument ==
  /\ Executes({"ARG"}) /\ Holding(1)
  /\ Stored(Masked(V + Top.ps), 4, Operand(1))
  /\ Proceed(Below(1))
  /\ UNCHANGED <<prog, status, result>>

BlockCopy ==
  /\ Executes({"BLOCK_COPY"}) /\ Holding(2)
  /\ Within(mem, Operand(2), V) /\ Within(mem, Operand(1), V)
  /\ mem' = Copied(mem, Operand(2), Operand(1), V)
  /\ Proceed(Below(2))
  /\ UNCHANGED <<prog, status, result>>

-----------------------------------------------------------------------------
(* Calls.                                                                  *)

CallFunction ==
  /\ Executes({"CALL"}) /\ Holding(1)
  /\ Operand(1) \in Indices(prog) /\ Op(prog, Operand(1)) = "ENTER"
  /\ calls' = Callers \o << [Top EXCEPT !.pc = @ + 1, !.ops = Below(1)],
                            Call(Operand(1), Top.ps, Top.ps, <<>>, -1, <<>>) >>
  /\ UNCHANGED <<prog, mem, status, result>>

CallSystem ==
  /\ Executes({"CALL"}) /\ Holding(1)
  /\ Operand(1) < 0
  /\ TopBecomes([Top EXCEPT !.pc = @ + 1, !.ops = Below(1), !.sys = -1 - Operand(1)])
  /\ UNCHANGED <<prog, mem, status, result>>

\* The answer of the host, and what it stores at addresses in use.
SystemCallReturns ==
  /\ status = "ok" /\ calls # <<>> /\ Top.sys # -1
  /\ \E w \in HostWrites : mem' = Overwritten(mem, w)
  /\ \E v \in HostReplies : TopBecomes([Top EXCEPT !.sys = -1, !.ops = Append(@, v)])
  /\ UNCHANGED <<prog, status, result>>

Enter ==
  /\ Executes({"ENTER"})
  /\ IF Top.ps - V <= StackBottom THEN Ends("overflow")
     ELSE LET cs == Append(Callers, [Top EXCEPT !.pc = @ + 1, !.ps = @ - V])
          IN  calls' = cs /\ MemoryKept(cs) /\ UNCHANGED <<prog, status, result>>

\* One operand is left, and the frame of the caller is where it was.
Leaving == Executes({"LEAVE"}) /\ Len(Top.ops) = 1 /\ Top.ps + V = Top.base

Leave ==
  /\ Leaving /\ Top.cmd = <<>>
  /\ LET k  == Len(calls) - 1
         cs == [Callers EXCEPT ![k].ops = Append(@, Operand(1))]
     IN  calls' = cs /\ MemoryKept(cs)
  /\ UNCHANGED <<prog, status, result>>

LeaveMain ==
  /\ Leaving /\ Top.cmd # <<>>
  /\ calls' = Callers /\ MemoryKept(Callers)
  /\ result' = <<Top.cmd[1], Operand(1)>>
  /\ UNCHANGED <<prog, status>>

\* The host calls vmMain, from a system call too.  A back end may leave a
\* word between the frames.
HostCalls ==
  /\ status = "ok" /\ (calls # <<>> => Top.sys # -1)
  /\ \E args \in HostArgs, gap \in {0, 4} :
       LET ps == Lowest(calls) - gap - FrameBytes
           cs == Append(calls, Call(0, ps, ps, <<>>, -1, <<args[1]>>))
       IN  IF ps <= StackBottom THEN Ends("overflow")
           ELSE /\ calls' = cs
                /\ MemoryKept(cs)
                /\ \A k \in 1 .. NArgs : FetchWord(mem', ps + 4 + 4 * k) = args[k]
                /\ UNCHANGED <<prog, status, result>>

HostQuits == status = "ok" /\ (calls # <<>> => Top.sys # -1) /\ Ends("freed")

-----------------------------------------------------------------------------
(* Jumps, branches and arithmetic.                                         *)

\* A jump table is read with nothing else on the operand stack.
Jump ==
  /\ Executes({"JUMP"}) /\ Len(Top.ops) = 1
  /\ SameFunction(prog, Top.pc, Operand(1))
  /\ GoTo(Operand(1), <<>>)
  /\ UNCHANGED <<prog, mem, status, result>>

Branch ==
  /\ Executes(CondBranch) /\ Holding(2)
  /\ IF Holds(Opcode, Operand(2), Operand(1)) THEN GoTo(V, Below(2)) ELSE Proceed(Below(2))
  /\ UNCHANGED <<prog, mem, status, result>>

Unary ==
  /\ Executes(IntUnary \cup FloatUnary) /\ Holding(1)
  /\ Proceed(Append(Below(1), UnaryResult(Opcode, Operand(1))))
  /\ UNCHANGED <<prog, mem, status, result>>

\* The remainder of the smallest number by -1 is 0 or a trap.
Undecided == Opcode = "MODI" /\ Operand(1) = -1

Binary ==
  /\ Executes(IntBinary \cup FloatBinary) /\ Holding(2)
  /\ ~ Traps(Opcode, Operand(2), Operand(1)) \/ Undecided
  /\ Proceed(Append(Below(2), BinaryResult(Opcode, Operand(2), Operand(1))))
  /\ UNCHANGED <<prog, mem, status, result>>

Trap ==
  /\ Executes(Division) /\ Holding(2)
  /\ Traps(Opcode, Operand(2), Operand(1))
  /\ Ends("trap")

Next ==
  \/ Nothing \/ Constant \/ Push \/ Pop \/ LoadValue \/ StoreValue \/ Argument \/ BlockCopy
  \/ CallFunction \/ CallSystem \/ SystemCallReturns \/ Enter \/ Leave \/ LeaveMain
  \/ HostCalls \/ HostQuits \/ Jump \/ Branch \/ Unary \/ Binary \/ Trap

Spec == Init /\ [][Next]_vars
=============================================================================
