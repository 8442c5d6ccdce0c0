------------------------------ MODULE WasmRun -------------------------------
(***************************************************************************)
(* A program through the translator and then run: analysis (Analyze),      *)
(* emission (Emit), validation and execution (Wasm) with the host on the   *)
(* other side of env.syscall.  One step per QVM instruction: the wasm      *)
(* instructions emitted for it, up to the place where the next one begins, *)
(* or up to a call.                                                        *)
(*                                                                         *)
(* The host may call vmMain from a system call, as VM_Call allows; that is *)
(* what makes the global of the instance a stack pointer.                  *)
(***************************************************************************)
EXTENDS Analyze, Emit, Wasm

LOCAL INSTANCE SequencesExt
LOCAL INSTANCE FiniteSets

CONSTANTS
  StackSize,     \* VM_PROGRAM_STACK_SIZE
  HostArgs, HostReplies, HostWrites,
  MaxCallLevel,  \* bound of the model: nested calls the host makes
  Answers        \* per program and command what vmMain may return; the
                 \* other programs are translated but not called

VARIABLES
  instance,  \* the module, once it is instantiated
  mem,       \* its memory
  ps,        \* its global 0
  frames,    \* activations of its functions, the innermost one last
  status,    \* "loading", "ok", or how it ended
  result,    \* history: command and value of the last vmMain that returned
  overflown  \* history: the program stack was left downwards

translation == <<prog, phase, funcs, fn, hasJump, i, cur, reachable,
                 depth, expected, leader, region>>
machine == <<instance, mem, ps, frames, status, result, overflown>>
runVars == <<prog, phase, funcs, fn, hasJump, i, cur, reachable, depth, expected, leader,
             region, instance, mem, ps, frames, status, result, overflown>>

StackBottom == MemSize - StackSize

RunInit ==
  /\ Init
  /\ instance = <<>>
  /\ mem = [a \in 0 .. MemSize - 1 |-> 0]
  /\ ps = 0
  /\ frames = <<>>
  /\ status = "loading"
  /\ result = <<>>
  /\ overflown = FALSE

\* emit_module, with the tables the analysis filled.
Emitted == WasmModule(prog, depth, leader, funcs)

Translate ==
  /\ status = "loading"
  /\ Next
  /\ UNCHANGED machine

Valid(b, locals) == Validates(b.parts, locals, Len(funcs) + 1)

\* The parts put together, the nesting of blocks looked up once.
Prepared(b) ==
  LET code == FlattenSeq(b.parts)
  IN  [code |-> code, at |-> b.at, locals |-> b.locals, nest |-> Nesting(code)]

Instantiate ==
  /\ status = "loading" /\ phase = "done"
  /\ LET m == Emitted
     IN  IF Valid(m.vmMain, NArgs) /\ \A k \in DOMAIN m.bodies : Valid(m.bodies[k], m.bodies[k].locals)
         THEN /\ instance' = [bodies |-> [k \in DOMAIN m.bodies |-> Prepared(m.bodies[k])],
                              vmMain |-> Prepared(m.vmMain),
                              tableSize |-> m.tableSize, table |-> m.table]
              /\ ps' = Signed(m.global)
              /\ status' = "ok"
         ELSE status' = "invalid" /\ UNCHANGED <<instance, ps>>
  /\ UNCHANGED <<prog, phase, funcs, fn, hasJump, i, cur, reachable, depth, expected, leader,
                 region, mem, frames, result, overflown>>

-----------------------------------------------------------------------------
(***************************************************************************)
(* Activations.  body is the number of the function, 0 for vmMain; waits   *)
(* is the event that suspended it, or "".  insn, the QVM instruction it is *)
(* at, and low, the global when it was suspended, are history.             *)
(***************************************************************************)
BodyOf(k) == IF k = 0 THEN instance.vmMain ELSE instance.bodies[k]

Activation(k, locals) ==
  [body |-> k, pc |-> 1, locals |-> locals, stack |-> <<>>, waits |-> "", insn |-> -1, low |-> 0]

TopFrame == frames[Len(frames)]
Outer    == Front(frames)

\* An activation goes on in memory m and with global g, as far as it gets.
Run(f, m, g) ==
  RunOn([pc |-> f.pc, locals |-> f.locals, stack |-> f.stack, mem |-> m, ps |-> g, event |-> ""],
        BodyOf(f.body), BodyOf(f.body).nest)

\* The value of what it waited for arrives.
Answered(f, v) ==
  LET taken == IF f.waits = "call" THEN 0 ELSE 1
  IN  [f EXCEPT !.pc = @ + 1, !.stack = SubSeq(@, 1, Len(@) - taken) \o <<v>>, !.waits = ""]

\* Instructions without code of their own share the place of the next one.
InsnAt(b, pc) ==
  CHOOSE k \in DOMAIN b.at : b.at[k] = pc /\ \A j \in DOMAIN b.at : b.at[j] = pc => k <= j
NoCode(b, k) == k + 1 \in DOMAIN b.at /\ b.at[k + 1] = b.at[k]

Saved(f, m) ==
  [f EXCEPT !.pc = m.pc, !.locals = m.locals, !.stack = m.stack, !.low = m.ps, !.waits = m.event,
            !.insn = IF m.event = "" THEN InsnAt(BodyOf(f.body), m.pc) ELSE @]

\* What the instance is after a step.
Now(fs, m, s, r) == [frames |-> fs, mem |-> m.mem, ps |-> m.ps, status |-> s, result |-> r]

\* Activation f, above fs, has got as far as m.
RECURSIVE Settled(_, _, _)
Settled(fs, f, m) ==
  LET Begin(k) ==
        LET a == Activation(k, [n \in 0 .. BodyOf(k).locals - 1 |-> 0])
        IN  Settled(Append(fs, Saved(f, m)), a, Run(a, m.mem, m.ps))
      callee == Unsigned(Last1(m))
  IN  CASE m.event \in {"", "import"} -> Now(Append(fs, Saved(f, m)), m, "ok", result)
        [] m.event = "trap" -> Now(Append(fs, Saved(f, m)), m, "trap", result)
        [] m.event = "call" -> Begin(BodyOf(f.body).code[m.pc].imm[1])
        [] m.event = "indirect" ->
             IF callee \in DOMAIN instance.table THEN Begin(instance.table[callee])
             ELSE Now(Append(fs, Saved(f, m)), m, "trap", result)
        [] m.event = "return" ->
             IF f.body = 0 THEN Now(fs, m, "ok", <<m.locals[0], Last1(m)>>)
             ELSE LET g == Answered(Last(fs), Last1(m))
                  IN  Settled(Front(fs), g, Run(g, m.mem, m.ps))

Becomes(s) ==
  /\ frames' = s.frames
  /\ mem' = s.mem
  /\ ps' = s.ps
  /\ status' = s.status
  /\ result' = s.result
  /\ overflown' = (s.frames # <<>> /\ Unsigned(s.ps) <= StackBottom)
  /\ UNCHANGED <<prog, phase, funcs, fn, hasJump, i, cur, reachable, depth, expected, leader,
                 region, instance>>

\* Bound of the model: a run is followed until it leaves the program stack.
Live == status = "ok" /\ ~ overflown
Running == Live /\ frames # <<>> /\ TopFrame.waits = ""
InImport == Live /\ frames # <<>> /\ TopFrame.waits = "import"

Instruction ==
  /\ Running
  /\ ~ NoCode(BodyOf(TopFrame.body), TopFrame.insn)
  /\ Becomes(Settled(Outer, TopFrame, Run(TopFrame, mem, ps)))

\* OP_IGNORE, OP_BREAK and OP_POP.
EmptyInstruction ==
  /\ Running
  /\ NoCode(BodyOf(TopFrame.body), TopFrame.insn)
  /\ frames' = [frames EXCEPT ![Len(frames)].insn = @ + 1]
  /\ UNCHANGED <<prog, phase, funcs, fn, hasJump, i, cur, reachable, depth, expected, leader,
                 region, instance, mem, ps, status, result, overflown>>

\* env.syscall stores w and returns v.
ImportReturns(v, w) ==
  /\ InImport
  /\ LET f == Answered(TopFrame, v)
     IN  Becomes(Settled(Outer, f, Run(f, Overwritten(mem, w), ps)))

Levels == Cardinality({k \in DOMAIN frames : frames[k].body = 0})

CallVmMain(args) ==
  /\ Live
  /\ prog \in DOMAIN Answers
  /\ frames # <<>> => InImport
  /\ Levels < MaxCallLevel
  /\ LET a == Activation(0, [n \in 0 .. NArgs - 1 |-> args[n + 1]])
     IN  Becomes(Settled(frames, a, Run(a, mem, ps)))

HostReturns == \E v \in HostReplies, w \in HostWrites : ImportReturns(v, w)
HostCalls   == \E args \in HostArgs : CallVmMain(args)
Executes    == Instruction \/ EmptyInstruction

RunNext == Translate \/ Instantiate \/ Executes \/ HostReturns \/ HostCalls

RunSpec == RunInit /\ [][RunNext]_runVars

(***************************************************************************)
(* The translator and the engine do not stop half-way, and a handler of    *)
(* the host comes to an end at every level, however often it calls back.   *)
(* The last two are WF and SF of the actions with ENABLED spelled out.     *)
(***************************************************************************)
HandlerAt(k) == InImport /\ Levels = k

FairRun ==
  /\ RunSpec
  /\ WF_runVars(Translate)
  /\ []<>(~ (status = "loading" /\ phase = "done")) \/ []<><<Instantiate>>_runVars
  /\ []<>(~ Running) \/ []<><<Executes>>_runVars
  /\ \A k \in 1 .. MaxCallLevel :
       <>[](~ HandlerAt(k)) \/ []<><<HandlerAt(k) /\ HostReturns>>_runVars

-----------------------------------------------------------------------------
(* The instance seen as the machine of Qvm: the locals of a function are   *)
(* its operands, as many as the analysis says.                             *)

Alive == status = "loading" \/ Live

Functions == SelectSeq([k \in 1 .. Len(frames) |-> k], LAMBDA k : frames[k].body # 0)

FrameOf(k) == Unsigned(IF k = Len(frames) THEN ps ELSE frames[k].low)

QvmCall(k) ==
  LET f       == frames[k]
      waiting == f.waits # ""
      under   == frames[k - 1]
      held    == depth[f.insn] - (IF waiting THEN 1 ELSE 0)
  IN  [pc   |-> IF waiting THEN f.insn + 1 ELSE f.insn,
       ps   |-> FrameOf(k),
       base |-> FrameOf(k - 1),
       ops  |-> [n \in 1 .. held |-> f.locals[n]],
       sys  |-> IF f.waits = "import" THEN FetchWord(mem, FrameOf(k) + 4) ELSE -1,
       cmd  |-> IF under.body = 0 THEN <<under.locals[0]>> ELSE <<>>]

QvmCalls ==
  IF Alive THEN [n \in 1 .. Len(Functions) |-> QvmCall(Functions[n])] ELSE <<>>

InUse ==
  ((0 .. StackBottom - 1)
   \cup ((IF frames = <<>> THEN MemSize ELSE FrameOf(Len(frames))) .. MemSize - 1))
  \ UNION {FrameOf(k) .. FrameOf(k) + 7 : k \in DOMAIN frames}

Q == INSTANCE Qvm WITH
       Programs <- Seq([op : Opcodes, arg : Int]),
       mem <- IF Alive THEN [a \in InUse |-> mem[a]] ELSE <<>>,
       calls <- QvmCalls,
       status <- IF status = "loading" THEN "ok" ELSE IF overflown THEN "overflow" ELSE status,
       result <- IF Alive THEN result ELSE <<>>

(***************************************************************************)
(* The engine accepts every function of the module of every program the    *)
(* analysis lets pass: operands and their types balance, locals exist,     *)
(* labels are in range, whatever the code of the program looks like.       *)
(***************************************************************************)
ModuleValidates == status # "invalid"

(***************************************************************************)
(* A branch finds its way: from wherever it is emitted, the label of its   *)
(* target takes it through the dispatch loop to the code of the target.    *)
(* The places of leaders are in the branch table, all others lead to BAD,  *)
(* and falling off the end of a function does too.                         *)
(***************************************************************************)
DispatchRight ==
  status = "loading" /\ phase = "done" => \A k \in DOMAIN funcs :
    LET f    == funcs[k]
        body == Emitted.bodies[k]
        code == FlattenSeq(body.parts)
        nest == Nesting(code)
        tbl  == CHOOSE p \in DOMAIN code : code[p].op = "br_table"
        to   == code[tbl].imm
        bad  == Closes(code, nest, 2, "end") + 1
    IN  /\ \A p \in DOMAIN code : code[p].op \in {"br", "br_if"} =>
             Target(code, nest, p, code[p].imm[1]) = 2
        /\ \A j \in Extent(f) :
             Target(code, nest, tbl, to[j - f.start + 1])
               = IF leader[j] >= 0 THEN body.at[j] ELSE bad
        /\ Target(code, nest, tbl, to[Len(to)]) = bad
        /\ code[bad].op = "unreachable"

(***************************************************************************)
(* The emitted module runs the program as the abstract machine does, until *)
(* the program stack is full: locals are the operands the program means on *)
(* every path, the dispatch loop reaches the right instruction, frames and *)
(* calls nest through system calls that call back.                         *)
(***************************************************************************)
ImplementsQvm == Q!Spec

(***************************************************************************)
(* Whatever happened on the way, a vmMain that returns has computed what   *)
(* the program computes, and left the instance as it was instantiated: the *)
(* wrapper gives back its frame and every function gave back its own.  A   *)
(* byte lost per call would overflow the stack after enough of them.       *)
(***************************************************************************)
ReturnsRight ==
  Live /\ frames = <<>> =>
    /\ ps = Signed(MemSize)
    /\ result # <<>> => result[2] \in Answers[prog][result[1]]

\* Every vmMain comes back to the host, without a trap, unless it recurses
\* beyond the program stack: the dispatch loop always gets somewhere.
CallsComplete == (frames # <<>>) ~> (frames = <<>> \/ overflown)
=============================================================================
