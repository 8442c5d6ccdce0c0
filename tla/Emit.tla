-------------------------------- MODULE Emit --------------------------------
(***************************************************************************)
(* The code section of the module wasm.c writes: the wasm instructions of  *)
(* a QVM instruction, the dispatch loop they are put into, the exported    *)
(* wrapper.  A wasm instruction is a record of its name and immediates; a  *)
(* block type is left out where it is void.                                *)
(*                                                                         *)
(* p is the instruction stream, D and L what the analysis left in depth    *)
(* and leader, f a function it found.                                      *)
(***************************************************************************)
EXTENDS QvmIsa

LOCAL INSTANCE FiniteSets

CONSTANTS
  MemSize,   \* c->totalMem
  NArgs      \* MAX_VMMAIN_ARGS

W(op)     == [op |-> op, imm |-> <<>>]
WI(op, n) == [op |-> op, imm |-> <<n>>]

Const(v)  == << WI("i32.const", v) >>
Get(n)    == << WI("local.get", n) >>
Set(n)    == << WI("local.set", n) >>
PsGet     == << W("global.get") >>
PsSet     == << W("global.set") >>
Do(op)    == << W(op) >>
Mask      == Const(MemSize - 1) \o Do("i32.and")

\* Operand slot n is local n + 1; local 0 is the label of the dispatch loop.
BugSlot(n) == n
Slot(n)   == n + 1
LblLocal  == 0

FrameAddress(v) == PsGet \o Const(v) \o Do("i32.add")

-----------------------------------------------------------------------------
(* One QVM instruction, of operand v, with d operands on the stack.        *)

BranchOp ==
  [EQ  |-> "i32.eq",   NE  |-> "i32.ne",   LTI |-> "i32.lt_s", LEI |-> "i32.le_s",
   GTI |-> "i32.gt_s", GEI |-> "i32.ge_s", LTU |-> "i32.lt_u", LEU |-> "i32.le_u",
   GTU |-> "i32.gt_u", GEU |-> "i32.ge_u",
   EQF |-> "f32.eq", NEF |-> "f32.ne", LTF |-> "f32.lt", LEF |-> "f32.le",
   GTF |-> "f32.gt", GEF |-> "f32.ge"]

AluOp ==
  [ADD  |-> "i32.add",   SUB  |-> "i32.sub",   DIVI |-> "i32.div_s", DIVU |-> "i32.div_u",
   MODI |-> "i32.rem_s", MODU |-> "i32.rem_u", MULI |-> "i32.mul",   MULU |-> "i32.mul",
   BAND |-> "i32.and",   BOR  |-> "i32.or",    BXOR |-> "i32.xor",   LSH  |-> "i32.shl",
   RSHI |-> "i32.shr_s", RSHU |-> "i32.shr_u",
   ADDF |-> "f32.add",   SUBF |-> "f32.sub",   DIVF |-> "f32.div",   MULF |-> "f32.mul"]

AccessOp ==
  [LOAD1  |-> "i32.load8_u", LOAD2  |-> "i32.load16_u", LOAD4  |-> "i32.load",
   STORE1 |-> "i32.store8",  STORE2 |-> "i32.store16",  STORE4 |-> "i32.store"]

\* An operand as the i32 or f32 the operation takes.
Taken(op, n) ==
  Get(Slot(n)) \o IF op \in FloatBranch \cup FloatBinary \cup {"NEGF", "CVFI"}
                  THEN Do("f32.reinterpret_i32") ELSE <<>>

\* The number of the system call a callee < 0 stands for.
BugCallNumber(d) == Const(0) \o Get(Slot(d - 1)) \o Do("i32.sub")
CallNumber(d)    == Const(-1) \o Get(Slot(d - 1)) \o Do("i32.sub")

\* The number goes where the handler looks for it.
CallCode(d) ==
  Get(Slot(d - 1)) \o Const(0) \o Do("i32.lt_s") \o Do("if")
  \o FrameAddress(4) \o Mask \o CallNumber(d) \o Do("i32.store")
  \o FrameAddress(4) \o << WI("call", 0) >>
  \o Do("else") \o Get(Slot(d - 1)) \o Do("call_indirect")
  \o Do("end") \o Set(Slot(d - 1))

LeaveCode(v, d) ==
  FrameAddress(v) \o PsSet
  \o (IF d > 0 THEN Get(Slot(d - 1)) ELSE Const(0)) \o Do("return")

\* The label is relative to the function; the loop is `loop` labels out.
JumpCode(d, start, loop) ==
  Get(Slot(d - 1)) \o Const(start) \o Do("i32.sub") \o Set(LblLocal) \o << WI("br", loop) >>

BranchCode(op, v, d, start, loop) ==
  Const(v - start) \o Set(LblLocal)
  \o Taken(op, d - 2) \o Taken(op, d - 1) \o Do(BranchOp[op]) \o << WI("br_if", loop) >>

UnaryCode(op, n) ==
  CASE op = "SEX8"  -> Taken(op, n) \o Do("i32.extend8_s")
    [] op = "SEX16" -> Taken(op, n) \o Do("i32.extend16_s")
    [] op = "NEGI"  -> Const(0) \o Taken(op, n) \o Do("i32.sub")
    [] op = "BCOM"  -> Taken(op, n) \o Const(-1) \o Do("i32.xor")
    [] op = "NEGF"  -> Taken(op, n) \o Do("f32.neg") \o Do("i32.reinterpret_f32")
    [] op = "CVIF"  -> Taken(op, n) \o Do("f32.convert_i32_s") \o Do("i32.reinterpret_f32")
    [] op = "CVFI"  -> Taken(op, n) \o Do("i32.trunc_sat_f32_s")

\* The bits of the result are left as a float.
BugBinaryCode(op, d) ==
  Taken(op, d - 2) \o Taken(op, d - 1) \o Do(AluOp[op]) \o Set(Slot(d - 2))

BinaryCode(op, d) ==
  Taken(op, d - 2) \o Taken(op, d - 1) \o Do(AluOp[op])
  \o (IF op \in FloatBinary THEN Do("i32.reinterpret_f32") ELSE <<>>) \o Set(Slot(d - 2))

\* The cases of the switch in emit_function_body.
Code(op, v, d, start, loop) ==
  CASE op \in {"IGNORE", "BREAK", "POP"} -> <<>>
    [] op = "ENTER"      -> PsGet \o Const(v) \o Do("i32.sub") \o PsSet
    [] op = "LEAVE"      -> LeaveCode(v, d)
    [] op = "CALL"       -> CallCode(d)
    [] op = "PUSH"       -> Const(0) \o Set(Slot(d))
    [] op = "CONST"      -> Const(v) \o Set(Slot(d))
    [] op = "LOCAL"      -> FrameAddress(v) \o Set(Slot(d))
    [] op = "JUMP"       -> JumpCode(d, start, loop)
    [] op \in CondBranch -> BranchCode(op, v, d, start, loop)
    [] op \in Load       -> Get(Slot(d - 1)) \o Mask \o Do(AccessOp[op]) \o Set(Slot(d - 1))
    [] op \in Store      -> Get(Slot(d - 2)) \o Mask \o Get(Slot(d - 1)) \o Do(AccessOp[op])
    [] op = "ARG"        -> FrameAddress(v) \o Mask \o Get(Slot(d - 1)) \o Do("i32.store")
    [] op = "BLOCK_COPY" -> Get(Slot(d - 2)) \o Mask \o Get(Slot(d - 1)) \o Mask
                            \o Const(v) \o Do("memory.copy")
    [] op \in IntUnary \cup FloatUnary   -> UnaryCode(op, d - 1) \o Set(Slot(d - 1))
    [] op \in IntBinary \cup FloatBinary -> BinaryCode(op, d)
    [] OTHER -> Do("unreachable")

-----------------------------------------------------------------------------
(* A function: the dispatch loop and its regions.                          *)

LeadersIn(L, from, to) == {k \in from .. to - 1 : L[k] >= 0}

\* Label k of the br_table ends where region k begins; the rest is BAD.
BranchTable(L, f) ==
  LET n == Cardinality(LeadersIn(L, f.start, f.end))
  IN  [k \in 1 .. f.end - f.start |->
         IF L[f.start + k - 1] >= 0 THEN L[f.start + k - 1] ELSE n] \o <<n>>

Prologue(L, f) ==
  Do("loop") \o Do("block")
  \o [k \in 1 .. Cardinality(LeadersIn(L, f.start, f.end)) |-> W("block")]
  \o Get(LblLocal) \o << [op |-> "br_table", imm |-> BranchTable(L, f)] >>
  \o Do("end")

\* The BAD block is not counted.
BugLoopDepth(leaders, region) == leaders - 1 - region

\* Labels between region `region` and the loop.
LoopDepth(leaders, region) == leaders - region

\* What is emitted for instruction k, the end of the region before it apart.
CodeOf(p, D, L, f, k) ==
  Code(Op(p, k), Arg(p, k), D[k], f.start,
       LoopDepth(Cardinality(LeadersIn(L, f.start, f.end)),
                 Cardinality(LeadersIn(L, f.start + 1, k + 1))))

\* A leader closes the region before it.
RegionEnd(L, f, k) == IF k # f.start /\ L[k] >= 0 THEN Do("end") ELSE <<>>

Epilogue ==
  Do("end") \o Do("unreachable") \o Do("end") \o Do("unreachable") \o Do("end")

\* The place of the first wasm instruction of each QVM instruction.
Places(p, D, L, f) ==
  LET at[k \in f.start .. f.end - 1] ==
        Len(RegionEnd(L, f, k))
        + IF k = f.start THEN Len(Prologue(L, f)) + 1
          ELSE at[k - 1] + Len(CodeOf(p, D, L, f, k - 1))
  IN  at

\* The body in the parts it is emitted in.
FunctionBody(p, D, L, f) ==
  [locals |-> 1 + f.maxDepth,
   at     |-> Places(p, D, L, f),
   parts  |-> <<Prologue(L, f)>>
              \o [j \in 1 .. f.end - f.start |->
                   RegionEnd(L, f, f.start + j - 1) \o CodeOf(p, D, L, f, f.start + j - 1)]
              \o <<Epilogue>>]

-----------------------------------------------------------------------------
(* The wrapper and the module around it.                                   *)

FrameBytes == 8 + 4 * NArgs

BugRestorePs == <<>>
RestorePs == PsGet \o Const(FrameBytes) \o Do("i32.add") \o PsSet

\* The frame VM_CallInterpreted builds, around a call of the first function.
VmMainBody ==
  [locals |-> 0,
   at     |-> <<>>,
   parts  |-> << PsGet \o Const(FrameBytes) \o Do("i32.sub") \o PsSet,
                 PsGet \o Mask \o Const(-1) \o Do("i32.store"),
                 FrameAddress(4) \o Mask \o Const(0) \o Do("i32.store") >>
              \o [k \in 1 .. NArgs |->
                   FrameAddress(4 + 4 * k) \o Mask \o Get(k - 1) \o Do("i32.store")]
              \o << << WI("call", 1) >> \o RestorePs \o Do("end") >>]

\* Function k is funcs[k]; the table names the functions by the instruction
\* they start at; memory has a minimum, and a maximum, of MemSize bytes.
WasmModule(p, D, L, funcs) ==
  [bodies |-> [k \in 1 .. Len(funcs) |-> FunctionBody(p, D, L, funcs[k])],
   vmMain |-> VmMainBody,
   tableSize |-> Len(p),
   table  |-> [s \in {funcs[k].start : k \in DOMAIN funcs} |->
                 CHOOSE k \in DOMAIN funcs : funcs[k].start = s],
   memory |-> MemSize,
   global |-> MemSize]
=============================================================================
