-------------------------------- MODULE Wasm --------------------------------
(***************************************************************************)
(* WebAssembly as far as emitted modules use it.  The engine is not part   *)
(* of the repository; run.js only hands it the file.  Validation first,    *)
(* which the engine applies to every function before it runs any, then     *)
(* execution.                                                              *)
(*                                                                         *)
(* Instructions are the records of Emit; a body comes in parts.            *)
(***************************************************************************)
EXTENDS Alu

LOCAL INSTANCE SequencesExt
LOCAL INSTANCE TLC

Opens == {"loop", "block", "if"}

\* Per place of a body the places where the blocks around it begin.
Nesting(code) ==
  LET around[n \in 0 .. Len(code)] ==
        IF n = 0 THEN << <<>> >>
        ELSE LET before == around[n - 1]
                 here   == Last(before)
             IN  Append(before, IF code[n].op \in Opens THEN Append(here, n)
                                ELSE IF code[n].op = "end" /\ here # <<>> THEN Front(here)
                                ELSE here)
  IN  around[Len(code)]

\* Where the block that begins at s is closed by `word`.
Closes(code, nest, s, word) ==
  CHOOSE p \in s + 1 .. Len(code) : code[p].op = word /\ nest[p] = Append(nest[s], s)

\* Where a branch at p to label n goes on.
Target(code, nest, p, n) ==
  LET s == nest[p][Len(nest[p]) - n]
  IN  IF code[s].op = "loop" THEN s + 1 ELSE Closes(code, nest, s, "end") + 1

-----------------------------------------------------------------------------
(* The operations, by the QVM instruction that computes the same.          *)

IntOperation ==
  [op \in {"i32.add", "i32.sub", "i32.mul", "i32.div_s", "i32.div_u", "i32.rem_s", "i32.rem_u",
           "i32.and", "i32.or", "i32.xor", "i32.shl", "i32.shr_s", "i32.shr_u"} |->
     CASE op = "i32.add" -> "ADD"  [] op = "i32.sub" -> "SUB"  [] op = "i32.mul" -> "MULI"
       [] op = "i32.div_s" -> "DIVI" [] op = "i32.div_u" -> "DIVU"
       [] op = "i32.rem_s" -> "MODI" [] op = "i32.rem_u" -> "MODU"
       [] op = "i32.and" -> "BAND" [] op = "i32.or" -> "BOR" [] op = "i32.xor" -> "BXOR"
       [] op = "i32.shl" -> "LSH" [] op = "i32.shr_s" -> "RSHI" [] op = "i32.shr_u" -> "RSHU"]
FloatOperation ==
  ("f32.add" :> "ADDF") @@ ("f32.sub" :> "SUBF") @@ ("f32.mul" :> "MULF") @@ ("f32.div" :> "DIVF")
IntTest ==
  ("i32.eq" :> "EQ") @@ ("i32.ne" :> "NE") @@ ("i32.lt_s" :> "LTI") @@ ("i32.le_s" :> "LEI")
  @@ ("i32.gt_s" :> "GTI") @@ ("i32.ge_s" :> "GEI") @@ ("i32.lt_u" :> "LTU")
  @@ ("i32.le_u" :> "LEU") @@ ("i32.gt_u" :> "GTU") @@ ("i32.ge_u" :> "GEU")
FloatTest ==
  ("f32.eq" :> "EQF") @@ ("f32.ne" :> "NEF") @@ ("f32.lt" :> "LTF") @@ ("f32.le" :> "LEF")
  @@ ("f32.gt" :> "GTF") @@ ("f32.ge" :> "GEF")
Loads  == [op \in {"i32.load", "i32.load8_u", "i32.load16_u"} |->
             CASE op = "i32.load" -> 4 [] op = "i32.load8_u" -> 1 [] op = "i32.load16_u" -> 2]
Stores == [op \in {"i32.store", "i32.store8", "i32.store16"} |->
             CASE op = "i32.store" -> 4 [] op = "i32.store8" -> 1 [] op = "i32.store16" -> 2]
Convert ==
  ("i32.extend8_s" :> "SEX8") @@ ("i32.extend16_s" :> "SEX16") @@ ("f32.neg" :> "NEGF")
  @@ ("f32.convert_i32_s" :> "CVIF") @@ ("i32.trunc_sat_f32_s" :> "CVFI")
Reinterpret == {"f32.reinterpret_i32", "i32.reinterpret_f32"}

-----------------------------------------------------------------------------
(* Validation: the types an instruction takes and leaves.                  *)

Takes(op) ==
  CASE op \in DOMAIN IntOperation \cup DOMAIN IntTest \cup DOMAIN Stores -> <<"i32", "i32">>
    [] op \in DOMAIN FloatOperation \cup DOMAIN FloatTest -> <<"f32", "f32">>
    [] op \in DOMAIN Loads \cup {"i32.extend8_s", "i32.extend16_s", "f32.convert_i32_s",
                                 "f32.reinterpret_i32", "local.set", "global.set", "if",
                                 "br_if", "br_table", "call_indirect", "return"} -> <<"i32">>
    [] op \in {"f32.neg", "i32.trunc_sat_f32_s", "i32.reinterpret_f32"} -> <<"f32">>
    [] op = "memory.copy" -> <<"i32", "i32", "i32">>
    [] OTHER -> <<>>

Leaves(op) ==
  IF op \in DOMAIN FloatOperation \cup {"f32.neg", "f32.convert_i32_s", "f32.reinterpret_i32"}
  THEN <<"f32">>
  ELSE IF op \in DOMAIN IntOperation \cup DOMAIN IntTest \cup DOMAIN FloatTest \cup DOMAIN Loads
                 \cup {"i32.extend8_s", "i32.extend16_s", "i32.trunc_sat_f32_s",
                       "i32.reinterpret_f32", "i32.const", "local.get", "global.get",
                       "call", "call_indirect"}
  THEN <<"i32">> ELSE <<>>

\* Function 0 is the import, which takes an address.
TakesOf(t) == IF t.op = "call" /\ t.imm[1] = 0 THEN <<"i32">> ELSE Takes(t.op)

Ends == {"br", "br_table", "return", "unreachable"}

\* A checker's state: types on the stack, blocks around.  Behind an
\* instruction control does not pass (dead) operands may be missing.
Block(op, height, type) == [op |-> op, height |-> height, type |-> type, dead |-> FALSE]

Have(s) == SubSeq(s.stack, s.blocks[Len(s.blocks)].height + 1, Len(s.stack))
Fits(s, types) ==
  LET h == Have(s)
      n == Len(types)
  IN  IF Len(h) >= n THEN SubSeq(h, Len(h) - n + 1, Len(h)) = types
      ELSE s.blocks[Len(s.blocks)].dead /\ h = SubSeq(types, n - Len(h) + 1, n)
Without(s, types) ==
  SubSeq(s.stack, 1, Len(s.stack) - (IF Len(Have(s)) < Len(types) THEN Len(Have(s)) ELSE Len(types)))

LabelsOf(t) == IF t.op \in {"br", "br_if", "br_table"} THEN {t.imm[k] : k \in DOMAIN t.imm} ELSE {}

Allowed(s, t, locals, functions) ==
  /\ s.ok /\ s.blocks # <<>>
  /\ Fits(s, TakesOf(t))
  /\ t.op \in {"local.get", "local.set"} => t.imm[1] \in 0 .. locals - 1
  /\ t.op = "call" => t.imm[1] \in 0 .. functions
  /\ \A n \in LabelsOf(t) :
       /\ n \in 0 .. Len(s.blocks) - 1
       /\ s.blocks[Len(s.blocks) - n].op \in {"loop", "block"}
  /\ t.op \in {"else", "end"} =>
       LET b == s.blocks[Len(s.blocks)]
       IN  Fits(s, b.type) /\ Len(Have(s)) <= Len(b.type)
           /\ IF t.op = "else" THEN b.op = "if" ELSE b.op = "if" => b.type = <<>>

Checked(s, t) ==
  LET last  == Len(s.blocks)
      b     == s.blocks[last]
      below == Without(s, TakesOf(t))
  IN  CASE t.op \in {"loop", "block"} ->
             [s EXCEPT !.blocks = Append(@, Block(t.op, Len(s.stack), <<>>))]
        [] t.op = "if" ->
             [s EXCEPT !.stack = below, !.blocks = Append(@, Block("if", Len(below), <<"i32">>))]
        [] t.op = "else" ->
             [s EXCEPT !.stack = SubSeq(@, 1, b.height),
                       !.blocks[last] = Block("else", b.height, b.type)]
        [] t.op = "end" ->
             [s EXCEPT !.stack = SubSeq(@, 1, b.height) \o b.type, !.blocks = Front(@)]
        [] t.op \in Ends ->
             [s EXCEPT !.stack = SubSeq(@, 1, b.height), !.blocks[last].dead = TRUE]
        [] OTHER -> [s EXCEPT !.stack = below \o Leaves(t.op)]

Start == [ok |-> TRUE, stack |-> <<>>, blocks |-> <<Block("function", 0, <<"i32">>)>>]

CheckedPart(start, part, locals, functions) ==
  LET state[n \in 0 .. Len(part)] ==
        IF n = 0 THEN start
        ELSE LET s == state[n - 1]
             IN  IF Allowed(s, part[n], locals, functions) THEN Checked(s, part[n])
                 ELSE [s EXCEPT !.ok = FALSE]
  IN  state[Len(part)]

\* The engine accepts the body of a function with `locals` locals and
\* parameters, in a module of so many functions besides the import.
Validates(parts, locals, functions) ==
  LET state[n \in 0 .. Len(parts)] ==
        IF n = 0 THEN Start
        ELSE LET s == state[n - 1]
             IN  IF s.ok THEN CheckedPart(s, parts[n], locals, functions) ELSE s
      end == state[Len(parts)]
  IN  end.ok /\ end.blocks = <<>> /\ end.stack = <<"i32">>

-----------------------------------------------------------------------------
(***************************************************************************)
(* Execution of one activation: m holds its place pc, its locals and       *)
(* operands, and the memory and the global of the instance.  event says    *)
(* why it cannot go on by itself: "call" a function of the module,         *)
(* "indirect", "import", "return", "trap".                                 *)
(***************************************************************************)
Last1(m) == m.stack[Len(m.stack)]
Last2(m) == m.stack[Len(m.stack) - 1]
Last3(m) == m.stack[Len(m.stack) - 2]

\* Go on behind the instruction, with n operands less and those in xs more.
Passed(m, n, xs) ==
  [m EXCEPT !.pc = @ + 1, !.stack = SubSeq(@, 1, Len(@) - n) \o xs]
Event(m, n, e) == [Passed(m, n, <<>>) EXCEPT !.event = e]
Trap(m) == [m EXCEPT !.event = "trap"]

Truth(b) == IF b THEN 1 ELSE 0
Address(x) == Unsigned(x)

\* wasm takes the remainder by -1 as 0.
WasmTraps(q, a, b) == IF q = "MODI" THEN b = 0 ELSE Traps(q, a, b)

Moved(mem, dest, src, n) ==
  [b \in DOMAIN mem |-> IF b \in dest .. dest + n - 1 THEN mem[src + b - dest] ELSE mem[b]]

Access(m, t) ==
  LET n == IF t.op \in DOMAIN Loads THEN Loads[t.op] ELSE Stores[t.op]
      a == Address(IF t.op \in DOMAIN Loads THEN Last1(m) ELSE Last2(m))
  IN  IF ~ Within(m.mem, a, n) THEN Trap(m)
      ELSE IF t.op \in DOMAIN Stores
           THEN [Passed(m, 2, <<>>) EXCEPT !.mem = Put(@, a, n, Last1(m))]
           ELSE Passed(m, 1, <<IF n = 1 THEN Fetch1(m.mem, a)
                               ELSE IF n = 2 THEN Fetch2(m.mem, a) ELSE FetchWord(m.mem, a)>>)

\* To label k, with n operands less.
Branch(m, n, body, nest, k) ==
  [Passed(m, n, <<>>) EXCEPT !.pc = Target(body.code, nest, m.pc, k)]

Control(m, t, body, nest) ==
  CASE t.op \in {"loop", "block"} -> Passed(m, 0, <<>>)
    [] t.op = "end" -> IF nest[m.pc] = <<>> THEN Event(m, 0, "return") ELSE Passed(m, 0, <<>>)
    [] t.op = "if" ->
         IF Last1(m) # 0 THEN Passed(m, 1, <<>>)
         ELSE [Passed(m, 1, <<>>) EXCEPT !.pc = Closes(body.code, nest, m.pc, "else") + 1]
    [] t.op = "else" ->
         LET s == nest[m.pc][Len(nest[m.pc])]
         IN  [m EXCEPT !.pc = Closes(body.code, nest, s, "end")]
    [] t.op = "br" -> Branch(m, 0, body, nest, t.imm[1])
    [] t.op = "br_if" ->
         IF Last1(m) # 0 THEN Branch(m, 1, body, nest, t.imm[1]) ELSE Passed(m, 1, <<>>)
    [] t.op = "br_table" ->
         LET x == Address(Last1(m))
             k == IF x < Len(t.imm) - 1 THEN x + 1 ELSE Len(t.imm)
         IN  Branch(m, 1, body, nest, t.imm[k])
    [] t.op = "return" -> [m EXCEPT !.event = "return"]
    [] t.op = "unreachable" -> Trap(m)
    [] t.op = "call" -> [m EXCEPT !.event = IF t.imm[1] = 0 THEN "import" ELSE "call"]
    [] t.op = "call_indirect" -> [m EXCEPT !.event = "indirect"]

Compute(m, t) ==
  CASE t.op = "i32.const"  -> Passed(m, 0, <<Signed(t.imm[1])>>)
    [] t.op = "local.get"  -> Passed(m, 0, <<m.locals[t.imm[1]]>>)
    [] t.op = "local.set"  -> [Passed(m, 1, <<>>) EXCEPT !.locals[t.imm[1]] = Last1(m)]
    [] t.op = "global.get" -> Passed(m, 0, <<m.ps>>)
    [] t.op = "global.set" -> [Passed(m, 1, <<>>) EXCEPT !.ps = Last1(m)]
    [] t.op \in DOMAIN IntOperation ->
         IF WasmTraps(IntOperation[t.op], Last2(m), Last1(m)) THEN Trap(m)
         ELSE Passed(m, 2, <<IntResult(IntOperation[t.op], Last2(m), Last1(m))>>)
    [] t.op \in DOMAIN FloatOperation ->
         Passed(m, 2, <<FloatResult(FloatOperation[t.op], Last2(m), Last1(m))>>)
    [] t.op \in DOMAIN IntTest   -> Passed(m, 2, <<Truth(Holds(IntTest[t.op], Last2(m), Last1(m)))>>)
    [] t.op \in DOMAIN FloatTest -> Passed(m, 2, <<Truth(Holds(FloatTest[t.op], Last2(m), Last1(m)))>>)
    [] t.op \in DOMAIN Convert   -> Passed(m, 1, <<UnaryResult(Convert[t.op], Last1(m))>>)
    [] t.op \in Reinterpret      -> Passed(m, 0, <<>>)
    [] t.op \in DOMAIN Loads \cup DOMAIN Stores -> Access(m, t)
    [] t.op = "memory.copy" ->
         LET d == Address(Last3(m))
             s == Address(Last2(m))
             n == Address(Last1(m))
         IN  IF Within(m.mem, d, n) /\ Within(m.mem, s, n)
             THEN [Passed(m, 3, <<>>) EXCEPT !.mem = Moved(@, d, s, n)] ELSE Trap(m)

ControlOps == Opens \cup {"else", "end", "br", "br_if", "br_table", "return", "unreachable",
                          "call", "call_indirect"}

Execute(m, body, nest) ==
  LET t == body.code[m.pc]
  IN  IF t.op \in ControlOps THEN Control(m, t, body, nest) ELSE Compute(m, t)

\* On to the first place of a QVM instruction, or to an event.
RECURSIVE RunOn(_, _, _)
RunOn(m, body, nest) ==
  LET n == Execute(m, body, nest)
  IN  IF n.event # "" \/ \E k \in DOMAIN body.at : body.at[k] = n.pc THEN n
      ELSE RunOn(n, body, nest)
=============================================================================
