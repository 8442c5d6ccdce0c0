------------------------------ MODULE Compile -------------------------------
(***************************************************************************)
(* QVM2WASM_Compile and emit_module as users of memory: what is allocated, *)
(* what is freed on each of the ways out, and what gets into the growing   *)
(* buffers (buf_t) when an allocation fails.  The passes are reduced to    *)
(* succeeding or not; their work is in Analyze.                            *)
(*                                                                         *)
(* A byte of the module is a token: what an emit_... call was asked for.   *)
(* A definition whose name begins with Bug is a slip the code could have   *)
(* had; it replaces the definition below it in a mutation run.             *)
(***************************************************************************)
EXTENDS Integers, Sequences, SequencesExt

CONSTANTS
  Sections,      \* per section before the code section the sizes of the
                 \* emit_byte and emit_bytes calls that fill it
  Bodies,        \* the same per function of the code section
  DataSection,   \* the same for the data section; it is left out if empty
  InitialCap     \* 4096

ASSUME SectionsAssumption ==
  /\ Sections \in Seq(Seq(Nat \ {0}))
  /\ Bodies \in Seq(Seq(Nat \ {0})) /\ Bodies # <<>>
  /\ DataSection \in Seq(Nat \ {0})
ASSUME InitialCapAssumption == InitialCap \in Nat \ {0}

VARIABLES
  pc,     \* where the compilation stands
  heap,   \* blocks allocated and not freed
  scarce, \* the system's choice: memory may run out
  bufs,   \* the buffers out, sec and body: cap and data, len is Len(data)
  work,   \* the emit calls that remain: <<buffer, tokens>> or a control word
  wasm,   \* *wasmOut: NULL or what the buffer held
  ret     \* the return value, 1 while running

compileVars == <<pc, heap, scarce, bufs, work, wasm, ret>>

AllocationFails == IF scarce THEN BOOLEAN ELSE {FALSE}

Tables == {"ops", "operands", "funcs", "funcOfInsn", "depth", "leader", "expected"}
NoModule == <<>>

-----------------------------------------------------------------------------
(* The emit calls of emit_module, in order.                                *)

\* The k-th byte of what section s holds.
Content(name, sizes) ==
  [j \in 1 .. Len(sizes) |-> [b \in 1 .. sizes[j] |-> <<"byte", name, j, b>>]]

EmitTo(buf, chunks) == [j \in 1 .. Len(chunks) |-> [to |-> buf, what |-> chunks[j]]]
Control(word, buf) == <<[to |-> word, what |-> <<buf>>]>>

FillSection(name, sizes) ==
  Control("reset", "sec") \o EmitTo("sec", Content(name, sizes)) \o Control("section", "sec")

FillBody(f) ==
  Control("reset", "body") \o EmitTo("body", Content(-f, Bodies[f])) \o Control("frame", "body")

Header == << <<"magic">> >>
SectionId == << <<"id">> >>

EmitModule ==
  FlattenSeq([s \in 1 .. Len(Sections) |-> FillSection(s, Sections[s])])
  \o Control("reset", "sec")
  \o FlattenSeq([f \in 1 .. Len(Bodies) |-> FillBody(f)])
  \o Control("section", "sec")
  \o IF DataSection = <<>> THEN <<>> ELSE FillSection(0, DataSection)

\* The module the emit calls describe.
Bytes(name, sizes) == FlattenSeq(Content(name, sizes))
LengthOf(data) == <<"length", Len(data)>>
Framed(data) == SectionId \o <<LengthOf(data)>> \o data
CodeSection ==
  FlattenSeq([f \in 1 .. Len(Bodies) |->
                <<LengthOf(Bytes(-f, Bodies[f]))>> \o Bytes(-f, Bodies[f])])
WholeModule ==
  Header
  \o FlattenSeq([s \in 1 .. Len(Sections) |-> Framed(Bytes(s, Sections[s]))])
  \o Framed(CodeSection)
  \o IF DataSection = <<>> THEN <<>> ELSE Framed(Bytes(0, DataSection))

-----------------------------------------------------------------------------
(* buf_t.                                                                  *)

NewBuffer == [cap |-> InitialCap, data |-> <<>>]

\* The loop is an if.
BugGrown(cap, need) == 2 * cap

\* newCap *= 2 until it is enough.
Grown(cap, need) ==
  LET newCap[k \in 0 .. need] == IF k = 0 THEN cap ELSE 2 * newCap[k - 1]
  IN  newCap[CHOOSE k \in 0 .. need :
               newCap[k] >= need /\ \A j \in 0 .. k - 1 : newCap[j] < need]

\* The buffers that can result from emitting xs into b: when realloc fails,
\* emit_byte and emit_bytes drop what they were given.
Emitted(b, xs) ==
  IF Len(b.data) + Len(xs) <= b.cap THEN {[b EXCEPT !.data = @ \o xs]}
  ELSE {IF fails THEN b
        ELSE [cap |-> Grown(b.cap, Len(b.data) + Len(xs)), data |-> b.data \o xs]
        : fails \in AllocationFails}

\* Three calls in a row: a tag byte or none, a length, the content.
EmittedFrame(b, tag, data) ==
  UNION {UNION {Emitted(b2, data) : b2 \in Emitted(b1, <<LengthOf(data)>>)}
         : b1 \in Emitted(b, tag)}

-----------------------------------------------------------------------------
CompileInit ==
  /\ pc = "header"
  /\ heap = {}
  /\ scarce \in BOOLEAN
  /\ bufs = [b \in {"out", "sec", "body"} |-> [cap |-> 0, data |-> <<>>]]
  /\ work = <<>>
  /\ wasm = NoModule
  /\ ret = 1

Free(blocks) == heap' = heap \ blocks

Return(r, w) == pc' = "returned" /\ ret' = r /\ wasm' = w

Goto(p) == pc' = p /\ UNCHANGED <<ret, wasm>>

\* Size, magic or header rejected, before anything is allocated.
RejectHeader ==
  /\ pc = "header"
  /\ Return(-1, NoModule)
  /\ UNCHANGED <<heap, scarce, bufs, work>>

AcceptHeader ==
  /\ pc = "header"
  /\ Goto("expand")
  /\ UNCHANGED <<heap, scarce, bufs, work>>

\* ctx_free releases every table, allocated or not.
FailPass ==
  /\ Free(Tables)
  /\ Return(-1, NoModule)
  /\ UNCHANGED <<scarce, bufs, work>>

\* A pass allocates its tables, all at once, and fails if one is missing.
Allocate(blocks, next) ==
  \E got \in SUBSET blocks :
    /\ got = blocks \/ TRUE \in AllocationFails
    /\ heap' = heap \cup got
    /\ pc' = IF got = blocks THEN next ELSE "failed"
    /\ UNCHANGED <<scarce, bufs, work, wasm, ret>>

ExpandCode    == pc = "expand"  /\ Allocate({"ops", "operands"}, "decode")
FindFunctions == pc = "decode"  /\ Allocate({"funcs", "funcOfInsn"}, "find")
AllocAnalysis == pc = "find"    /\ Allocate({"depth", "leader", "expected"}, "analyze")

\* The bytecode is found wanting in one of the passes.
RejectCode == pc \in {"decode", "analyze"} /\ FailPass
AllocFailed == pc = "failed" /\ FailPass

\* buf_init(&out)
InitOut ==
  /\ pc = "analyze"
  /\ \E fails \in AllocationFails :
       IF fails THEN FailPass
       ELSE /\ heap' = heap \cup {"out"}
            /\ bufs' = [bufs EXCEPT !["out"] = NewBuffer]
            /\ Goto("init")
            /\ UNCHANGED <<scarce, work>>

\* emit_bytes(moduleHeader), buf_init(&sec), buf_init(&body)
InitSections ==
  /\ pc = "init"
  /\ \E b \in Emitted(bufs["out"], Header) :
       bufs' = [out |-> b, sec |-> NewBuffer, body |-> NewBuffer]
  /\ work' = EmitModule
  /\ heap' = heap \cup {"sec", "body"}
  /\ Goto("emit")
  /\ UNCHANGED scarce

\* QVM2WASM_Compile frees out and its tables.  When the second malloc fails
\* nobody frees what the first one returned.
InitSectionsFails ==
  /\ pc = "init"
  /\ TRUE \in AllocationFails
  /\ \E got \in {{}, {"sec"}} : heap' = (heap \ (Tables \cup {"out"})) \cup got
  /\ Return(-1, NoModule)
  /\ UNCHANGED <<scarce, bufs, work>>

Emitting(word) == pc = "emit" /\ work # <<>> /\ Head(work).to = word
Proceed == work' = Tail(work) /\ UNCHANGED <<pc, heap, scarce, wasm, ret>>

EmitContent ==
  \E buf \in {"sec", "body"} :
    /\ Emitting(buf)
    /\ \E b \in Emitted(bufs[buf], Head(work).what) : bufs' = [bufs EXCEPT ![buf] = b]
    /\ Proceed

\* body still holds the functions before.
BugResetBuffer ==
  /\ Emitting("reset")
  /\ LET buf == Head(work).what[1]
     IN  bufs' = [bufs EXCEPT ![buf].data = IF buf = "body" THEN @ ELSE <<>>]
  /\ Proceed

\* len = 0 starts a buffer over; the memory is kept.
ResetBuffer ==
  /\ Emitting("reset")
  /\ bufs' = [bufs EXCEPT ![Head(work).what[1]].data = <<>>]
  /\ Proceed

EmitSection ==
  /\ Emitting("section")
  /\ \E b \in EmittedFrame(bufs["out"], SectionId, bufs["sec"].data) :
       bufs' = [bufs EXCEPT !["out"] = b]
  /\ Proceed

EmitBody ==
  /\ Emitting("frame")
  /\ \E b \in EmittedFrame(bufs["sec"], <<>>, bufs["body"].data) :
       bufs' = [bufs EXCEPT !["sec"] = b]
  /\ Proceed

\* What is freed on success besides the tables.
BugScratch == {"sec"}
Scratch    == {"sec", "body"}

Finish ==
  /\ pc = "emit"
  /\ work = <<>>
  /\ Free(Tables \cup Scratch)
  /\ Return(0, bufs["out"].data)
  /\ UNCHANGED <<scarce, bufs, work>>

CompileNext ==
  \/ RejectHeader \/ AcceptHeader \/ ExpandCode \/ FindFunctions \/ AllocAnalysis
  \/ RejectCode \/ AllocFailed \/ InitOut \/ InitSections \/ InitSectionsFails
  \/ EmitContent \/ ResetBuffer \/ EmitSection \/ EmitBody \/ Finish

-----------------------------------------------------------------------------
(* No buffer holds more than was allocated for it: memcpy and the byte     *)
(* store behind buf_reserve stay inside the block, whatever failed before. *)
BufferFits ==
  \A b \in DOMAIN bufs : Len(bufs[b].data) <= bufs[b].cap

(***************************************************************************)
(* Growing and reusing the three buffers never leaves their blocks, and as *)
(* long as memory lasts puts every byte of every section into the module,  *)
(* once and in order, behind its right length.                             *)
(***************************************************************************)
CompleteWithMemory == BufferFits /\ (ret = 0 /\ ~ scarce => wasm = WholeModule)

\* wasm.h: "@return 0 on success, -1 on error": what is returned as a
\* success is the module.
SuccessIsComplete == ret = 0 => wasm = WholeModule
=============================================================================
