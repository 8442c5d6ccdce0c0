------------------------------- MODULE Loader -------------------------------
(***************************************************************************)
(* VM_Create of vm.c, with VM_LoadQVM and VM_PrepareInterpreter: from a    *)
(* file to the state the interpreter starts in.  One step per iteration of *)
(* the loop that expands the code and of the loop that translates branch   *)
(* targets.                                                                *)
(*                                                                         *)
(* Com_Error ends the process: phases "error" and "nomemory" are      *)
(* final.  "undefined" is a C access to what was not allocated.            *)
(*                                                                         *)
(* A definition whose name begins with Bug is a slip the code could have   *)
(* had; it only replaces the definition below it in a mutation run.        *)
(***************************************************************************)
EXTENDS QvmImage

VARIABLES
  file,      \* bytecode, length
  phase,     \* where VM_Create stands
  dataBase,  \* vm->dataBase; <<>> before it is allocated
  codeBase,  \* vm->codeBase, the words that have been written
  pointers,  \* vm->instructionPointers, the entries that have been written
  bytePc,
  intPc,
  insn       \* local variable instruction of VM_PrepareInterpreter

LoaderInit ==
  /\ phase = "create"
  /\ dataBase = <<>> /\ codeBase = <<>> /\ pointers = <<>>
  /\ bytePc = 0 /\ intPc = 0 /\ insn = 0

Stop(p) ==
  phase' = p /\ UNCHANGED <<file, dataBase, codeBase, pointers, bytePc, intPc, insn>>

BadHeader == phase = "create" /\ ~ HeaderOk(file) /\ Stop("error")

\* malloc of the data, of the instruction pointers or of the code.
OutOfMemory ==
  /\ \/ phase = "create" /\ HeaderOk(file)
     \/ phase \in {"pointers", "code"}
  /\ Stop("nomemory")

\* Zeros, then the initialised data and the literals.
VM_LoadQVM ==
  /\ phase = "create"
  /\ HeaderOk(file)
  /\ LET h == file.header
     IN  dataBase' = [a \in 0 .. RoundedData(h) + 3 |->
                        IF a < h.dataLength + h.litLength
                        THEN file.bytes[h.dataOffset + a + 1] ELSE 0]
  /\ phase' = "pointers"
  /\ UNCHANGED <<file, codeBase, pointers, bytePc, intPc, insn>>

AllocPointers ==
  /\ phase = "pointers"
  /\ phase' = "code"
  /\ UNCHANGED <<file, dataBase, codeBase, pointers, bytePc, intPc, insn>>

AllocCode ==
  /\ phase = "code"
  /\ phase' = "expand"
  /\ UNCHANGED <<file, dataBase, codeBase, pointers, bytePc, intPc, insn>>

-----------------------------------------------------------------------------
(* First loop: expand bytes to words.                                      *)

Count == file.header.instructionCount
Code  == FromCode(file)
Allocated == 0 .. file.header.codeLength - 1   \* words of codeBase

Expanding == phase = "expand" /\ insn < Count
Number == Code[bytePc]
Opcode == OpcodeNumbered(Number)

\* The places an iteration reads and writes exist.
OpcodeInside == bytePc \in DOMAIN Code /\ intPc \in Allocated
OperandInside ==
  OperandWords(Opcode) = 1 =>
    /\ bytePc + 1 .. bytePc + OperandBytes(Opcode) \subseteq DOMAIN Code
    /\ intPc + 1 \in Allocated

\* The check moved behind the increment.
BugPastEnd == bytePc + 1 >= file.header.codeLength
PastEnd    == bytePc > file.header.codeLength

\* The most significant byte is not shifted into the sign.
BugOperand == IF Opcode = "ARG" THEN Code[bytePc + 1]
              ELSE Unsigned(FetchWord(Code, bytePc + 1))

\* The operand of OP_ARG is an unsigned byte.
Operand == IF Opcode = "ARG" THEN Code[bytePc + 1] ELSE FetchWord(Code, bytePc + 1)

ExpandInsn ==
  /\ Expanding /\ OpcodeInside /\ ~ PastEnd /\ Opcode # "BAD" /\ OperandInside
  /\ LET words == IF OperandWords(Opcode) = 1 THEN <<Number, Operand>> ELSE <<Number>>
     IN  /\ codeBase' = [w \in DOMAIN codeBase \cup (intPc .. intPc + Len(words) - 1) |->
                           IF w < intPc THEN codeBase[w] ELSE words[w - intPc + 1]]
         /\ intPc' = intPc + Len(words)
  /\ pointers' = [k \in 0 .. insn |-> IF k = insn THEN intPc ELSE pointers[k]]
  /\ bytePc' = bytePc + 1 + OperandBytes(Opcode)
  /\ insn' = insn + 1
  /\ UNCHANGED <<file, phase, dataBase>>

RejectInsn == Expanding /\ OpcodeInside /\ (PastEnd \/ Opcode = "BAD") /\ Stop("error")

ExpandWild ==
  /\ Expanding
  /\ ~ (OpcodeInside /\ (PastEnd \/ Opcode = "BAD" \/ OperandInside))
  /\ Stop("undefined")

\* The loop variable is not reset.
BugEndExpand ==
  /\ phase = "expand" /\ insn = Count
  /\ phase' = "translate" /\ intPc' = 0
  /\ UNCHANGED <<file, dataBase, codeBase, pointers, bytePc, insn>>

EndExpand ==
  /\ phase = "expand" /\ insn = Count
  /\ phase' = "translate" /\ intPc' = 0 /\ insn' = 0
  /\ UNCHANGED <<file, dataBase, codeBase, pointers, bytePc>>

-----------------------------------------------------------------------------
(* Second loop: branch targets, from instruction to word indices.          *)

Translating == phase = "translate" /\ insn < Count
WordOpcode  == OpcodeNumbered(codeBase[intPc])
Target      == codeBase[intPc + 1]

Translated == [codeBase EXCEPT ![intPc + 1] = pointers[Target]]

\* The case of a branch does not go on.
BugTranslateInsn ==
  /\ Translating
  /\ IF WordOpcode \in CondBranch
     THEN /\ Target \in 0 .. Count - 1 /\ codeBase' = Translated
          /\ UNCHANGED <<intPc, insn>>
     ELSE /\ intPc' = intPc + 1 + OperandWords(WordOpcode) /\ insn' = insn + 1
          /\ UNCHANGED codeBase
  /\ UNCHANGED <<file, phase, dataBase, pointers, bytePc>>

TranslateInsn ==
  /\ Translating
  /\ IF WordOpcode \in CondBranch THEN Target \in 0 .. Count - 1 /\ codeBase' = Translated
                                  ELSE UNCHANGED codeBase
  /\ intPc' = intPc + 1 + OperandWords(WordOpcode)
  /\ insn' = insn + 1
  /\ UNCHANGED <<file, phase, dataBase, pointers, bytePc>>

RejectTarget ==
  /\ Translating /\ WordOpcode \in CondBranch /\ Target \notin 0 .. Count
  /\ Stop("error")

\* The check lets the number of instructions pass.
TargetWild ==
  /\ Translating /\ WordOpcode \in CondBranch /\ Target = Count
  /\ Stop("undefined")

EndTranslate == phase = "translate" /\ insn = Count /\ Stop("ready")

LoaderNext ==
  \/ BadHeader \/ OutOfMemory \/ VM_LoadQVM \/ AllocPointers \/ AllocCode
  \/ ExpandInsn \/ RejectInsn \/ ExpandWild \/ EndExpand
  \/ TranslateInsn \/ RejectTarget \/ TargetWild \/ EndTranslate

Stopped == phase \in {"ready", "error", "nomemory", "undefined"}
=============================================================================
