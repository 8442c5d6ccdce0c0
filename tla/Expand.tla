------------------------------- MODULE Expand -------------------------------
(***************************************************************************)
(* The beginning of QVM2WASM_Compile and pass 1 of the translator,         *)
(* expand_code: from a file to a sequence of opcodes and operands.  One    *)
(* step per iteration of the loop of expand_code.                          *)
(***************************************************************************)
EXTENDS QvmImage

CONSTANT ProgramStack   \* VM_PROGRAM_STACK_SIZE

VARIABLES
  file,      \* bytecode, length
  pass,      \* where QVM2WASM_Compile stands
  pc,
  insns,     \* c->ops and c->operands, as far as they are filled
  totalMem   \* c->totalMem

ExpandInit == pass = "header" /\ pc = 0 /\ insns = <<>> /\ totalMem = 0

\* QVM2WASM_Compile returns -1.
Fail(why) == pass' = why /\ UNCHANGED <<file, pc, insns, totalMem>>

BadImage == pass = "header" /\ ~ HeaderOk(file) /\ Fail("failed")

ReadHeader ==
  /\ pass = "header"
  /\ HeaderOk(file)
  /\ totalMem' = LET n == RoundedData(file.header) IN IF n < ProgramStack THEN ProgramStack ELSE n
  /\ pass' = "alloc"
  /\ UNCHANGED <<file, pc, insns>>

AllocInsns == pass = "alloc" /\ pass' = "expand" /\ UNCHANGED <<file, pc, insns, totalMem>>
NoMemory   == pass = "alloc" /\ Fail("nomemory")

Code   == FromCode(file)
Length == file.header.codeLength
Decoding == pass = "expand" /\ Len(insns) < file.header.instructionCount
Opcode == OpcodeNumbered(Code[pc])

\* One byte early.
BugTruncated == pc >= Length \/ (Opcode # "BAD" /\ pc + 1 + OperandBytes(Opcode) >= Length)

Truncated ==
  pc >= Length \/ (Opcode # "BAD" /\ pc + 1 + OperandBytes(Opcode) > Length)

Decoded == IF Opcode \in HasI4Operand THEN FetchWord(Code, pc + 1)
           ELSE IF Opcode = "ARG" THEN Code[pc + 1] ELSE 0

Readable == ~ Truncated /\ Opcode # "BAD"

DecodeInsn ==
  /\ Decoding /\ Readable
  /\ insns' = Append(insns, [op |-> Opcode, arg |-> Decoded])
  /\ pc' = pc + 1 + OperandBytes(Opcode)
  /\ UNCHANGED <<file, pass, totalMem>>

RejectCode == Decoding /\ ~ Readable /\ Fail("failed")

EndDecode ==
  /\ pass = "expand" /\ Len(insns) = file.header.instructionCount
  /\ pass' = "decoded" /\ UNCHANGED <<file, pc, insns, totalMem>>

\* The literals are forgotten.
BugSectionLength == file.header.dataLength
SectionLength    == file.header.dataLength + file.header.litLength

\* The data section emit_module writes, for address 0.
DataSection == [k \in 1 .. SectionLength |-> file.bytes[file.header.dataOffset + k]]

\* The memory of the instance when vmMain is called first.
InstanceMemory ==
  [a \in 0 .. totalMem - 1 |-> IF a < Len(DataSection) THEN DataSection[a + 1] ELSE 0]

ExpandNext ==
  \/ BadImage \/ ReadHeader \/ AllocInsns \/ NoMemory
  \/ DecodeInsn \/ RejectCode \/ EndDecode

Ended == pass \in {"decoded", "failed", "nomemory"}
=============================================================================
