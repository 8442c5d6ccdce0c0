------------------------------ MODULE Loading -------------------------------
(***************************************************************************)
(* Both back ends read one file, as make test has them do: first VM_Create *)
(* for the interpreter, then the beginning of the translator.  Neither     *)
(* changes the file.                                                       *)
(***************************************************************************)
EXTENDS QvmImage

CONSTANTS Files, ProgramStack

ASSUME FilesAssumption == Files \subseteq File
ASSUME ProgramStackAssumption == ProgramStack \in Nat

VARIABLES
  file,
  phase, dataBase, codeBase, pointers, bytePc, intPc, insn,  \* of VM_Create
  pass, pc, insns, totalMem                                  \* of the translator

L == INSTANCE Loader
T == INSTANCE Expand

loaderVars == <<phase, dataBase, codeBase, pointers, bytePc, intPc, insn>>
expandVars == <<pass, pc, insns, totalMem>>
vars == <<file, loaderVars, expandVars>>

Init == file \in Files /\ L!LoaderInit /\ T!ExpandInit

LoadStep  == L!LoaderNext /\ UNCHANGED expandVars
DecodeStep == L!Stopped /\ T!ExpandNext /\ UNCHANGED loaderVars

Next == LoadStep \/ DecodeStep

Spec == Init /\ [][Next]_vars

\* Both are sequential programs.
FairSpec == Spec /\ WF_vars(Next)

-----------------------------------------------------------------------------
TypeOK ==
  /\ file \in File
  /\ phase \in {"create", "pointers", "code", "expand", "translate",
               "ready", "error", "nomemory", "undefined"}
  /\ \A a \in DOMAIN dataBase : dataBase[a] \in Byte
  /\ \A w \in DOMAIN codeBase : codeBase[w] \in Word
  /\ \A k \in DOMAIN pointers : pointers[k] \in DOMAIN codeBase
  /\ bytePc \in Nat /\ intPc \in Nat /\ insn \in Nat
  /\ pass \in {"header", "alloc", "expand", "decoded", "failed", "nomemory"}
  /\ pc \in Nat /\ insns \in Seq(Insn) /\ totalMem \in Nat

(***************************************************************************)
(* The two decoders agree: a program both back ends accept is one program, *)
(* and the interpreter starts with exactly the words and instruction       *)
(* indices that belong to the opcodes and operands the translator works    *)
(* on.  (Interp starts from the right-hand side.)                          *)
(***************************************************************************)
SameProgram ==
  phase = "ready" /\ pass = "decoded" =>
    LET e == Expanded(insns)
    IN  codeBase = e.image /\ pointers = e.pointers

(***************************************************************************)
(* They start on the same data: at every address both memories have, the   *)
(* byte VM_LoadQVM left in dataBase is the one the instance gets from the  *)
(* data section.  The memories are of one size (but for four bytes beyond  *)
(* the mask) unless the program stack alone is more than all data: only    *)
(* the translator makes room for it.                                       *)
(***************************************************************************)
SameData ==
  phase = "ready" /\ pass = "decoded" =>
    LET memory == T!InstanceMemory
        beyond == 4
    IN  /\ \A a \in DOMAIN dataBase \cap DOMAIN memory : dataBase[a] = memory[a]
        /\ \/ DOMAIN dataBase = 0 .. totalMem + beyond - 1
           \/ totalMem = ProgramStack /\ DOMAIN dataBase \subseteq 0 .. totalMem + beyond - 1

\* What both back ends accept is the same program on the same data.
SameImage == SameProgram /\ SameData

\* Every conditional branch of the translator's program names an instruction.
BranchesInside ==
  \A k \in Indices(insns) : Op(insns, k) \in CondBranch => Arg(insns, k) \in Indices(insns)

(***************************************************************************)
(* A program the translator can decode and whose branches name             *)
(* instructions is never refused by the loader of the interpreter once the *)
(* memory is there, and never makes it leave an allocation.                *)
(***************************************************************************)
LoaderAcceptsDecodable ==
  pass = "decoded" /\ BranchesInside =>
    phase \in {"ready", "nomemory"}

(***************************************************************************)
(* The other way round, as long as the instructions end where the code     *)
(* segment ends or before; and the loader accepts no code that goes on     *)
(* behind it for more than one instruction.                                *)
(***************************************************************************)
DecoderAcceptsLoaded ==
  phase = "ready" =>
    /\ bytePc <= file.header.codeLength => pass # "failed"
    /\ bytePc <= file.header.codeLength + 5

\* The two accept the same files, but for code that goes on behind its segment.
AcceptAlike == LoaderAcceptsDecodable /\ DecoderAcceptsLoaded

\* Loading comes to an end.
LoadingEnds == <>(L!Stopped /\ T!Ended)

-----------------------------------------------------------------------------
\* vm.c, "VM_PrepareInterpreter: Jump to invalid instruction number": branch
\* targets that are no instruction are refused before they are looked up.
TargetsChecked == [][~ (phase = "translate" /\ phase' = "undefined")]_vars
=============================================================================
