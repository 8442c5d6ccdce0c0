------------------------------- MODULE QvmIsa -------------------------------
(***************************************************************************)
(* The QVM instruction set as both back ends see it: the opcodes of vm.h,  *)
(* the operand widths and the operand-stack effect that wasm.c tabulates,  *)
(* and what it means for a depth annotation of a program to be consistent. *)
(*                                                                         *)
(* A program is the expanded instruction stream (wasm.c, pass 1): a        *)
(* sequence of records [op, arg].  The code counts instructions from 0,    *)
(* sequences count from 1; Op and Arg are the only two places that know.   *)
(***************************************************************************)
EXTENDS Integers, Sequences

IntBranch   == {"EQ", "NE", "LTI", "LEI", "GTI", "GEI",
                "LTU", "LEU", "GTU", "GEU"}
FloatBranch == {"EQF", "NEF", "LTF", "LEF", "GTF", "GEF"}
CondBranch  == IntBranch \cup FloatBranch

Load        == {"LOAD1", "LOAD2", "LOAD4"}
Store       == {"STORE1", "STORE2", "STORE4"}
IntUnary    == {"SEX8", "SEX16", "NEGI", "BCOM"}
FloatUnary  == {"NEGF", "CVIF", "CVFI"}
IntBinary   == {"ADD", "SUB", "DIVI", "DIVU", "MODI", "MODU", "MULI", "MULU",
                "BAND", "BOR", "BXOR", "LSH", "RSHI", "RSHU"}
FloatBinary == {"ADDF", "SUBF", "DIVF", "MULF"}

Opcodes == {"UNDEF", "IGNORE", "BREAK", "ENTER", "LEAVE", "CALL", "PUSH",
            "POP", "CONST", "LOCAL", "JUMP", "ARG", "BLOCK_COPY"}
           \cup CondBranch \cup Load \cup Store
           \cup IntUnary \cup FloatUnary \cup IntBinary \cup FloatBinary

\* Instructions followed by a four-byte operand in the code segment.
HasI4Operand == {"ENTER", "CONST", "LOCAL", "LEAVE", "BLOCK_COPY"} \cup CondBranch

Insn == [op : Opcodes, arg : Int]

-----------------------------------------------------------------------------
(* Operand-stack effect of one instruction.                                *)

Pops(op) ==
  IF op \in {"POP", "ARG", "JUMP", "CALL"} \cup Load \cup IntUnary \cup FloatUnary
  THEN 1
  ELSE IF op \in Store \cup {"BLOCK_COPY"} \cup IntBinary \cup FloatBinary \cup CondBranch
  THEN 2 ELSE 0

Pushes(op) ==
  IF op \in {"CONST", "LOCAL", "PUSH", "CALL"} \cup Load \cup IntUnary
            \cup FloatUnary \cup IntBinary \cup FloatBinary
  THEN 1 ELSE 0

-----------------------------------------------------------------------------
(* Programs.                                                               *)

Op(p, i)  == p[i + 1].op
Arg(p, i) == p[i + 1].arg
Indices(p) == 0 .. Len(p) - 1

\* Control never continues with the next instruction after these two.
Diverts == {"JUMP", "LEAVE"}

\* i and t belong to one function: no OP_ENTER separates them.
SameFunction(p, i, t) ==
  /\ t \in Indices(p)
  /\ \A k \in i + 1 .. t : Op(p, k) # "ENTER"
  /\ \A k \in t + 1 .. i : Op(p, k) # "ENTER"

\* Execution can run from i into i + 1 without a jump and without leaving
\* the function.
FallsInto(p, i) ==
  /\ i + 1 \in Indices(p)
  /\ Op(p, i) \notin Diverts
  /\ Op(p, i + 1) # "ENTER"

-----------------------------------------------------------------------------
(***************************************************************************)
(* D gives the number of operands the function has on the stack before     *)
(* each instruction.  After(p, D, i) is the number behind instruction i.   *)
(***************************************************************************)
After(p, D, i) == D[i] - Pops(Op(p, i)) + Pushes(Op(p, i))

\* A place that is only reached through a jump table, or never.
Orphan(p, j) ==
  /\ j > 0
  /\ Op(p, j) # "ENTER"
  /\ Op(p, j - 1) \in Diverts
  /\ \A i \in 0 .. j - 1 : ~ (Op(p, i) \in CondBranch /\ Arg(p, i) = j)

(***************************************************************************)
(* What the static analysis must deliver, without reference to how it is   *)
(* computed: a function starts empty; no instruction under- or overflows   *)
(* the stack of `slots` words; the two ends of every control-flow edge     *)
(* agree; conditional branches stay in their function; jump-table targets  *)
(* start empty, as q3asm lays them out.                                    *)
(***************************************************************************)
ConsistentDepths(p, D, slots) ==
  /\ \A i \in Indices(p) :
       /\ D[i] >= Pops(Op(p, i))
       /\ After(p, D, i) <= slots
       /\ Op(p, i) = "ENTER" => D[i] = 0
       /\ Orphan(p, i) => D[i] = 0
       /\ FallsInto(p, i) => D[i + 1] = After(p, D, i)
       /\ Op(p, i) \in CondBranch =>
            /\ SameFunction(p, i, Arg(p, i))
            /\ D[Arg(p, i)] = After(p, D, i)
=============================================================================
