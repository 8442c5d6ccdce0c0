---------------------------- MODULE TestPrograms ----------------------------
(* Programs as q3asm lays them out, for a memory of 128 bytes of two bits:  *)
(* a word is 8 bits wide, frames are 12 or 16 bytes.                        *)
EXTENDS QvmIsa

Ins(op)     == [op |-> op, arg |-> 0]
InsA(op, x) == [op |-> op, arg |-> x]

\* Depths by one pass; code behind a jump starts empty.
MCDepth(p) ==
  LET d[i \in Indices(p)] ==
        IF Op(p, i) = "ENTER" \/ Op(p, i - 1) \in Diverts THEN 0
        ELSE d[i - 1] - Pops(Op(p, i - 1)) + Pushes(Op(p, i - 1))
  IN  d

\* vmMain(n) = n = 0 ? 0 : n + vmMain(n - 1), n kept on the operand stack.
Recursive ==
  << InsA("ENTER", 12), InsA("LOCAL", 20), Ins("LOAD4"), InsA("CONST", 0),
     InsA("EQ", 16),
     InsA("LOCAL", 20), Ins("LOAD4"),
     InsA("LOCAL", 20), Ins("LOAD4"), InsA("CONST", 1), Ins("SUB"), InsA("ARG", 8),
     InsA("CONST", 0), Ins("CALL"), Ins("ADD"), InsA("LEAVE", 12),
     InsA("CONST", 0), InsA("LEAVE", 12) >>

\* vmMain(n): local = n; f(); return local + syscall 1(local); f() is void.
Syscalls ==
  << InsA("ENTER", 16), InsA("LOCAL", 12), InsA("LOCAL", 24), Ins("LOAD4"),
     Ins("STORE4"), InsA("CONST", 17), Ins("CALL"), Ins("POP"),
     InsA("LOCAL", 12), Ins("LOAD4"), InsA("LOCAL", 12), Ins("LOAD4"),
     InsA("ARG", 8), InsA("CONST", -2), Ins("CALL"),
     Ins("ADD"), InsA("LEAVE", 16),
     InsA("ENTER", 8), Ins("PUSH"), InsA("LEAVE", 8) >>

\* vmMain = 3 + f(), and f makes the system call.
Nested ==
  << InsA("ENTER", 12), InsA("CONST", 3), InsA("CONST", 6), Ins("CALL"),
     Ins("ADD"), InsA("LEAVE", 12),
     InsA("ENTER", 12), InsA("LOCAL", 32), Ins("LOAD4"), InsA("ARG", 8),
     InsA("CONST", -1), Ins("CALL"), InsA("LEAVE", 12) >>

\* A loop and a jump table.
Switch ==
  << InsA("ENTER", 12), InsA("LOCAL", 20), Ins("LOAD4"), InsA("CONST", 1), Ins("BAND"),
     InsA("CONST", 1), Ins("LSH"), InsA("CONST", 10), Ins("ADD"), Ins("JUMP"),
     InsA("CONST", 7), InsA("LEAVE", 12),
     InsA("LOCAL", 20), InsA("CONST", 0), Ins("STORE4"), InsA("CONST", 1), Ins("JUMP") >>

\* Copies, narrow accesses, conversions, a discarded value.
Data ==
  << InsA("ENTER", 12), InsA("CONST", 17), InsA("CONST", -3), Ins("STORE2"),
     InsA("LOCAL", 8), InsA("CONST", 16), InsA("BLOCK_COPY", 4),
     InsA("LOCAL", 9), Ins("LOAD2"), Ins("SEX16"), InsA("LOCAL", 9), Ins("LOAD1"),
     Ins("SEX8"), Ins("MULI"), Ins("NEGI"), Ins("CVIF"), InsA("CONST", 4), Ins("ADDF"),
     InsA("LOCAL", 20), Ins("LOAD4"), Ins("CVIF"), InsA("LTF", 24),
     InsA("CONST", 1), InsA("LEAVE", 12),
     Ins("BREAK"), Ins("IGNORE"), InsA("CONST", 2), Ins("POP"), InsA("CONST", 2),
     Ins("BCOM"), InsA("LEAVE", 12) >>
=============================================================================
