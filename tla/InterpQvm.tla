----------------------------- MODULE InterpQvm ------------------------------
(***************************************************************************)
(* The interpreter seen as the machine of Qvm.  The return addresses and   *)
(* frame notes in guest memory, the one operand stack all functions of an  *)
(* activation share and the C stack of VM_CallInterpreted become a         *)
(* sequence of pending calls.                                              *)
(***************************************************************************)
EXTENDS Compiled

\* The instruction that begins at word w.
IndexOf(w) == CHOOSE i \in DOMAIN code.pointers : code.pointers[i] = w

Overflown == Level > 0 /\ ~ A.inSyscall /\ A.ps <= StackBottom

\* VM_Free in a handler ends the process with an error.
QvmStatus ==
  IF Overflown THEN "overflow"
  ELSE IF status = "error" /\ Level > 0 /\ A.inSyscall THEN "freed" ELSE status

Alive == QvmStatus = "ok"

\* How many of the pending calls that wait for a callee are of activations up to k.
Beneath(k) == Max({0} \cup {j \in DOMAIN frames : frames[j].level <= k})

\* The call of activation k behind the first n of them; the host has called
\* it unless the last of these is of the same activation.
CallAt(k, n, word, ps, ofs, sys) ==
  LET a      == acts[k]
      first  == n = 0 \/ frames[n].level # k
      bottom == IF first THEN 0 ELSE frames[n].base
  IN  [pc   |-> IndexOf(word),
       ps   |-> ps,
       base |-> IF first THEN a.entry - FrameBytes ELSE frames[n].ps,
       ops  |-> [s \in 1 .. ofs - bottom |-> a.opStack[bottom + s]],
       sys  |-> sys,
       cmd  |-> IF first THEN <<a.command>> ELSE <<>>]

Waiting(j) ==
  LET f == frames[j] IN CallAt(f.level, j - 1, f.ret, f.ps, f.base, -1)

Innermost(k) ==
  LET a == acts[k]
  IN  IF a.inSyscall
      THEN CallAt(k, Beneath(k), FetchWord(image, a.ps), a.ps, a.ofs, FetchWord(image, a.ps + 4))
      ELSE CallAt(k, Beneath(k), a.pc, a.ps, a.ofs, -1)

\* The calls of an activation, then those of the one nested in it.
QvmCalls ==
  IF Alive
  THEN [n \in 1 .. Len(frames) + Level |->
          IF \E k \in DOMAIN acts : n = Beneath(k) + k
          THEN Innermost(CHOOSE k \in DOMAIN acts : n = Beneath(k) + k)
          ELSE Waiting(CHOOSE j \in DOMAIN frames : n = j + frames[j].level - 1)]
  ELSE <<>>

QvmMem == IF Alive THEN [a \in InUse |-> image[a]] ELSE <<>>

Q == INSTANCE Qvm WITH
       Programs <- {p.insns : p \in Programs}, prog <- prog.insns,
       mem <- QvmMem, calls <- QvmCalls, status <- QvmStatus,
       result <- IF Alive THEN result ELSE <<>>

(***************************************************************************)
(* VM_CallInterpreted runs a compiled program as the abstract machine      *)
(* does, until the program stack is full: every C step is an instruction,  *)
(* a call or return of the host, or nothing a program can see.             *)
(***************************************************************************)
ImplementsQvm == Q!Spec
=============================================================================
