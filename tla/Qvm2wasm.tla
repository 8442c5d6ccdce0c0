------------------------------ MODULE Qvm2wasm ------------------------------
(***************************************************************************)
(* qvm2wasm as a whole: the driver (main.c, module Driver) with            *)
(* QVM2WASM_Compile (wasm.c, module Compile) in the place of its step      *)
(* Translate.  What the one returns the other relies on, and the block it  *)
(* returns is the driver's to give back.                                   *)
(***************************************************************************)
EXTENDS Driver, Compile

CONSTANT
  ScarceLines  \* bound of the model: command lines for which memory may run out

Qvm2wasmInit ==
  /\ Init
  /\ CompileInit
  /\ scarce => argv \in ScarceLines

\* The driver is in the call.
Compiling == At("translate") /\ pc # "returned"

QVM2WASM_Compile == Compiling /\ CompileNext /\ UNCHANGED vars

\* It goes on with what the call returned; the block is freed as its wasm.
Returned == At("translate") => pc = "returned" /\ ("wasm" \in held' <=> ret = 0)
Freed    == IF "wasm" \in held \ held' THEN {"out"} ELSE {}

Main ==
  /\ Next
  /\ Returned
  /\ heap' = heap \ Freed
  /\ UNCHANGED <<pc, scarce, bufs, work, wasm, ret>>

Qvm2wasmNext == Main \/ QVM2WASM_Compile

Qvm2wasmSpec == Qvm2wasmInit /\ [][Qvm2wasmNext]_<<vars, compileVars>>

-----------------------------------------------------------------------------
(***************************************************************************)
(* QVM2WASM_Compile returns a block exactly when it returns 0, and when    *)
(* main returns every block and every stream has been given back, on each  *)
(* of the ways out, but for the section buffer that emit_module forgets    *)
(* when its second buffer cannot be allocated.                             *)
(***************************************************************************)
ReturnsClean ==
  /\ pc = "returned" => (ret = 0 <=> wasm # NoModule)
  /\ how = "return" => /\ held = {}
                       /\ heap \subseteq {"sec"}
                       /\ ~ scarce => heap = {}
=============================================================================
