------------------------------ MODULE MCQvm2wasm -----------------------------
(* Command lines of up to four arguments, and paths with and without dots or *)
(* with nothing at all; a module with a section that fits into the first     *)
(* allocation, one that needs several doublings at once, two functions and a *)
(* data section; and, beside it, the encoders of numbers, each on every      *)
(* number there is.                                                          *)
EXTENDS Qvm2wasm, Leb128

MCSections == << <<1, 1>>, <<1, 5>> >>
MCBodies   == << <<1, 2>>, <<2>> >>
MCDataSection == <<1, 3>>

Paths  == {<<>>, <<".", "q">>, <<"d", "/", ".", "q">>, <<"a", ".", "q">>, <<"a">>, <<"d", ".", "x", "/", "a">>, <<".", "/", "a", ".", "q">>,
           <<"a", ".", "b", ".", "q">>, <<"a", "a", "a", "a", "a", "a", "a", "a", "a">>}
Tokens == {FlagRun, FlagOut, FlagHelp, <<"a", ".", "q">>, <<"7">>}

Lines == UNION {[1 .. n -> Tokens] : n \in 0 .. 4} \cup {<<p>> : p \in Paths} \cup {<<FlagRun, p>> : p \in Paths}

MCCommandLines ==
  {[program |-> "qvm2wasm", argv |-> l] : l \in Lines}
  \cup {[program |-> "host", argv |-> l] : l \in UNION {[1 .. n -> {<<"7">>, <<"8">>}] : n \in 0 .. 4}}
MCScarceLines == {<< <<"a">> >>}

\* The encoders run first, and only once beside a program that does more than
\* complain that it has no arguments.
MCInit ==
  /\ Qvm2wasmInit
  /\ LebInit
  /\ argv # <<>> => value = 0 /\ ~ signed

Encode  == LebNext /\ UNCHANGED <<vars, compileVars>>
Execute == ~ more /\ Qvm2wasmNext /\ UNCHANGED lebVars

MCNext == Encode \/ Execute

MCSpec == MCInit /\ [][MCNext]_<<vars, compileVars, lebVars>>
=============================================================================
