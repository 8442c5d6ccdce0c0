----------------------------- MODULE MCProfile ------------------------------
(* Files that q3asm or an editor wrote, with comments, quotes and capitals,  *)
(* and every short text of digits and blanks; and programs with recursion,   *)
(* several functions and system calls beside files that name the functions:  *)
(* the host calls back, asks for reports and sets breakpoints.               *)
EXTENDS Profile, TestPrograms

MCProgram(p) == [insns |-> p, depth |-> MCDepth(p), returns |-> <<>>]

MCHostArgs   == {<<1>>, <<2>>}
MCHostWrites == {<<>>}

\* vmMain = OP_BREAK, f(f(n)), and f makes the system call.
Twice ==
  << InsA("ENTER", 12), Ins("BREAK"), InsA("LOCAL", 20), Ins("LOAD4"), InsA("ARG", 8),
     InsA("CONST", 11), Ins("CALL"), InsA("ARG", 8), InsA("CONST", 11), Ins("CALL"),
     InsA("LEAVE", 12),
     InsA("ENTER", 12), InsA("LOCAL", 20), Ins("LOAD4"), InsA("ARG", 8),
     InsA("CONST", -1), Ins("CALL"), InsA("LEAVE", 12) >>

\* Its instructions begin at words 0, 2 and 4.
OnlyLoaded == <<InsA("ENTER", 12), InsA("CONST", 0), InsA("LEAVE", 12)>>

MCPrograms == {MCProgram(p) : p \in {Recursive, Syscalls, Twice, OnlyLoaded}}

MCBehind == {<<0>>, <<48, 49, 0>>, <<42, 47, 48, 32, 49, 32, 97, 0>>}

PlaceOf(v) == IF v \in 0 .. 2 THEN 2 * v ELSE v

\* Texts of up to n characters, and in triples what they say: the maximal runs
\* of solid characters, three by three.
Alphabet == {10, -1, 48, 98}
Texts(n) == UNION {[1 .. k -> Alphabet] : k \in 1 .. n}

Ink == 33 .. 127
Starts(t) == {i \in DOMAIN t : t[i] \in Ink /\ (i > 1 => t[i - 1] \notin Ink)}
Run(t, i) ==
  LET end == Min({j \in i .. Len(t) : t[j] \notin Ink} \cup {Len(t) + 1})
  IN  SubSeq(t, i, IF end - i < MaxToken THEN end - 1 ELSE i + MaxToken - 2)
Runs(t) == LET s == SetToSortSeq(Starts(t), <) IN [k \in DOMAIN s |-> Run(t, s[k])]

Says(t) ==
  LET r == Runs(t)
      Line(k) == <<r[3 * k - 2], r[3 * k - 1], r[3 * k]>>
      lines == SelectSeq([k \in 1 .. Len(r) \div 3 |-> Line(k)], LAMBDA l : ParseHex(l[1]) = 0)
  IN  [k \in DOMAIN lines |-> [value |-> PlaceOf(ParseHex(lines[k][2])), name |-> lines[k][3]]]

Plainly(t) == [text |-> t, symbols |-> Says(t)]

Sym(v, name) == [value |-> v, name |-> name]

\* A list of lines: segment, value, name; a style of separator each.
Styles ==
  { <<48, 32, 32, 49, 32, 109, 10>>,                     \* 0  1 m
    <<48, 9, 50, 32, 34, 32, 47, 34, 10>>,               \* 0 2 " /"
    <<47, 47, 48, 32, 49, 32, 109, 10>>,                 \* //0 1 m
    <<47, 42, 47, 32, 10, 42, 47, 10>>,                  \* /*/ \n */
    <<50, 32, 49, 32, 110, 10>>,                         \* 2 1 n
    <<71, 32, 51, 32, 112, 10>>,                         \* G 3 p
    <<48, 32, 49, 65, 32, 120, 120, 120, 120, 120, 32>> }  \* 0 1A xxxxx

Named(l) ==
  CASE l[3] = 32 /\ l[1] = 48  -> <<Sym(2, <<109>>)>>
    [] l[2] = 9                -> <<Sym(4, <<32, 47>>)>>
    [] l[3] = 49 /\ l[1] = 48  -> <<Sym(26, <<120, 120, 120>>)>>
    [] l[1] = 71               -> <<Sym(3, <<112>>)>>
    [] OTHER                   -> <<>>

Written ==
  {[text |-> FlattenSeq(s), symbols |-> FlattenSeq([k \in DOMAIN s |-> Named(s[k])])]
   : s \in UNION {[1 .. n -> Styles] : n \in 1 .. 3}}

\* Quotes and comments without an end.
Torn == {Plainly(t) : t \in {<<48, 32, 49, 32, 34, 109>>, <<34>>, <<48, 32, 34, 10>>, <<49, 34>>, <<49, 32, 34>>}}
        \cup {[text |-> t, symbols |-> <<>>] : t \in {<<47, 42, 42>>, <<47>>, <<48, 32, 47, 47>>}}

\* Read, but the program is not called.
OnlyRead ==
  {[text |-> f.text, symbols |-> f.symbols, pointers |-> [i \in 0 .. 2 |-> 2 * i],
    program |-> OnlyLoaded, called |-> FALSE]
   : f \in Written \cup Torn \cup {Plainly(t) : t \in Texts(6)}}

\* The files beside the programs that are called: one names each function, in
\* the order of their places, one none.
HexChar(n) == IF n < 10 THEN 48 + n ELSE 87 + n
Hex(n)     == IF n < 16 THEN <<HexChar(n)>> ELSE <<HexChar(n \div 16), HexChar(n % 16)>>

FunctionFile(p) ==
  LET e == SetToSortSeq(Entries(p), <)
  IN  [text |-> FlattenSeq([k \in DOMAIN e |-> <<48, 32>> \o Hex(e[k]) \o <<32, 96 + k, 10>>]),
       symbols |-> [k \in DOMAIN e |-> Sym(Expanded(p).pointers[e[k]], <<96 + k>>)],
       pointers |-> Expanded(p).pointers, program |-> p, called |-> TRUE]

NoFunctions(p) ==
  [text |-> <<47, 47, 10>>, symbols |-> <<>>, pointers |-> Expanded(p).pointers,
   program |-> p, called |-> TRUE]

MCFiles == OnlyRead \cup UNION {{FunctionFile(p), NoFunctions(p)} : p \in {Recursive, Syscalls, Twice}}

ASSUME \A f \in MCFiles : Describes(f)

\* The programs do not use floating point.
MCFloatResult(op, a, b) == a
MCFloatHolds(op, a, b)  == FALSE
=============================================================================
