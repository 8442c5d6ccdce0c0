------------------------------ MODULE MCGuest ------------------------------
(* One of the three calls is of interest, the two others have nothing to do. *)
(* Arrays of up to six elements of three kinds under an order, and under one *)
(* that ties two of them; arrays of two kinds under every comparison.        *)
EXTENDS Guest

Kinds == 1 .. 3
Rank(a, b) == IF a < b THEN -1 ELSE IF a > b THEN 1 ELSE 0

\* The elements lie between two others.
Call(elements, compare) ==
  [mem |-> <<1>> \o elements \o <<2>>, a |-> 2, n |-> Len(elements), cmp |-> compare]

NoArray  == Call(<<>>, [x \in (1 .. 2) \X (1 .. 2) |-> 0])
Upto(k, set) == UNION {[1 .. j -> set] : j \in 0 .. k}
MCOrdered ==
  {[mem |-> <<3>> \o e \o <<3>>, a |-> 2, n |-> Len(e),
    cmp |-> [x \in (Range(e) \cup {3}) \X (Range(e) \cup {3}) |-> Rank(x[1] \div d, x[2] \div d)]]
     : e \in Upto(6, Kinds), d \in {1, 2}}
MCWild == {Call(e, c) : e \in [1 .. 5 -> 1 .. 2], c \in [(1 .. 2) \X (1 .. 2) -> {-1, 0, 1}]}
MCArrays == MCOrdered \cup MCWild \cup {NoArray}

\* A memory of eight bytes, two of them fixed, with strings of up to six.
MCTexts ==
  {[b \in 0 .. 7 |-> CASE b = 0 -> 5 [] b = 7 -> 0 [] OTHER -> e[b]]
     : e \in {x \in [1 .. 6 -> {-1, 0, 1}] : \A b \in 4 .. 6 : x[b] # -1}}
MCRequests ==
  [fn : {"strcpy", "strcat", "strcmp", "strstr"}, dest : {1, 2, 5}, src : {1, 3, 4}, x : {0}]
  \cup [fn : {"strlen"}, dest : {0}, src : {1, 3, 7}, x : {0}]
  \cup [fn : {"strchr"}, dest : {0}, src : {1, 3}, x : {-1, 1}]
  \cup [fn : {"memmove"}, dest : {1, 3}, src : {1, 2, 4}, x : {-1, 0, 1, 3, 4}]
NoRequest == [fn |-> "strlen", dest |-> 0, src |-> 7, x |-> 0]
NoText    == [b \in 0 .. 7 |-> IF b = 0 THEN 5 ELSE 0]

Piece(conv, flag, w, p, v) == [conv |-> conv, flag |-> flag, width |-> w, prec |-> p, arg |-> v]
Plain(c) == Piece(0, 0, 0, -1, c)

Rendered(p) ==
  IF p.conv = 0 THEN IF p.arg = Percent THEN <<Percent, Percent>> ELSE <<p.arg>>
  ELSE <<Percent>> \o (IF p.flag = 0 THEN <<>> ELSE <<p.flag>>)
       \o (IF p.width = 0 THEN <<>> ELSE Decimal(p.width))
       \o (IF p.prec < 0 THEN <<>> ELSE <<Dot>> \o Decimal(p.prec))
       \o <<p.conv>>

\* As many directives as the second argument says, for the numbers in turn.
ScanFormat(ps, k) ==
  LET letters == SelectSeq([j \in DOMAIN ps |-> ps[j].conv], LAMBDA c : c # 0)
      letter(j) == IF j \in DOMAIN letters /\ letters[j] \in {99, 102} THEN letters[j] ELSE 100
  IN  FlattenSeq([j \in 1 .. k |-> <<Percent, letter(j), Space>>])
Printed(ps, scans) ==
  [fmt    |-> FlattenSeq([k \in DOMAIN ps |-> Rendered(ps[k])]),
   args   |-> FlattenSeq([k \in DOMAIN ps |-> IF ps[k].conv = 0 THEN <<>> ELSE <<ps[k].arg>>]),
   scan   |-> ScanFormat(ps, scans), pieces |-> ps]

MCStrings == << <<>>, <<97>>, <<98, 99, 37>> >>

Ints   == [conv : {100}, flag : {0, Minus, Zero}, width : {0, 1, 3, 12}, prec : {-1},
           arg : {-512, -511, -7, 0, 9, 10, 511}]
Others == [conv : {102}, flag : {0}, width : {0, 4}, prec : {-1, 0, 1, 3}, arg : {-9, -1, 0, 5, 8, 100}]
          \cup [conv : {115}, flag : {0, Minus}, width : {0, 2, 5}, prec : {-1, 0, 2}, arg : 0 .. 3]
          \cup [conv : {99, 120}, flag : {0}, width : {0}, prec : {-1}, arg : {97, 300}]
          \cup {Plain(97), Plain(Percent)}

Floats == {Piece(102, 0, 0, p, v) : p \in {1, 3, 6}, v \in {-9, 0, 5, 100}}
Few == {Piece(100, 0, 0, -1, -7), Piece(100, Minus, 4, -1, 12), Piece(100, Zero, 3, -1, 5), Piece(100, 0, 5, -1, 511)}

NoPrint == Printed(<<>>, 0)

MCPrints ==
  {NoPrint} \cup {Printed(<<p>>, 1) : p \in Ints \cup Others}
  \cup {Printed(<<p, q>>, 0) : p \in Few \cup Others, q \in Few \cup {Plain(97), Piece(115, 0, 0, -1, 3)}}
  \cup {Printed(<<p, Plain(Space), q>>, 2) : p \in Ints, q \in Few}
  \cup {Printed(<<p, Plain(Space), q>>, 3) : p \in Few, q \in Few}
  \cup {Printed(<<p, Plain(Space), q>>, 2) : p \in Few \cup Floats, q \in Floats}
  \cup {Printed(<<p, Plain(Space), q>>, 2) : p \in Floats, q \in Few}
  \cup {Printed(<<Plain(Dot), p, q>>, 2) : p \in Floats, q \in {Plain(97)}}
  \cup {[fmt |-> <<97, Percent, Minus>>, args |-> <<>>, scan |-> <<>>, pieces |-> <<>>]}
MCInit ==
  \/ /\ request = NoRequest /\ before = NoText /\ print = NoPrint
     /\ StringInit /\ FormatInit /\ SortInit
  \/ /\ sort = NoArray /\ print = NoPrint
     /\ SortInit /\ FormatInit /\ StringInit
  \/ /\ sort = NoArray /\ request = NoRequest /\ before = NoText
     /\ SortInit /\ StringInit /\ FormatInit

MCSpec == MCInit /\ [][GuestNext]_guestVars /\ LibraryRuns
=============================================================================
