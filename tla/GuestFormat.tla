---------------------------- MODULE GuestFormat ----------------------------
(***************************************************************************)
(* vsprintf of the guest library (example/bg_lib.c) with AddInt, AddFloat  *)
(* and AddString, and sscanf with _atoi and _atof, which read back what    *)
(* was written.  One step per character of plain text, per group of        *)
(* characters of a directive, and per conversion.                          *)
(*                                                                         *)
(* Ints have IntBits bits.  A float is a multiple of 1 / Fraction, which   *)
(* floats of this size hold exactly, so that an argument is an int: the    *)
(* number, the numerator of a float, or which string it points to.  _atof  *)
(* adds decimals with the rounding of floats; here it adds them exactly.   *)
(***************************************************************************)
EXTENDS Integers, Sequences, SequencesExt, FiniteSetsExt

CONSTANTS
  IntBits,   \* 32
  Fraction,  \* the floats of the model are multiples of 1 / Fraction
  Strings,   \* the strings arguments point to; 0 is the null pointer
  Prints     \* records [fmt, args, scan, pieces]: vsprintf(buffer, fmt, args), and
             \* sscanf(buffer, scan, ...) behind it; pieces is what fmt is put
             \* together from: records [conv, flag, width, prec, arg], the
             \* character arg itself where conv is 0

ASSUME FormatAssumption ==
  /\ IntBits \in Nat /\ IntBits >= 9 /\ Fraction \in Nat \ {0}
  /\ \A p \in Prints : /\ p.fmt \in Seq(1 .. 127) /\ p.scan \in Seq(1 .. 127)
                       /\ p.args \in Seq(-2^(IntBits - 1) .. 2^(IntBits - 1) - 1)

VARIABLES
  print,   \* the two calls
  stage,   \* "text", "directive", "done", "scan", "scanned", "overrun"
  fmt,     \* the place in the format of vsprintf, and then of sscanf
  flags, width, prec,  \* of the directive
  arg,     \* the next argument
  buf,     \* what was written
  buffer,  \* where sscanf reads
  scanned  \* what sscanf stored

formatVars == <<print, stage, fmt, flags, width, prec, arg, buf, buffer, scanned>>

-----------------------------------------------------------------------------
(* Characters and numbers.                                                 *)

Space   == 32
Percent == 37
Plus    == 43
Minus   == 45
Dot     == 46
Zero    == 48
Million == 1000000
IsDigit(c) == c \in Zero .. Zero + 9

IntMin == -2^(IntBits - 1)
Wrap(v) == ((v - IntMin) % 2^IntBits) + IntMin
ToChar(v) == ((v + 128) % 256) - 128

\* Division that truncates.
Tenth(v) == IF v < 0 THEN - ((-v) \div 10) ELSE v \div 10
Unit(v)  == v - 10 * Tenth(v)

Repeated(c, times) == [k \in 1 .. times |-> c]

\* The digits of a number, the most significant first.
Digits(v) ==
  LET digits[w \in IntMin .. - IntMin] ==
        (IF Tenth(w) = 0 THEN <<>> ELSE digits[Tenth(w)]) \o <<Zero + Unit(w)>>
  IN  digits[v]

WithSign(v, digits) == (IF v < 0 THEN <<Minus>> ELSE <<>>) \o digits

\* The loop of left adjustment counts down to zero, from below zero too.
BugLeftPadding(digits) == width
LeftPadding(digits)    == (width - Len(digits)) % 2^IntBits

AddInt(v) ==
  LET digits == WithSign(v, Digits(IF v < 0 THEN Wrap(-v) ELSE v))
      pad    == IF "ZEROPAD" \in flags THEN Zero ELSE Space
  IN  IF "LADJUST" \in flags THEN digits \o Repeated(pad, LeftPadding(digits))
                             ELSE Repeated(pad, width - Len(digits)) \o digits

\* The width is for the part in front of the point.
AddFloat(v) ==
  LET abs      == IF v < 0 THEN -v ELSE v
      whole    == WithSign(v, Digits(abs \div Fraction))
      rest[k \in Nat] == IF k = 0 THEN abs % Fraction ELSE (rest[k - 1] * 10) % Fraction
      decimals == [k \in 1 .. (IF prec < 0 THEN 6 ELSE prec) |-> Zero + (rest[k - 1] * 10) \div Fraction]
  IN  Repeated(Space, width - Len(whole)) \o whole
      \o IF decimals = <<>> THEN <<>> ELSE <<Dot>> \o decimals

NullString == <<40, 110, 117, 108, 108, 41>>

AddString(v) ==
  LET string == IF v = 0 THEN NullString ELSE Strings[v]
      size   == IF prec >= 0 /\ v # 0 THEN Min({prec, Len(string)}) ELSE Len(string)
  IN  SubSeq(string, 1, size) \o Repeated(Space, width - size)

-----------------------------------------------------------------------------
FormatInit ==
  /\ print \in Prints
  /\ stage = "text"
  /\ fmt = 1
  /\ flags = {} /\ width = 0 /\ prec = -1
  /\ arg = 1
  /\ buf = <<>>
  /\ buffer = 1
  /\ scanned = <<>>

\* A format with the zero at its end.
At(f, i) == IF i <= Len(f) THEN f[i] ELSE 0
Ch == At(print.fmt, fmt)

PlainChar ==
  /\ stage = "text" /\ Ch \notin {0, Percent}
  /\ buf' = Append(buf, Ch)
  /\ fmt' = fmt + 1
  /\ UNCHANGED <<print, stage, flags, width, prec, arg, buffer, scanned>>

BeginDirective ==
  /\ stage = "text" /\ Ch = Percent
  /\ stage' = "directive"
  /\ fmt' = fmt + 1
  /\ flags' = {} /\ width' = 0 /\ prec' = -1
  /\ UNCHANGED <<print, arg, buf, buffer, scanned>>

EndFormat ==
  /\ stage = "text" /\ Ch = 0
  /\ stage' = "done"
  /\ UNCHANGED <<print, fmt, flags, width, prec, arg, buf, buffer, scanned>>

BugFlag ==
  /\ stage = "directive" /\ Ch \in {Minus, Zero}
  /\ flags' = flags \cup {IF Ch = Minus THEN "LADJUST" ELSE "ZEROPAD"}
  /\ UNCHANGED <<print, stage, fmt, width, prec, arg, buf, buffer, scanned>>
Flag ==
  /\ stage = "directive" /\ Ch \in {Minus, Zero}
  /\ flags' = flags \cup {IF Ch = Minus THEN "LADJUST" ELSE "ZEROPAD"}
  /\ fmt' = fmt + 1
  /\ UNCHANGED <<print, stage, width, prec, arg, buf, buffer, scanned>>

\* A run of digits from i on: its value, and what is behind it.
DigitsEnd(f, i) == Min({j \in i .. Len(f) + 1 : ~ IsDigit(At(f, j))})
NumberAt(f, i) ==
  LET sum[j \in i - 1 .. Len(f)] == IF j < i THEN 0 ELSE Wrap(10 * sum[j - 1] + f[j] - Zero)
  IN  sum[DigitsEnd(f, i) - 1]

Width ==
  /\ stage = "directive" /\ IsDigit(Ch) /\ Ch # Zero
  /\ width' = NumberAt(print.fmt, fmt)
  /\ fmt' = DigitsEnd(print.fmt, fmt)
  /\ UNCHANGED <<print, stage, flags, prec, arg, buf, buffer, scanned>>

Precision ==
  /\ stage = "directive" /\ Ch = Dot
  /\ prec' = Max({-1, NumberAt(print.fmt, fmt + 1)})
  /\ fmt' = DigitsEnd(print.fmt, fmt + 1)
  /\ UNCHANGED <<print, stage, flags, width, arg, buf, buffer, scanned>>

\* What the letter at the end of a directive writes, and the arguments it takes.
Converted(v) ==
  CASE Ch \in {100, 105} -> AddInt(v)     \* d, i
    [] Ch = 102          -> AddFloat(v)   \* f
    [] Ch = 115          -> AddString(v)  \* s
    [] OTHER             -> <<ToChar(v)>> \* c, and all that is not supported

Conversion ==
  /\ stage = "directive" /\ ~ IsDigit(Ch) /\ Ch \notin {Minus, Dot, Percent, 0}
  /\ buf' = buf \o Converted(print.args[arg])
  /\ arg' = arg + 1
  /\ fmt' = fmt + 1
  /\ stage' = "text"
  /\ UNCHANGED <<print, flags, width, prec, buffer, scanned>>

PercentSign ==
  /\ stage = "directive" /\ Ch = Percent
  /\ buf' = Append(buf, Percent)
  /\ fmt' = fmt + 1
  /\ stage' = "text"
  /\ UNCHANGED <<print, flags, width, prec, arg, buffer, scanned>>

\* The zero at the end is taken for a letter, and the loop goes on behind it.
TornDirective ==
  /\ stage = "directive" /\ Ch = 0
  /\ stage' = "overrun"
  /\ UNCHANGED <<print, fmt, flags, width, prec, arg, buf, buffer, scanned>>

-----------------------------------------------------------------------------
(* sscanf.                                                                 *)

ScanCh == At(print.scan, fmt)

BeginScan ==
  /\ stage = "done"
  /\ stage' = "scan"
  /\ fmt' = 1
  /\ UNCHANGED <<print, flags, width, prec, arg, buf, buffer, scanned>>

SkipFormat ==
  /\ stage = "scan" /\ ScanCh \notin {0, Percent}
  /\ fmt' = fmt + 1
  /\ UNCHANGED <<print, stage, flags, width, prec, arg, buf, buffer, scanned>>

\* What a number begins with: the first character that is no white space, and
\* the first behind the sign.
NumberStart(i) == Min({j \in i .. Len(buf) + 1 : At(buf, j) = 0 \/ At(buf, j) > Space})
BehindSign(j)  == IF At(buf, j) \in {Plus, Minus} THEN j + 1 ELSE j
SignAt(j)      == IF At(buf, j) = Minus THEN -1 ELSE 1

\* _atoi: the number, and the place behind the character that ended it.
Atoi(i) ==
  LET from  == NumberStart(i)
      first == BehindSign(from)
  IN  IF At(buf, from) = 0 THEN [value |-> 0, next |-> i]
      ELSE [value |-> Wrap(SignAt(from) * NumberAt(buf, first)), next |-> DigitsEnd(buf, first) + 1]

\* The digits from i on, the first of which has the given weight.
Weighed(i, weight) ==
  MapThenSumSet(LAMBDA j : (buf[j] - Zero) * (weight \div 10^(j - i)), i .. DigitsEnd(buf, i) - 1)

\* _atof, in millionths.  It does not read a number that begins with its point.
Atof(i) ==
  LET from  == NumberStart(i)
      first == BehindSign(from)
      ends  == DigitsEnd(buf, first)
      point == At(buf, ends) = Dot
      whole == Weighed(first, Million * 10^(ends - first - 1))
  IN  IF At(buf, from) = 0 THEN [value |-> 0, next |-> from]
      ELSE IF At(buf, first) = Dot THEN [value |-> 0, next |-> first]
      ELSE [value |-> SignAt(from) * (whole + (IF point THEN Weighed(ends + 1, Million \div 10) ELSE 0)),
            next  |-> (IF point THEN DigitsEnd(buf, ends + 1) ELSE ends) + 1]

\* The letter behind the percent sign, the number it reads, or none.
Letter == At(print.scan, fmt + 1)
Scans  == Letter \in {100, 102, 105, 117}   \* d, f, i, u
Read   == IF Letter = 102 THEN Atof(buffer) ELSE Atoi(buffer)

ScanNumber ==
  /\ stage = "scan" /\ ScanCh = Percent /\ Scans
  /\ buffer <= Len(buf) + 1
  /\ scanned' = Append(scanned, Read.value)
  /\ buffer' = Read.next
  /\ fmt' = fmt + 2
  /\ UNCHANGED <<print, stage, flags, width, prec, arg, buf>>

\* What is not supported takes its pointer and stores nothing.
ScanNothing ==
  /\ stage = "scan" /\ ScanCh = Percent /\ ~ Scans
  /\ fmt' = fmt + 2
  /\ UNCHANGED <<print, stage, flags, width, prec, arg, buf, buffer, scanned>>

\* The number before was the last of the buffer, and its reader has gone behind
\* the zero at its end.
ScanBehind ==
  /\ stage = "scan" /\ ScanCh = Percent /\ Scans
  /\ buffer > Len(buf) + 1
  /\ stage' = "overrun"
  /\ UNCHANGED <<print, fmt, flags, width, prec, arg, buf, buffer, scanned>>

EndScan ==
  /\ stage = "scan" /\ ScanCh = 0
  /\ stage' = "scanned"
  /\ UNCHANGED <<print, fmt, flags, width, prec, arg, buf, buffer, scanned>>

FormatNext ==
  \/ PlainChar \/ BeginDirective \/ EndFormat \/ Flag \/ Width \/ Precision
  \/ Conversion \/ PercentSign \/ TornDirective
  \/ BeginScan \/ SkipFormat \/ ScanNumber \/ ScanNothing \/ ScanBehind \/ EndScan

-----------------------------------------------------------------------------
(* What C says of the pieces of a format.                                  *)

Decimal(m) ==
  LET length == Min({k \in 1 .. 1 + IntBits \div 3 : 10^k > m})
  IN  [k \in 1 .. length |-> Zero + ((m \div 10^(length - k)) % 10)]

Magnitude(v) == IF v < 0 THEN -v ELSE v

IntDigits(piece) == WithSign(piece.arg, Decimal(Magnitude(piece.arg)))

Meaning(piece) ==
  CASE piece.conv = 0 -> <<piece.arg>>
    [] piece.conv = 100 ->
         LET digits == IntDigits(piece)
             pad    == piece.width - Len(digits)
         IN  CASE piece.flag = Minus -> digits \o Repeated(Space, pad)
               [] piece.flag = Zero  -> Repeated(Zero, pad) \o digits
               [] OTHER              -> Repeated(Space, pad) \o digits
    [] piece.conv = 102 ->
         WithSign(piece.arg, Decimal(Magnitude(piece.arg) \div Fraction))
         \o <<Dot>> \o [k \in 1 .. piece.prec |-> Zero + (((Magnitude(piece.arg) * 10^k) \div Fraction) % 10)]
    [] piece.conv = 115 ->
         LET string == Strings[piece.arg]
             cut    == SubSeq(string, 1, IF piece.prec < 0 THEN Len(string) ELSE Min({piece.prec, Len(string)}))
         IN  cut \o Repeated(Space, piece.width - Len(cut))
    [] OTHER -> <<piece.arg>>

(***************************************************************************)
(* Where the library does what C says.  It does not for the smallest int,  *)
(* for zeros in front of a minus sign, for a number left-adjusted in a     *)
(* width too small for it (its loop counts down past zero), and for        *)
(* strings adjusted to the right; widths of floats it takes otherwise, it  *)
(* cuts floats off where C rounds them, and what it does not support it    *)
(* prints as a character.                                                  *)
(***************************************************************************)
Covered(piece) ==
  CASE piece.conv = 100 -> /\ piece.arg # IntMin
                           /\ piece.flag = Minus => piece.width >= Len(IntDigits(piece))
                           /\ piece.flag = Zero => piece.arg >= 0
    [] piece.conv = 102 -> piece.width = 0 /\ piece.prec > 0
    [] piece.conv = 115 -> piece.arg # 0 /\ (piece.flag = Minus \/ piece.width = 0)
    [] OTHER -> piece.conv \in {0, 99} /\ piece.width = 0 /\ piece.arg \in -128 .. 127

\* Numbers with one blank between them, read by a directive of its kind for
\* each; a float is read as it was printed, cut off.
Readable ==
  /\ \A k \in DOMAIN print.pieces :
       LET piece == print.pieces[k]
       IN  IF k % 2 = 1 THEN piece.conv \in {100, 102} ELSE piece.conv = 0 /\ piece.arg = Space
  /\ SelectSeq(print.scan, LAMBDA c : c \in {99, 100, 102})
       = SelectSeq([k \in DOMAIN print.pieces |-> print.pieces[k].conv], LAMBDA c : c # 0)

Meant(piece) ==
  IF piece.conv = 100 THEN piece.arg
  ELSE (IF piece.arg < 0 THEN -1 ELSE 1)
       * ((Magnitude(piece.arg) * 10^piece.prec) \div Fraction) * (Million \div 10^piece.prec)

(***************************************************************************)
(* What vsprintf writes for a format is what the pieces of the format      *)
(* mean, one argument for each, whatever was in front of them; and sscanf  *)
(* reads the numbers back, whatever blanks they were padded with.          *)
(***************************************************************************)
FormatsRight ==
  stage \in {"done", "scan", "scanned"} /\ (\A k \in DOMAIN print.pieces : Covered(print.pieces[k])) =>
    /\ buf = FlattenSeq([k \in DOMAIN print.pieces |-> Meaning(print.pieces[k])])
    /\ stage = "scanned" /\ Readable =>
         scanned = [k \in 1 .. Len(print.args) |-> Meant(print.pieces[2 * k - 1])]
=============================================================================
