----------------------------- MODULE SymbolFile -----------------------------
(***************************************************************************)
(* VM_LoadSymbols of vm.c: the .map file beside a program, read by         *)
(* COM_Parse and ParseHex into the list of symbols of the virtual machine. *)
(*                                                                         *)
(* A text is a sequence of characters, each a signed char.  loadImage puts *)
(* no zero behind what it read, so the parser reads on into whatever lies  *)
(* behind the buffer: the initial state chooses it.  text_p counts from 1, *)
(* and 0 is the null pointer.  One call of COM_Parse is one step.          *)
(***************************************************************************)
EXTENDS Integers, Sequences, FiniteSetsExt, SequencesExt

CONSTANTS
  Files,     \* records [text, symbols, pointers, ...]: a file, the symbols it
             \* names, and vm->instructionPointers of the program it lies beside
  Behind,    \* what may lie behind the buffer, up to a zero
  MaxToken   \* MAX_TOKEN_CHARS

ASSUME FilesAssumption ==
  /\ \A f \in Files : f.text \in Seq(-128 .. 127) /\ f.text # <<>>
  /\ \A b \in Behind : b \in Seq(-128 .. 127) /\ b # <<>> /\ b[Len(b)] = 0
  /\ MaxToken \in Nat \ {0, 1}

VARIABLES
  file,        \* the file
  data,        \* the buffer and what lies behind it
  text_p,      \* where the parser is
  stage,       \* which token of a line comes next
  value,       \* the second token of the line
  symbols,     \* vm->symbols, in the order of the list
  numSymbols,  \* vm->numSymbols
  reading       \* "loading", "done", "missing", "error" for Com_Error, "undefined"

fileVars == <<file, data, text_p, stage, value, symbols, numSymbols, reading>>

-----------------------------------------------------------------------------
(* COM_Parse.                                                              *)

Nul     == 0
Newline == 10
Blank   == 32
Quote   == 34
Star    == 42
Slash   == 47

\* A char is signed: all that is not ASCII is white, too.
Solid == 33 .. 127

\* The first character of a kind from i on; the text ends with a zero.
NextOf(i, kind) == Min({j \in i .. Len(data) : data[j] \in kind})

SkipWhitespace(i) ==
  LET j == NextOf(i, Solid \cup {Nul}) IN IF data[j] = Nul THEN 0 ELSE j

LineComment(i)  == data[i] = Slash /\ data[i + 1] = Slash
BlockComment(i) == data[i] = Slash /\ data[i + 1] = Star

BehindComment(i) ==
  IF LineComment(i) THEN NextOf(i + 2, {Nul, Newline})
  ELSE Min({j \in i + 2 .. Len(data) : data[j] = Nul}
           \cup {j + 2 : j \in {k \in i + 2 .. Len(data) - 1 : data[k] = Star /\ data[k + 1] = Slash}})

\* The place of the next token, behind white space and comments.
TokenStart(i) ==
  LET start[j \in 1 .. Len(data)] ==
        LET k == SkipWhitespace(j)
        IN  IF k = 0 THEN 0
            ELSE IF LineComment(k) \/ BlockComment(k) THEN start[BehindComment(k)] ELSE k
  IN  start[i]

\* com_token from the characters first .. end - 1.
Token(first, end) ==
  [k \in 1 .. Min({end - first, MaxToken - 1}) |-> data[first + k - 1]]

\* A closing quote or a zero ends a quoted token and is left behind.
Quoted(i) ==
  LET end == NextOf(i, {Quote, Nul})
  IN  [token |-> Token(i, end), next |-> end + 1]

BugPlain(i) ==
  LET end == NextOf(i + 1, (-128 .. 127) \ Solid)
  IN  [token |-> Token(i, end), next |-> end + 1]
Plain(i) ==
  LET end == NextOf(i + 1, (-128 .. 127) \ Solid)
  IN  [token |-> Token(i, end), next |-> end]

\* The token and the new *data_p.
COM_Parse(i) ==
  LET start == IF i = 0 THEN 0 ELSE TokenStart(i)
  IN  IF start = 0 THEN [token |-> <<>>, next |-> 0]
      ELSE IF data[start] = Quote THEN Quoted(start + 1) ELSE Plain(start)

-----------------------------------------------------------------------------
\* Digits of either case; everything else is passed over.
HexDigit(c) ==
  CASE c \in 48 .. 57  -> {c - 48}
    [] c \in 97 .. 102 -> {c - 87}
    [] c \in 65 .. 70  -> {c - 55}
    [] OTHER           -> {}

ParseHex(token) ==
  LET sum[k \in 0 .. Len(token)] ==
        IF k = 0 THEN 0
        ELSE LET v == sum[k - 1]
             IN  IF HexDigit(token[k]) = {} THEN v
                 ELSE v * 16 + CHOOSE d \in HexDigit(token[k]) : TRUE
  IN  sum[Len(token)]

\* An instruction number becomes the place of the instruction.
SymValue(v) == IF v \in DOMAIN file.pointers THEN file.pointers[v] ELSE v

-----------------------------------------------------------------------------
FileInit ==
  /\ file \in Files
  /\ \E b \in Behind : data = file.text \o b
  /\ text_p = 1
  /\ stage = "segment" /\ value = 0
  /\ symbols = <<>>
  /\ numSymbols = 0
  /\ reading = "loading"

\* A quoted token without an end leads behind the zero.
InText == text_p <= Len(data)

Parsed == COM_Parse(text_p)

\* "Couldn't load symbol file"
NoFile ==
  /\ reading = "loading" /\ text_p = 1
  /\ reading' = "missing"
  /\ UNCHANGED <<file, data, text_p, stage, value, symbols, numSymbols>>

\* The call of COM_Parse at one of the stages gives a token, or none.
Reads(stages)   == reading = "loading" /\ InText /\ stage \in stages /\ Parsed.token # <<>>
AtEnd(stages)   == reading = "loading" /\ InText /\ stage \in stages /\ Parsed.token = <<>>

\* Only the code segment is loaded.
ReadSegment ==
  /\ Reads({"segment"})
  /\ text_p' = Parsed.next
  /\ stage' = IF ParseHex(Parsed.token) = 0 THEN "value" ELSE "skip"
  /\ UNCHANGED <<file, data, value, symbols, numSymbols, reading>>

BugAfterSkip == [skip |-> "skip2", skip2 |-> "skip"]
AfterSkip    == [skip |-> "skip2", skip2 |-> "segment"]

\* The two other tokens of a line, if they are there.
SkipToken ==
  /\ reading = "loading" /\ InText /\ stage \in {"skip", "skip2"}
  /\ text_p' = Parsed.next
  /\ stage' = AfterSkip[stage]
  /\ UNCHANGED <<file, data, value, symbols, numSymbols, reading>>

ReadValue ==
  /\ Reads({"value"})
  /\ text_p' = Parsed.next
  /\ value' = ParseHex(Parsed.token)
  /\ stage' = "name"
  /\ UNCHANGED <<file, data, symbols, numSymbols, reading>>

NewSymbol ==
  /\ Reads({"name"})
  /\ symbols' = Append(symbols, [value |-> SymValue(value), name |-> Parsed.token])
  /\ text_p' = Parsed.next
  /\ stage' = "segment"
  /\ UNCHANGED <<file, data, value, numSymbols, reading>>

\* Com_malloc fails: Com_Error ends the process.
NoMemory ==
  /\ Reads({"name"})
  /\ reading' = "error"
  /\ UNCHANGED <<file, data, text_p, stage, value, symbols, numSymbols>>

\* The end, or "WARNING: incomplete line at end of file".
EndOfText ==
  /\ AtEnd({"segment", "value", "name"})
  /\ text_p' = Parsed.next
  /\ reading' = "done"
  /\ numSymbols' = Len(symbols)
  /\ UNCHANGED <<file, data, stage, value, symbols>>

Overrun ==
  /\ reading = "loading" /\ ~ InText
  /\ reading' = "undefined"
  /\ UNCHANGED <<file, data, text_p, stage, value, symbols, numSymbols>>

FileNext ==
  NoFile \/ ReadSegment \/ SkipToken \/ ReadValue \/ NewSymbol \/ NoMemory \/ EndOfText \/ Overrun

-----------------------------------------------------------------------------
Left == SubSeq(data, Len(file.text) + 1, Len(data))

(***************************************************************************)
(* The parser reads behind the first zero only if a quoted token has no    *)
(* end: comments and incomplete lines stop there.                          *)
(***************************************************************************)
StaysInText ==
  (\A k \in DOMAIN data : data[k] # Quote) => InText /\ reading # "undefined"

=============================================================================
