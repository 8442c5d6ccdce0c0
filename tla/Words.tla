------------------------------- MODULE Words --------------------------------
(***************************************************************************)
(* Two's-complement words of four bytes and little-endian memory, for any  *)
(* byte width: ByteBits is 8 in the code and smaller in a model, which     *)
(* scales every word with it.  A word is kept as its signed value, as the  *)
(* C code keeps it in an int; a memory is a function from addresses to     *)
(* bytes.                                                                  *)
(***************************************************************************)
EXTENDS Integers, FiniteSetsExt

CONSTANT ByteBits

ASSUME ByteBitsAssumption == ByteBits \in Nat \ {0}

ByteMod  == 2^ByteBits
WordBits == 4 * ByteBits
WordMod  == 2^WordBits
HalfMod  == 2^(WordBits - 1)

Byte == 0 .. ByteMod - 1
Word == -HalfMod .. HalfMod - 1

\* (int)x and (unsigned)x
Signed(x)   == ((x + HalfMod) % WordMod) - HalfMod
Unsigned(x) == x % WordMod

-----------------------------------------------------------------------------
(* Memory.                                                                 *)

\* A byte store that does not truncate.  (Bug... definitions are slips for
\* mutation runs; nothing else uses them.)
BugByteOf(x, k) == Unsigned(x) \div 2^(ByteBits * k)

\* Byte k, counted from the least significant, of a word.
ByteOf(x, k) == (Unsigned(x) \div 2^(ByteBits * k)) % ByteMod

\* One, two and four bytes from address a on; the first two are unsigned.
Fetch1(m, a)    == m[a]
Fetch2(m, a)    == m[a] + ByteMod * m[a + 1]
FetchWord(m, a) == Signed(Fetch2(m, a) + ByteMod * ByteMod * Fetch2(m, a + 2))

\* The low n bytes of x stored at address a.
Put(m, a, n, x) ==
  [b \in DOMAIN m |-> IF b \in a .. a + n - 1 THEN ByteOf(x, b - a) ELSE m[b]]

\* The words ws[1], ws[2], ... stored from address a on.
PutWords(m, a, n, ws) ==
  [b \in DOMAIN m |-> IF b \in a .. a + 4 * n - 1
                      THEN ByteOf(ws[(b - a) \div 4 + 1], (b - a) % 4)
                      ELSE m[b]]

\* memcpy of n bytes that do not overlap.
Copied(m, dest, src, n) ==
  [b \in DOMAIN m |-> IF b \in dest .. dest + n - 1 THEN m[src + b - dest] ELSE m[b]]

\* w gives new values to some of the addresses.
Overwritten(m, w) == [b \in DOMAIN m |-> IF b \in DOMAIN w THEN w[b] ELSE m[b]]

\* n bytes from address a lie in the allocation.
Within(m, a, n) == a .. a + n - 1 \subseteq DOMAIN m

-----------------------------------------------------------------------------
(* Integer arithmetic.                                                     *)

BugSignExtend(x, bits) == x % 2^bits

SignExtend(x, bits) == ((x + 2^(bits - 1)) % 2^bits) - 2^(bits - 1)

\* C division truncates towards zero.
Magnitude(x)   == IF x < 0 THEN -x ELSE x
Quotient(a, b) ==
  LET q == Magnitude(a) \div Magnitude(b) IN IF (a < 0) <=> (b < 0) THEN q ELSE -q

Bit(x, k) == (Unsigned(x) \div 2^k) % 2
\* The pairs of bits in ones give a bit 1.
Bitwise2(a, b, ones) ==
  Signed(MapThenSumSet(LAMBDA k : IF <<Bit(a, k), Bit(b, k)>> \in ones THEN 2^k ELSE 0,
                       0 .. WordBits - 1))

\* The shift count is taken modulo the word length, as the shift
\* instructions of the processors the interpreter is built for do.
ShiftCount(x) == x % WordBits
=============================================================================
