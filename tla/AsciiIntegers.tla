---------------------------- MODULE AsciiIntegers ---------------------------
(***************************************************************************)
(* mina's integers as text.  Reading (from_ascii_numeric_u, _s) takes a    *)
(* decimal, octal (0), hexadecimal (0x) number from the front of a text    *)
(* and saturates at the limits of the type; writing (to_ascii_decimal)     *)
(* divides by 100 or 10^8 at a time through packed decimal digits.  A text *)
(* is a sequence of characters, lower case.  The division of a 32 bit or   *)
(* wider number by 100 and by 10^8, done by the code with a reciprocal, is *)
(* the division here; the numbers wider than a machine word are scaled:    *)
(* words of WordBits bits (32) and chunks of ChunkDigits digits (8).       *)
(***************************************************************************)
EXTENDS Integers, Sequences, SequencesExt, FiniteSets

CONSTANTS Chars,         \* the characters that are typed
          MaxText,       \* bound: characters of a text
          Bits,          \* the width of the type that is read
          WordBits,      \* bits of a word of a wide number
          ChunkDigits,   \* digits of a chunk of a wide number
          WriteValues    \* the numbers that are written

VARIABLES mode, text, val

vars == <<mode, text, val>>

v_max  == 2^Bits - 1             \* numeric_limits<unsigned>::max
sv_max == 2^(Bits - 1) - 1       \* numeric_limits<signed>::max
sv_min == -(2^(Bits - 1))        \* numeric_limits<signed>::min

DigitChars == <<"0", "1", "2", "3", "4", "5", "6", "7", "8", "9",
                "a", "b", "c", "d", "e", "f">>

\* c is a digit of the given base; its value.
IsDigit(c, base) == \E i \in 1..base : DigitChars[i] = c
Digit(c) == CHOOSE d \in 0..15 : DigitChars[d + 1] = c

No == [ok |-> FALSE, v |-> 0, rest |-> <<>>]

\* How many digits of the base s starts with.
DigitCount(s, base) ==
  CHOOSE n \in 0..Len(s) :
    /\ \A i \in 1..n : IsDigit(s[i], base)
    /\ n < Len(s) => ~IsDigit(s[n + 1], base)

-----------------------------------------------------------------------------
(* Reading.                                                                *)
-----------------------------------------------------------------------------

\* One more digit, saturating at max; the test precedes the multiplication.
Push(max, base, v, d) ==
  IF max \div base < v \/ max - d < v * base THEN max ELSE v * base + d

\* The same downwards; C++ division rounds towards zero.
PushNeg(min, base, v, d) ==
  IF -((-min) \div base) > v \/ min + d > v * base THEN min ELSE v * base - d

\* The leading digits of s, all of them consumed even when v is saturated.
ReadDigits(max, base, s) ==
  LET n == DigitCount(s, base)
  IN  [ok |-> TRUE, rest |-> SubSeq(s, n + 1, Len(s)),
       v |-> FoldLeft(LAMBDA v, c : Push(max, base, v, Digit(c)), 0, SubSeq(s, 1, n))]

ReadDigitsNeg(min, base, s) ==
  LET n == DigitCount(s, base)
  IN  [ok |-> TRUE, rest |-> SubSeq(s, n + 1, Len(s)),
       v |-> FoldLeft(LAMBDA v, c : PushNeg(min, base, v, Digit(c)), 0, SubSeq(s, 1, n))]

from_ascii_decimal_u(max, s) ==
  IF s = <<>> \/ ~IsDigit(Head(s), 10) THEN No ELSE ReadDigits(max, 10, s)

\* A binary number is refused: its digit test (not 0 or not 1) always holds.
from_ascii_numeric_u(max, s) ==
  IF s = <<>> THEN No
  ELSE IF s[1] # "0" THEN from_ascii_decimal_u(max, s)
  ELSE IF Len(s) = 1 THEN [ok |-> TRUE, v |-> 0, rest |-> <<>>]
  ELSE IF s[2] = "x" /\ Len(s) > 2 /\ IsDigit(s[3], 16)
  THEN ReadDigits(max, 16, SubSeq(s, 3, Len(s)))
  ELSE IF IsDigit(s[2], 8) THEN ReadDigits(max, 8, Tail(s))
  ELSE No

from_ascii_decimal_neg(min, s) ==
  IF s = <<>> \/ ~IsDigit(Head(s), 10) THEN No ELSE ReadDigitsNeg(min, 10, s)

from_ascii_numeric_neg(min, s) ==
  IF s = <<>> THEN No
  ELSE IF s[1] # "0" THEN from_ascii_decimal_neg(min, s)
  ELSE IF Len(s) = 1 THEN [ok |-> TRUE, v |-> 0, rest |-> <<>>]
  ELSE IF s[2] = "x" /\ Len(s) > 2 /\ IsDigit(s[3], 16)
  THEN ReadDigitsNeg(min, 16, SubSeq(s, 3, Len(s)))
  ELSE IF IsDigit(s[2], 8) THEN ReadDigitsNeg(min, 8, Tail(s))
  ELSE No

from_ascii_numeric_s(min, max, s) ==
  IF s = <<>> THEN No
  ELSE IF s[1] = "-" THEN from_ascii_numeric_neg(min, Tail(s))
  ELSE from_ascii_numeric_u(max, IF s[1] = "+" THEN Tail(s) ELSE s)

-----------------------------------------------------------------------------
(* Writing.                                                                *)
-----------------------------------------------------------------------------

ascii_decimal_digits(n) == <<n \div 10, n % 10>>

\* Words of packed digits, the most significant first, without leading zeros.
bcd_to_ascii_u(words) ==
  LET digits == FlattenSeq(words)
      first == {i \in DOMAIN digits : digits[i] # 0}
      from == CHOOSE i \in first : \A j \in first : i <= j
  IN  IF first = {} THEN <<"0">>
      ELSE [i \in 1..(Len(digits) - from + 1) |-> DigitChars[digits[from + i - 1] + 1]]

to_bcd_8(v) ==
  LET q == (41 * v) \div 2^12
  IN  <<q>> \o ascii_decimal_digits(v - q * 100)

Div100_16(v) ==
  LET acc == (((18351 * v) \div 2^16) % 2^16) + v
  IN  (acc \div 2^7) % 2^16

to_bcd_16(v) ==
  LET q == Div100_16(v)
      r == Div100_16(q)
  IN  <<r>> \o ascii_decimal_digits(q - r * 100) \o ascii_decimal_digits(v - q * 100)

\* Four rounds of two digits and what is left: <<rv[0], rv[1]>>.
to_bcd_32(v) ==
  LET Pair(k) == ascii_decimal_digits((v \div 100^k) % 100)
  IN  <<ascii_decimal_digits(v \div 100^4), Pair(3) \o Pair(2) \o Pair(1) \o Pair(0)>>

Chunk == 10^ChunkDigits

\* The digits of a chunk (the low word of to_bcd).
ChunkDigitsOf(n) == [i \in 1..ChunkDigits |-> (n \div 10^(ChunkDigits - i)) % 10]

\* A wide number of the given number of words, radix 2^WordBits to radix
\* Chunk: word i contributes the digits of its weight to every chunk j, then
\* the carry c runs through the chunks.
Weight(i, j) == ((2^(WordBits * i)) \div Chunk^j) % Chunk

to_wide(v, words) ==
  LET xx(i) == (v \div 2^(WordBits * i)) % 2^WordBits
      xy(j) == FoldLeft(LAMBDA sum, i : sum + xx(i) * Weight(i, j), 0,
                        [i \in 1..words |-> i - 1])
      Step(s, j) == [c |-> (xy(j) + s.c) \div Chunk,
                     bv |-> <<ChunkDigitsOf((xy(j) + s.c) % Chunk)>> \o s.bv]
      s == FoldLeft(Step, [c |-> 0, bv |-> <<>>], [j \in 1..words |-> j - 1])
  IN  bcd_to_ascii_u(<<ChunkDigitsOf(s.c)>> \o s.bv)

to_ascii_decimal_u8(v)   == bcd_to_ascii_u(<<to_bcd_8(v)>>)
to_ascii_decimal_u16(v)  == bcd_to_ascii_u(<<to_bcd_16(v)>>)
to_ascii_decimal_u32(v)  == bcd_to_ascii_u(to_bcd_32(v))
to_ascii_decimal_u64(v)  == to_wide(v, 2)
to_ascii_decimal_u128(v) == to_wide(v, 4)

\* A signed type is written with its sign, zero with a plus.
to_ascii_decimal(v) ==
  IF v < 0 THEN <<"-">> \o to_ascii_decimal_u32(-v) ELSE <<"+">> \o to_ascii_decimal_u32(v)

-----------------------------------------------------------------------------

Init ==
  \/ mode = "read" /\ text = <<>> /\ val = 0
  \/ mode = "write" /\ text = <<>> /\ val \in WriteValues

Type ==
  /\ mode = "read"
  /\ Len(text) < MaxText
  /\ \E c \in Chars : text' = Append(text, c)
  /\ UNCHANGED <<mode, val>>

Write ==
  /\ mode = "write"
  /\ text' = to_ascii_decimal_u128(val)
  /\ mode' = "written"
  /\ UNCHANGED val

Next == Type \/ Write

Spec == Init /\ [][Next]_vars

-----------------------------------------------------------------------------

\* The exact value of the digits of s in a base.
Exact(s, base) == FoldLeft(LAMBDA v, c : v * base + Digit(c), 0, s)

Clamp(x, min, max) == IF x < min THEN min ELSE IF x > max THEN max ELSE x

\* What a text should be read as, from the base it announces.
Expected(s) ==
  LET sign == IF s # <<>> /\ s[1] \in {"-", "+"} THEN 1 ELSE 0
      t == SubSeq(s, sign + 1, Len(s))
      hex == Len(t) > 2 /\ t[1] = "0" /\ t[2] = "x" /\ IsDigit(t[3], 16)
      base == IF hex THEN 16 ELSE IF Len(t) > 1 /\ t[1] = "0" THEN 8 ELSE 10
      skip == IF hex THEN 2 ELSE IF base = 8 THEN 1 ELSE 0
      u == SubSeq(t, skip + 1, Len(t))
      n == DigitCount(u, base)
      x == Exact(SubSeq(u, 1, n), base)
  IN  [ok |-> n > 0, rest |-> SubSeq(u, n + 1, Len(u)),
       v |-> IF sign = 1 /\ s[1] = "-" THEN -x ELSE x]

(***************************************************************************)
(* A number is read exactly, or saturated at the limit of its type, with   *)
(* all its digits consumed and nothing else (from_ascii_numeric_s, _u); a  *)
(* number is written with the same digits whichever width it is converted  *)
(* through, and reads back as itself (to_ascii_decimal).                   *)
(***************************************************************************)
IntegersAgree ==
  LET e == Expected(text)
      r == from_ascii_numeric_s(sv_min, sv_max, text)
      u == from_ascii_numeric_u(v_max, text)
  IN  /\ mode = "read" =>
           /\ r.ok <=> e.ok
           /\ r.ok => r.v = Clamp(e.v, sv_min, sv_max) /\ r.rest = e.rest
           /\ u.ok => u.v = Clamp(e.v, 0, v_max) /\ u.rest = e.rest
      /\ mode = "written" =>
           /\ Exact(text, 10) = val
           /\ text[1] # "0" \/ val = 0
           /\ val < 2^(2 * WordBits) => to_ascii_decimal_u64(val) = text
           /\ to_ascii_decimal_u32(val) = text
           /\ val < 2^16 => to_ascii_decimal_u16(val) = text
           /\ val < 2^8  => to_ascii_decimal_u8(val) = text
           /\ LET x == Clamp(val, 0, sv_max)
              IN  /\ from_ascii_numeric_s(sv_min, sv_max, to_ascii_decimal(x)).v = x
                  /\ from_ascii_numeric_s(sv_min, sv_max, to_ascii_decimal(-x)).v = -x
=============================================================================
