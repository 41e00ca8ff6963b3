----------------------------- MODULE AsciiFloats ----------------------------
(***************************************************************************)
(* mina's floating point numbers as text.  Reading guesses the number from *)
(* the first digits and a table of powers of ten, keeping an upper bound   *)
(* of the error in eighths of a unit, and settles the undecided cases with *)
(* exact arithmetic; hexadecimal text is read bit by bit.  Writing finds   *)
(* the shortest digits inside the interval that reads back as the number,  *)
(* with integers of the width of the storage, and falls back to exact      *)
(* arithmetic when it cannot tell.  The format is a parameter, so that all *)
(* its numbers can be tried: a finite number is held as the multiple units *)
(* of the least denormal number.                                           *)
(***************************************************************************)
EXTENDS Integers, Sequences, SequencesExt

CONSTANTS significand_size,   \* bits of the storage type
          mantissa_bits,      \* bits of the mantissa, the hidden one included
          exponent_bits,      \* significand_size - mantissa_bits
          exponent_bias,      \* the exponent field runs to 2 * exponent_bias + 1
          digits10,           \* decimal digits that fit the storage type
          pow_10_step,        \* distance of the powers in the table (8)
          pow_10_first, pow_10_last,   \* pow_10_range
          minimal_target_exp, \* to_ascii_decimal_f_traits
          limb_bits, limb_digits_10,   \* of the exact arithmetic
          negative_cutoff, positive_cutoff,   \* when an exponent is written
          Chars, Seeds, MaxTyped   \* the texts that are read

VARIABLES mode, text, typed, val

vars == <<mode, text, typed, val>>

Big == INSTANCE BigInt WITH num <- 0, den <- 0, rnum <- 0, rden <- 0, ops <- 0,
                            MaxBits <- 0, MaxOps <- 0

W == significand_size
denormal_exponent == 2 - exponent_bias - mantissa_bits
max_exponent      == 2 + exponent_bias - mantissa_bits
HiddenBit         == 2^(mantissa_bits - 1)

Inf == -1
NaN == -2
sNaN == -3

BitLength(x) == Big!BitLength(x)
Shl(x, n) == (x * 2^n) % 2^W
Ceil(n, d) == -((-n) \div d)

-----------------------------------------------------------------------------
(* float_t: a mantissa of the width of the storage, and an exponent.       *)
-----------------------------------------------------------------------------

\* float_t(value): the mantissa with its hidden bit, unless denormal.
Unpack(units) ==
  LET k == IF units < 2 * HiddenBit THEN 0 ELSE BitLength(units) - mantissa_bits
  IN  [m |-> units \div 2^k, exp |-> denormal_exponent + k]

Times(a, b) ==
  [m |-> (a.m * b.m + 2^(W - 1)) \div 2^W, exp |-> a.exp + b.exp + W]

Minus(a, b) == (a.m - b.m) % 2^W

normalize(x) ==
  LET l == W - BitLength(x.m) IN [m |-> Shl(x.m, l), exp |-> x.exp - l]

\* Half way to the neighbours.  The case of a power of two, whose lower
\* neighbour is nearer, asks for a zero mantissa and never happens.
boundaries(x) ==
  LET high == normalize([m |-> 2 * x.m + 1, exp |-> x.exp - 1])
      low  == [m |-> 2 * x.m - 1, exp |-> x.exp - 1]
  IN  [low |-> [m |-> Shl(low.m, low.exp - high.exp), exp |-> high.exp], high |-> high]

\* The number of an exponent field and a mantissa field.
Fields(field, mantissa) ==
  IF field = 2 * exponent_bias + 1 THEN IF mantissa = 0 THEN Inf ELSE NaN
  ELSE IF field = 0 THEN mantissa
  ELSE (mantissa + HiddenBit) * 2^(field - 1)

\* operator value_type.
ToValue(x) ==
  LET lz == W - BitLength(x.m)
      drop == IF lz < exponent_bits THEN exponent_bits - lz ELSE 0
      m0 == x.m \div 2^drop
      exp0 == x.exp + drop
      lz0 == W - BitLength(m0)
      room == IF exp0 - denormal_exponent < lz0 - exponent_bits - 2
              THEN exp0 - denormal_exponent ELSE lz0 - exponent_bits - 2
      shift == IF room > 0 THEN room ELSE 0
      m1 == m0 * 2^shift
      exp1 == exp0 - shift
      field == IF exp1 = denormal_exponent /\ (m1 \div HiddenBit) % 2 = 0 THEN 0
               ELSE exp1 + exponent_bias + mantissa_bits - 1
  IN  IF exp0 >= max_exponent THEN Inf
      ELSE IF exp0 < denormal_exponent THEN 0
      ELSE Fields(field, m1 % HiddenBit)

-----------------------------------------------------------------------------
(* binary_pow_10: normalized powers of ten.                                *)
-----------------------------------------------------------------------------

\* 10^k as m * 2^pow_2 with m rounded to W bits.
Power(k) ==
  LET n == 5^(IF k < 0 THEN -k ELSE k)
      b == BitLength(n)
      s == W - 1 + b
      m == IF k < 0 THEN (2^s + n \div 2) \div n
           ELSE IF b <= W THEN n * 2^(W - b)
           ELSE (n + 2^(b - W - 1)) \div 2^(b - W)
  IN  [m |-> m, pow_10 |-> k, exp |-> IF k < 0 THEN k - s ELSE k + b - W]

\* The first table entry whose power of two reaches pow_2.
lookup_pow_10(pow_2) ==
  LET k == Ceil((pow_2 + W - 1) * 30103, 100000)
      idx == (k - (pow_10_first + 1)) \div pow_10_step
  IN  Power((idx + 1) * pow_10_step + pow_10_first)

\* The last table entry that is not above 10^pow_10.
lookup_pow_2(pow_10) ==
  Power(((pow_10 - pow_10_first) \div pow_10_step) * pow_10_step + pow_10_first)

lookup_pow_10_rem(pow_10) == Power(pow_10 % pow_10_step)

-----------------------------------------------------------------------------
(* Reading.  A text is a sequence of characters, a position counts from 1. *)
-----------------------------------------------------------------------------

DigitChars == <<"0", "1", "2", "3", "4", "5", "6", "7", "8", "9",
                "a", "b", "c", "d", "e", "f">>

IsDigit(c, base) == \E i \in 1..base : DigitChars[i] = c
Digit(c) == CHOOSE d \in 0..15 : DigitChars[d + 1] = c
At(s, i, c) == i <= Len(s) /\ s[i] = c
DigitAt(s, i) == i <= Len(s) /\ IsDigit(s[i], 10)

\* The position after the decimal digits from i on.
RECURSIVE AfterDigits(_, _)
AfterDigits(s, i) == IF DigitAt(s, i) THEN AfterDigits(s, i + 1) ELSE i

RECURSIVE AfterHexDigits(_, _)
AfterHexDigits(s, i) ==
  IF i <= Len(s) /\ IsDigit(s[i], 16) THEN AfterHexDigits(s, i + 1) ELSE i

Number(s) == FoldLeft(LAMBDA v, c : v * 10 + Digit(c), 0, s)

\* s[i] introduces an exponent: its value and the position after it, which
\* stays at i when no digit follows.
parse_exponent(s, i) ==
  LET sign == IF At(s, i + 1, "-") \/ At(s, i + 1, "+") THEN 1 ELSE 0
      from == i + 1 + sign
      to == AfterDigits(s, from)
      v == Number(SubSeq(s, from, to - 1))
  IN  IF to = from THEN [v |-> 0, next |-> i]
      ELSE [v |-> IF At(s, i + 1, "-") THEN -v ELSE v, next |-> to]

Fail == [ok |-> FALSE, v |-> 0, next |-> 0]

\* 1.#inf, 1.#q(n), 1.#s(n); a signalling number of zero is a quiet one.
parse_special(s, i) ==
  LET to == AfterDigits(s, i + 5)
      n == Number(SubSeq(s, i + 5, to - 1))
  IN  IF ~(At(s, i, "1") /\ At(s, i + 1, ".") /\ At(s, i + 2, "#")) THEN Fail
      ELSE IF At(s, i + 3, "i") /\ At(s, i + 4, "n") /\ At(s, i + 5, "f")
      THEN [ok |-> TRUE, v |-> Inf, next |-> i + 6]
      ELSE IF /\ At(s, i + 3, "s") \/ At(s, i + 3, "q")
              /\ At(s, i + 4, "(")
              /\ to > Len(s) \/ s[to] = ")"
      THEN [ok |-> TRUE, v |-> IF s[i + 3] = "q" \/ n = 0 THEN NaN ELSE sNaN,
            next |-> IF to > Len(s) THEN to ELSE to + 1]
      ELSE Fail

\* The first digit of a hexadecimal mantissa, moved to its top.
align_first(h, d) ==
  [h EXCEPT !.bit_pos = mantissa_bits - BitLength(d),
            !.m = d * 2^(mantissa_bits - BitLength(d))]

\* A further digit: into the mantissa, into the two digits that straddle
\* its end, or into a bit that says there was something.
append_digit(h, d) ==
  IF h.bit_pos >= 4 THEN [h EXCEPT !.bit_pos = @ - 4, !.m = @ + d * 2^(h.bit_pos - 4)]
  ELSE IF h.bit_pos >= 0
  THEN [h EXCEPT !.last_bit_pos = h.bit_pos, !.digit_tail = d * 16, !.bit_pos = @ - 4]
  ELSE IF h.bit_pos > -4 THEN [h EXCEPT !.digit_tail = @ + d, !.bit_pos = @ - 4]
  ELSE IF d # 0 /\ h.digit_tail % 2 = 0 THEN [h EXCEPT !.digit_tail = @ + 1]
  ELSE h

Finish(h) == [h EXCEPT !.state = "FINISHED", !.next = @ + 1]

\* An exponent ends the number; the loop then steps over one more character.
HexExponent(s, h) ==
  LET e == parse_exponent(s, h.next)
  IN  [h EXCEPT !.state = "FINISHED", !.exp_ind = e.v, !.next = e.next + 1]

\* The states of parse_hex before and in the integral part.
HexIntegral(s, h, c) ==
  LET d == Digit(c)
      go == [h EXCEPT !.next = @ + 1]
      first == [align_first(go, d) EXCEPT !.state = "M_INT_CONT",
                                          !.exp_2 = BitLength(d) - 1]
  IN  CASE h.state = "LEAD_ZERO" -> IF c = "0" THEN [go EXCEPT !.state = "LEAD_EX"]
                                    ELSE [h EXCEPT !.state = "FAILED"]
        [] h.state = "LEAD_EX" -> IF c = "x" THEN [go EXCEPT !.state = "M_INT_BEGIN"]
                                  ELSE [h EXCEPT !.state = "FAILED"]
        [] h.state = "M_INT_BEGIN" ->
             IF ~IsDigit(c, 16) THEN [h EXCEPT !.state = "NAN"]
             ELSE IF d = 0 THEN [go EXCEPT !.state = "M_INT_SKIP_ZEROES"] ELSE first
        [] h.state = "M_INT_SKIP_ZEROES" ->
             IF c = "0" THEN go
             ELSE IF IsDigit(c, 16) THEN first
             ELSE IF c = "." THEN [go EXCEPT !.state = "M_FRAC_BEGIN"]
             ELSE IF c = "p" THEN HexExponent(s, h) ELSE Finish(h)
        [] h.state = "M_INT_CONT" ->
             IF IsDigit(c, 16) THEN [append_digit(go, d) EXCEPT !.exp_2 = @ + 4]
             ELSE IF c = "." THEN [go EXCEPT !.state = "M_FRAC_BEGIN"]
             ELSE IF c = "p" THEN HexExponent(s, h) ELSE Finish(h)

\* The states of parse_hex in the fraction.
HexFraction(s, h, c) ==
  LET d == Digit(c)
      go == [h EXCEPT !.next = @ + 1]
      first == [align_first(go, d) EXCEPT !.state = "M_FRAC_CONT",
                                          !.exp_2 = @ + BitLength(d) - 5]
  IN  CASE h.state = "M_FRAC_BEGIN" ->
             IF ~IsDigit(c, 16) THEN Finish(h)
             ELSE IF h.m # 0 THEN [append_digit(go, d) EXCEPT !.state = "M_FRAC_CONT"]
             ELSE IF d = 0 THEN [go EXCEPT !.state = "M_FRAC_SKIP_ZEROES", !.exp_2 = @ - 4]
             ELSE first
        [] h.state = "M_FRAC_SKIP_ZEROES" ->
             IF c = "0" THEN [go EXCEPT !.exp_2 = @ - 4]
             ELSE IF IsDigit(c, 16) THEN first
             ELSE IF c = "p" THEN HexExponent(s, h) ELSE Finish(h)
        [] h.state = "M_FRAC_CONT" ->
             IF IsDigit(c, 16) THEN append_digit(go, d)
             ELSE IF c = "p" THEN HexExponent(s, h) ELSE Finish(h)

RECURSIVE HexLoop(_, _)
HexLoop(s, h) ==
  IF h.next > Len(s) \/ h.state \in {"FINISHED", "FAILED", "NAN"} THEN h
  ELSE HexLoop(s, IF h.state \in {"M_FRAC_BEGIN", "M_FRAC_SKIP_ZEROES", "M_FRAC_CONT"}
                  THEN HexFraction(s, h, s[h.next]) ELSE HexIntegral(s, h, s[h.next]))

\* Half way bits of the straddling digits, to even.
RoundTail(m, tail) ==
  IF (tail \div 128) % 2 = 1 /\ (tail % 128 # 0 \/ m % 2 = 1) THEN m + 1 ELSE m

\* A denormal number: exp_ind more bits leave the mantissa, the last of them
\* decides with what lies below.
HexDenormal(h, exp_ind) ==
  LET last == h.last_bit_pos
      m0 == h.m + (IF last > 0 THEN h.digit_tail \div 2^(8 - last) ELSE 0)
      tail == IF last > 0 THEN (h.digit_tail * 2^last) % 256 ELSE h.digit_tail
      below == tail # 0 \/ m0 % 2^(exp_ind - 1) # 0
      t_bit == (m0 \div 2^(exp_ind - 1)) % 2 = 1
      m1 == m0 \div 2^exp_ind
      m2 == IF t_bit /\ (below \/ m1 % 2 = 1) THEN m1 + 1 ELSE m1
  IN  IF mantissa_bits >= exp_ind THEN m2 ELSE 0

\* A carry out of the mantissa halves it; the exponent, already computed,
\* is not raised.
HexNormal(h, exp_ind) ==
  LET last == h.last_bit_pos
      m0 == h.m + (IF last >= 0 THEN h.digit_tail \div 2^(8 - last) ELSE 0)
      m1 == IF last >= 0 THEN RoundTail(m0, h.digit_tail * 2^last) ELSE m0
      m2 == IF m1 = 2 * HiddenBit THEN HiddenBit ELSE m1
  IN  Fields(exp_ind, m2 - HiddenBit)

parse_hex(s, i) ==
  LET h == HexLoop(s, [state |-> "LEAD_ZERO", m |-> 0, exp_2 |-> 0, exp_ind |-> 0,
                       bit_pos |-> mantissa_bits, last_bit_pos |-> -1,
                       digit_tail |-> 0, next |-> i])
      exp_ind == h.exp_ind + h.exp_2 + exponent_bias
  IN  IF h.state = "FAILED" THEN Fail
      ELSE [ok |-> TRUE, next |-> h.next,
            v |-> IF h.state = "NAN" THEN NaN
                  ELSE IF h.m = 0 THEN 0
                  ELSE IF exp_ind <= 0 THEN HexDenormal(h, 1 - exp_ind)
                  ELSE IF exp_ind >= 2 * exponent_bias + 1 THEN Inf
                  ELSE HexNormal(h, exp_ind)]

-----------------------------------------------------------------------------

\* The decimal digits as limbs, most significant first, the last one padded
\* by adjust_tail; the padding is its (negative) exponent.
TailExp(ds) == -((-Len(ds)) % limb_digits_10)
DecimalLimbs(ds) ==
  LET padded == ds \o [i \in 1..(-TailExp(ds)) |-> "0"]
  IN  [k \in 1..(Len(padded) \div limb_digits_10) |->
         Number(SubSeq(padded, (k - 1) * limb_digits_10 + 1, k * limb_digits_10))]

\* The leading digits10 digits and how many were taken: whole limbs, then a
\* part of one; what follows in the limb at hand rounds.
bigdec_to_scalar(limbs) ==
  LET whole == digits10 \div limb_digits_10
      k == IF whole < Len(limbs) THEN whole ELSE Len(limbs)
      dd == digits10 - k * limb_digits_10
      dst == FoldLeft(LAMBDA v, x : v * 10^limb_digits_10 + x, 0, SubSeq(limbs, 1, k)) * 10^dd
      p == 10^(limb_digits_10 - dd)
      rem == limbs[k + 1] % p
      cnt == k * limb_digits_10
  IN  IF k = Len(limbs) THEN [dst |-> dst, cnt |-> cnt]
      ELSE IF dd = 0
      THEN [dst |-> dst + (IF limbs[k + 1] >= p \div 2 THEN 1 ELSE 0), cnt |-> cnt]
      ELSE [dst |-> dst + limbs[k + 1] \div p + (IF rem # 0 /\ rem >= p \div 2 THEN 1 ELSE 0),
            cnt |-> cnt + dd]

\* The same digits as an exact number, scaled by 10^ld into its last limb.
bigdec_to_bigint(limbs) ==
  LET v == FoldLeft(LAMBDA d, x : Big!add(Big!multiply(d, 10^limb_digits_10), x),
                    <<limbs[1]>>, Tail(limbs))
      ld == Big!small_power_10_estimate(limb_bits - BitLength(v[Len(v)]))
  IN  [v |-> IF ld # 0 THEN Big!multiply(v, 10^ld) ELSE v, ld |-> ld]

\* m * 10^exp_10 through the table, with a bound of its error in eighths of
\* the last place.
ScaledGuess(m, exp_10) ==
  LET x0 == normalize([m |-> m, exp |-> 0])
      e0 == 4 * 2^(-x0.exp)
      bd == lookup_pow_2(exp_10)
      exact == bd.pow_10 = exp_10
      x1 == IF exact THEN x0 ELSE Times(x0, lookup_pow_10_rem(exp_10 - bd.pow_10))
      e1 == IF exact THEN e0 ELSE e0 + 9
      x2 == Times(x1, bd)
      x3 == normalize(x2)
  IN  [x |-> x3, error |-> (e1 + 9) * 2^(x2.exp - x3.exp)]

\* Within the error of the middle between two numbers (unsigned arithmetic).
Undecided_Never(half, error, x_m) == FALSE

Undecided(half, error, x_m) ==
  (half - error) % 2^W < x_m /\ (half + error) % 2^W > x_m

\* The bits below the mantissa: x_m of them against half of the last place.
Guessed(m, exp, half, error, x_m) ==
  LET xv == [m |-> m + (IF x_m >= half + error THEN 1 ELSE 0), exp |-> exp]
      v == ToValue(xv)
  IN  [v |-> v, xv |-> xv, sure |-> v = Inf \/ ~Undecided(half, error, x_m)]

\* The number nearest to the scaled guess g, and whether that is certain.
Narrowed(g) ==
  LET top == g.x.exp + W
      size0 == W - (IF top >= denormal_exponent + mantissa_bits THEN mantissa_bits
                    ELSE IF top <= denormal_exponent THEN 0 ELSE top - denormal_exponent)
      shift == IF size0 + 3 >= W THEN size0 + 3 - W + 1 ELSE 0
      error == IF shift > 0 THEN g.error \div 2^shift + 9 ELSE g.error
      m0 == g.x.m \div 2^shift
      size == size0 - shift
  IN  Guessed(m0 \div 2^size, g.x.exp + shift + size, 2^(size - 1) * 8, error, (m0 % 2^size) * 8)

compute_guess(m, exp_10) ==
  IF exp_10 < pow_10_first THEN [v |-> 0, sure |-> TRUE, xv |-> [m |-> 0, exp |-> 0]]
  ELSE IF exp_10 > pow_10_last THEN [v |-> Inf, sure |-> TRUE, xv |-> [m |-> 0, exp |-> 0]]
  ELSE Narrowed(ScaledGuess(m, exp_10))

Raised(x, exp_10) == IF exp_10 > 0 THEN Big!multiply_pow10(x, exp_10) ELSE x
Shifted(x, n)     == IF n > 0 THEN Big!shift_left(x, n) ELSE x

\* d * 10^exp_10 against u * 2^exp, without fractions.
CompareScaled(d, exp_10, u, exp) ==
  Big!compare(Shifted(Raised(d, exp_10), -exp), Shifted(Raised(u, -exp_10), exp))

\* u moved to the top of its last limb, as the code does first.
AtTop(d, exp_10, u, exp, lu) == CompareScaled(d, exp_10, Shifted(u, lu), exp - lu)
Compare(d, exp_10, u, exp) ==
  AtTop(d.v, exp_10 - d.ld, u, exp, limb_bits - BitLength(u[Len(u)]))

\* The exact digits against the middle between the guess and its successor.
Successor(c, v, xv) ==
  IF c > 0 \/ (c = 0 /\ Unpack(v).m % 2 = 1)
  THEN ToValue([m |-> xv.m + 1, exp |-> xv.exp]) ELSE v

adjust_guess(v, xv, limbs, exp_10) ==
  Successor(Compare(bigdec_to_bigint(limbs), exp_10, Big!assign_scalar(2 * xv.m + 1, 0), xv.exp - 1),
            v, xv)

\* A decimal number from position i: its significant digits ds, int_pos of
\* them before the point, z zeros between the point and the first of them.
Decimal(s, i) ==
  LET j == AfterDigits(s, i)
      k == IF At(s, j, ".") THEN AfterDigits(s, j + 1) ELSE j
      Lead(t) == FoldLeft(LAMBDA n, x : IF x = "0" /\ n.go THEN [go |-> TRUE, n |-> n.n + 1]
                                        ELSE [n EXCEPT !.go = FALSE],
                          [go |-> TRUE, n |-> 0], t).n
      int == SubSeq(s, i, j - 1)
      frac == SubSeq(s, j + 1, k - 1)
      ids == SubSeq(int, Lead(int) + 1, Len(int))
      fds == IF ids = <<>> THEN SubSeq(frac, Lead(frac) + 1, Len(frac)) ELSE frac
  IN  [valid |-> int # <<>> \/ frac # <<>>,
       ds |-> ids \o fds, int_pos |-> Len(ids), z |-> Len(frac) - Len(fds),
       next |-> IF frac # <<>> THEN k ELSE j,
       check_for_exp |-> ~At(s, j, ".") \/ frac # <<>>]

exponent_bound == Big!small_power_10_estimate(2^exponent_bits)

\* The guess, or the exact comparison where it is not certain.
Decided(g, limbs, exp_10) == IF g.sure THEN g.v ELSE adjust_guess(g.v, g.xv, limbs, exp_10)

\* The value of the limbs; sc is their beginning, the point is exp_10 after
\* the first digit.
LimbsValue(limbs, sc, exp_10, length) ==
  Decided(compute_guess(sc.dst, exp_10 - sc.cnt - (digits10 - sc.cnt)), limbs, exp_10 - length)

DecimalValue(d, e) ==
  LET limbs == DecimalLimbs(d.ds)
  IN  IF e > exponent_bound THEN Inf
      ELSE IF -e > exponent_bound \/ d.ds = <<>> THEN 0
      ELSE LimbsValue(limbs, bigdec_to_scalar(limbs), e - d.z + d.int_pos, Len(d.ds) - TailExp(d.ds))

\* from_ascii_numeric_f_helper::apply without its sign.
WithExponent(d, e) ==
  IF d.valid THEN [ok |-> TRUE, next |-> e.next, v |-> DecimalValue(d, e.v)] ELSE Fail
ReadExponent(s, d) ==
  IF d.check_for_exp /\ At(s, d.next, "e") THEN parse_exponent(s, d.next)
  ELSE [v |-> 0, next |-> d.next]
ReadDecimal(s, d) == WithExponent(d, ReadExponent(s, d))

FirstOk(special, hex, decimal) ==
  IF special.ok THEN special ELSE IF hex.ok THEN hex ELSE decimal

\* The number after a sign, before position i.
Unsigned(s, i) == FirstOk(parse_special(s, i), parse_hex(s, i), ReadDecimal(s, Decimal(s, i)))

from_ascii_numeric_f(s) ==
  IF s = <<>> THEN Fail
  ELSE Unsigned(s, IF s[1] \in {"-", "+"} THEN 2 ELSE 1)

-----------------------------------------------------------------------------
(* Writing.                                                                *)
-----------------------------------------------------------------------------

Chars10(n) == DigitChars[n + 1]

RECURSIVE DecimalText(_)
DecimalText(n) == IF n < 10 THEN <<Chars10(n)>> ELSE Append(DecimalText(n \div 10), Chars10(n % 10))

ZeroText(n) == [i \in 1..n |-> "0"]

\* The digits ds, worth ds * 10^exp, as text.
bcd_to_ascii_f(ds, exp) ==
  LET length == Len(ds)
      dot_pos == length + exp
      t == [i \in 1..length |-> Chars10(ds[i])]
      e == IF exp >= 0 \/ dot_pos > 0 THEN <<"+">> \o DecimalText(dot_pos - 1)
           ELSE <<"-">> \o DecimalText(1 - dot_pos)
  IN  IF dot_pos >= negative_cutoff /\ dot_pos < positive_cutoff
      THEN IF dot_pos < 0 THEN <<"0", ".">> \o ZeroText(-dot_pos) \o t
           ELSE IF dot_pos < length
           THEN SubSeq(t, 1, dot_pos) \o <<".">> \o SubSeq(t, dot_pos + 1, length)
           ELSE t \o ZeroText(dot_pos - length) \o <<".", "0">>
      ELSE <<t[1]>> \o (IF length > 1 THEN <<".">> ELSE <<>>) \o Tail(t) \o <<"e">> \o e

power_10_estimate(exp_2) == Ceil((exp_2 + mantissa_bits - 1) * 30103, 100000)

\* One digit after the other from num / denom, until what is left is within
\* the boundaries; an even mantissa owns its boundaries.
RECURSIVE BigDigits(_, _, _, _, _, _)
BigDigits(num, denom, bd_low, bd_high, odd, ds) ==
  LET q == Big!divide_near(num, denom)
      l == Big!compare(q.num, bd_low)
      h == Big!compare_sum(q.num, bd_high, denom)
      low == IF odd THEN l < 0 ELSE l <= 0
      high == IF odd THEN h > 0 ELSE h >= 0
      mid == Big!compare_sum(q.num, q.num, denom)
      up == IF ~low THEN high ELSE high /\ (mid > 0 \/ (mid = 0 /\ q.rv % 2 = 1))
  IN  IF ~low /\ ~high
      THEN BigDigits(Big!multiply(q.num, 10), denom, Big!multiply(bd_low, 10),
                     Big!multiply(bd_high, 10), odd, Append(ds, q.rv))
      ELSE Append(ds, IF up THEN q.rv + 1 ELSE q.rv)

\* The digits of num / denom * 10^exponent; a first digit of zero is skipped.
ExactDigits(num, denom, bd_low, bd_high, odd, exponent) ==
  LET h == Big!compare_sum(num, bd_high, denom)
      in_range == IF odd THEN h > 0 ELSE h >= 0
  IN  IF in_range
      THEN [ds |-> BigDigits(num, denom, bd_low, bd_high, odd, <<>>), exp |-> exponent + 1]
      ELSE [ds |-> BigDigits(Big!multiply(num, 10), denom, Big!multiply(bd_low, 10),
                             Big!multiply(bd_high, 10), odd, <<>>), exp |-> exponent]

Placed(r) == bcd_to_ascii_f(r.ds, r.exp - Len(r.ds))

\* The exact conversion; a power of two, unless denormal, has its lower
\* boundary at half the distance (extra_shift).
bigint_convert(units) ==
  LET xv == Unpack(units)
      extra_shift == IF xv.m = HiddenBit THEN 1 ELSE 0
      exponent == power_10_estimate(xv.exp)
      num == IF xv.exp >= 0 THEN Big!assign_scalar(xv.m, xv.exp + 1 + extra_shift)
             ELSE IF exponent >= 0 THEN Big!assign_scalar(xv.m, 1 + extra_shift)
             ELSE Big!shift_left(Big!multiply_vector(Big!assign_scalar(xv.m, 0),
                                                     Big!assign_pow10(-exponent)),
                                 1 + extra_shift)
      denom == IF xv.exp >= 0 THEN Big!shift_left(Big!assign_pow10(exponent), 1 + extra_shift)
               ELSE IF exponent >= 0
               THEN Big!shift_left(Big!assign_pow10(exponent), 1 + extra_shift - xv.exp)
               ELSE Big!assign_scalar(1, 1 + extra_shift - xv.exp)
      bd_low == IF xv.exp >= 0 THEN Big!assign_scalar(1, xv.exp)
                ELSE IF exponent >= 0 THEN Big!assign_scalar(1, 0)
                ELSE Big!assign_pow10(-exponent)
      bd_high == IF extra_shift = 1 THEN Big!shift_left(bd_low, 1) ELSE bd_low
  IN  Placed(ExactDigits(num, denom, bd_low, bd_high, xv.m % 2 = 1, exponent))

\* Whether one step down brings the digits nearer to the target.
Nearer(remainder, target, unsafe, mult, tie) ==
  /\ remainder < target
  /\ unsafe - remainder >= mult
  /\ \/ remainder + mult < target
     \/ target - remainder > remainder + mult - target
     \/ tie /\ target - remainder = remainder + mult - target

\* Moves the last digit towards the number and says whether the result is
\* certainly the nearest and certainly inside.
RECURSIVE round_weed(_, _, _, _, _, _)
round_weed(digit, upper, unsafe, remainder, mult, scale) ==
  IF Nearer(remainder, upper - scale, unsafe, mult, TRUE)
  THEN round_weed(digit - 1, upper, unsafe, remainder + mult, mult, scale)
  ELSE [digit |-> digit,
        ok |-> /\ ~Nearer(remainder, upper + scale, unsafe, mult, FALSE)
               /\ 2 * scale <= remainder
               /\ remainder <= unsafe - 4 * scale]

\* The digits after the point of the scaled number (modulo the storage).
RECURSIVE FractionDigits(_, _, _, _, _, _, _)
FractionDigits(fractional, unsafe, distance, scale, shift, kappa, ds) ==
  LET f == (fractional * 10) % 2^W
      u == (unsafe * 10) % 2^W
      c == (scale * 10) % 2^W
      r == round_weed(f \div 2^shift, (distance * c) % 2^W, u, f % 2^shift, 2^shift, c)
  IN  IF f % 2^shift < u
      THEN [ok |-> r.ok, ds |-> Append(ds, r.digit), kappa |-> kappa - 1]
      ELSE FractionDigits(f % 2^shift, u, distance, c, shift, kappa - 1,
                          Append(ds, f \div 2^shift))

\* The digits before it.
RECURSIVE IntegralDigits(_, _, _, _, _, _, _)
IntegralDigits(integral, fractional, unsafe, distance, shift, kappa, ds) ==
  LET p == 10^(kappa - 1)
      remainder == (integral % p) * 2^shift + fractional
      r == round_weed(integral \div p, distance, unsafe, remainder, p * 2^shift, 1)
  IN  IF kappa = 0 THEN FractionDigits(fractional, unsafe, distance, 1, shift, 0, ds)
      ELSE IF remainder < unsafe
      THEN [ok |-> r.ok, ds |-> Append(ds, r.digit), kappa |-> kappa - 1]
      ELSE IntegralDigits(integral % p, fractional, unsafe, distance, shift, kappa - 1,
                          Append(ds, integral \div p))

\* The shortest digits, from the number and its boundaries scaled by a power
\* of ten so that the point lies inside the storage.
Shortest(units) ==
  LET x == Unpack(units)
      bd == boundaries(x)
      xv == normalize(x)
      scale == lookup_pow_10(minimal_target_exp - (xv.exp + W))
      s_xv == Times(xv, scale)
      low == [Times(bd.low, scale) EXCEPT !.m = @ - 1]
      high == [Times(bd.high, scale) EXCEPT !.m = @ + 1]
      shift == -s_xv.exp
      integral == high.m \div 2^shift
      e0 == Big!small_power_10_estimate(W - shift + 1)
      x_exp == IF integral < 10^e0 THEN e0 - 1 ELSE e0
      r == IntegralDigits(integral, high.m % 2^shift, Minus(high, low), Minus(high, s_xv),
                          shift, x_exp + 1, <<>>)
  IN  [ok |-> r.ok, ds |-> r.ds, exp |-> r.kappa - scale.pow_10]

Checked(units, r) == IF r.ok THEN bcd_to_ascii_f(r.ds, r.exp) ELSE bigint_convert(units)

to_ascii_decimal_f(units) ==
  IF units = 0 THEN <<"0", ".", "0">>
  ELSE IF units = Inf THEN <<"1", ".", "#", "i", "n", "f">>
  ELSE Checked(units, Shortest(units))

-----------------------------------------------------------------------------

\* Every number of the format.
Numbers ==
  {Fields(field, m) : field \in 0..(2 * exponent_bias), m \in 0..(HiddenBit - 1)} \cup {Inf}

Init ==
  /\ typed = 0
  /\ \/ mode = "read" /\ text \in Seeds /\ val = 0
     \/ mode = "write" /\ text = <<>> /\ val \in Numbers

Type ==
  /\ mode = "read"
  /\ typed < MaxTyped
  /\ \E c \in Chars : text' = Append(text, c)
  /\ typed' = typed + 1
  /\ UNCHANGED <<mode, val>>

Write ==
  /\ mode = "write"
  /\ text' = to_ascii_decimal_f(val)
  /\ mode' = "written"
  /\ UNCHANGED <<typed, val>>

Next == Type \/ Write

Spec == Init /\ [][Next]_vars

-----------------------------------------------------------------------------

\* The number nearest to a / b units, ties to even.
Nearest(a, b) ==
  LET n == a \div b
      k == IF n < 2 * HiddenBit THEN 0 ELSE BitLength(n) - mantissa_bits
      q == n \div 2^k
      rem == a - q * 2^k * b
      r == IF 2 * rem > 2^k * b \/ (2 * rem = 2^k * b /\ q % 2 = 1) THEN q + 1 ELSE q
      top == (2 * HiddenBit - 1) * 2^(max_exponent - 1 - denormal_exponent)
  IN  IF r * 2^k > top THEN Inf ELSE r * 2^k

\* What a decimal text means: its digits n as a number, times 10^exp.
Scaled(n, exp, length) ==
  IF n = 0 THEN 0
  ELSE IF exp + length > 4 THEN Inf
  ELSE IF exp + length < -4 THEN 0
  ELSE IF exp >= 0 THEN Nearest(n * 10^exp * 2^(-denormal_exponent), 1)
  ELSE Nearest(n * 2^(-denormal_exponent), 10^(-exp))

Meaning(s, d) ==
  Scaled(Number(d.ds), ReadExponent(s, d).v - d.z - (Len(d.ds) - d.int_pos), Len(d.ds))

\* What a hexadecimal text means: its digits, moved by the point and by p.
HexMeaning(s) ==
  LET j == AfterHexDigits(s, 3)
      k == IF At(s, j, ".") THEN AfterHexDigits(s, j + 1) ELSE j
      frac == SubSeq(s, j + 1, k - 1)
      e == IF At(s, k, "p") /\ (k = j \/ frac # <<>>) THEN parse_exponent(s, k).v ELSE 0
      n == FoldLeft(LAMBDA v, c : v * 16 + Digit(c), 0, SubSeq(s, 3, j - 1) \o frac)
      exp == e - 4 * Len(frac) - denormal_exponent
  IN  IF n = 0 \/ BitLength(n) + exp < -1 THEN 0
      ELSE IF BitLength(n) + exp > 2 * exponent_bias + mantissa_bits THEN Inf
      ELSE IF exp >= 0 THEN Nearest(n * 2^exp, 1) ELSE Nearest(n, 2^(-exp))

\* The lower neighbour of a power of two is nearer than boundaries allows
\* for: what the short conversion writes may read as that neighbour.
Halfway(units) ==
  units >= 2 * HiddenBit /\ units = 2^(BitLength(units) - 1) /\ Shortest(units).ok

DecimalRight(s, r, d) == r.v # Meaning(s, d) => d.ds = <<>> /\ r.v = Inf

HexRight(v, means) ==
  \/ v = means \/ 2 * v = means
  \/ means = Inf /\ v = 2^(max_exponent + mantissa_bits - 2 - denormal_exponent)

IsHex(s) == Len(s) > 1 /\ s[2] = "x"

WholeRead(s, r, v) == r.ok /\ r.next = Len(s) + 1 /\ (r.v = v \/ Halfway(v))

(***************************************************************************)
(* A decimal text is read as the number of the format nearest to it, ties  *)
(* to even, unless it is a zero with an exponent beyond exponent_bound     *)
(* (read as infinity); every number but a power of two reads back as       *)
(* itself after it has been written, and a power of two reads back as      *)
(* itself when the exact conversion wrote it.  A hexadecimal text is read  *)
(* as the nearest number, or as half of it when the rounding carried into  *)
(* the next power of two.                                                  *)
(***************************************************************************)
FloatsAgree ==
  /\ mode = "read" /\ text # <<>> /\ ~IsHex(text) /\ Decimal(text, 1).valid =>
       DecimalRight(text, from_ascii_numeric_f(text), Decimal(text, 1))
  /\ mode = "read" /\ IsHex(text) /\ Len(text) > 2 /\ text[1] = "0" /\ IsDigit(text[3], 16) =>
       HexRight(from_ascii_numeric_f(text).v, HexMeaning(text))
  /\ mode = "written" => WholeRead(text, from_ascii_numeric_f(text), val)
=============================================================================
