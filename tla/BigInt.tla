------------------------------- MODULE BigInt -------------------------------
(***************************************************************************)
(* mina's unsigned numbers of any length, the exact arithmetic behind the  *)
(* conversion of floating point numbers to and from text.  A number is a   *)
(* vector of limbs, least significant first.  A limb has limb_bits bits    *)
(* (64 or 32 in the code) and holds limb_digits_10 decimal digits; every   *)
(* operation below works limb by limb, with the carries of the source.     *)
(***************************************************************************)
EXTENDS Integers, Sequences, SequencesExt

CONSTANTS limb_bits,        \* bits of a limb
          limb_digits_10,   \* decimal digits that fit a limb
          MaxBits,          \* bound: bits of the largest number
          MaxOps            \* bound: operations of a behaviour

VARIABLES num, den,         \* two vectors
          rnum, rden,       \* the numbers they stand for
          ops               \* operations so far

vars == <<num, den, rnum, rden, ops>>

LimbSize == 2^limb_bits
Low(x)   == x % LimbSize
High(x)  == x \div LimbSize

small_power_10(n) == 10^n

small_power_10_estimate(order_2) == (order_2 * 1233) \div 4096

\* The number of bits of x (yesod::fls, clz).
BitLength(x) == IF x = 0 THEN 0 ELSE CHOOSE n \in 1..31 : 2^(n - 1) <= x /\ x \div 2 < 2^(n - 1)

Zeros(n) == [i \in 1..n |-> 0]

\* The number a vector stands for.
Value(v) == FoldRight(LAMBDA d, acc : acc * LimbSize + d, v, 0)

RECURSIVE Trim(_)
Trim(v) == IF v # <<>> /\ v[Len(v)] = 0 THEN Trim(SubSeq(v, 1, Len(v) - 1)) ELSE v

-----------------------------------------------------------------------------

bit_size(v) == (Len(v) - 1) * limb_bits + BitLength(v[Len(v)])

\* Four bits at a time, the most significant first.
to_ascii_hex(v) ==
  FoldRight(LAMBDA d, s : s \o [i \in 1..(limb_bits \div 4) |->
                                  (d \div 2^(limb_bits - 4 * i)) % 16],
            v, <<>>)

RECURSIVE Limbs(_)
Limbs(value) == IF value = 0 THEN <<>> ELSE <<Low(value)>> \o Limbs(High(value))

assign_scalar(value, order) ==
  LET bit_off == order % limb_bits
      x == Low(value * 2^bit_off)
      rest == (value - x \div 2^bit_off) \div 2^(limb_bits - bit_off)
  IN  Zeros(order \div limb_bits) \o <<x>> \o Limbs(rest)

shift_left(v, order) ==
  LET shift == order % limb_bits
      Step(s, d) == [c |-> d \div 2^(limb_bits - shift),
                     v |-> Append(s.v, Low(d * 2^shift) + s.c)]
      r == FoldLeft(Step, [c |-> 0, v |-> <<>>], v)
  IN  Zeros(order \div limb_bits) \o
      (IF shift = 0 THEN v ELSE IF r.c # 0 THEN Append(r.v, r.c) ELSE r.v)

\* The mutant drops the carry out of the last limb.
multiply_Short(l, r) ==
  LET Step(s, d) == [c |-> High(r * d + s.c), v |-> Append(s.v, Low(r * d + s.c))]
  IN  FoldLeft(Step, [c |-> 0, v |-> <<>>], l).v

multiply(l, r) ==
  LET Step(s, d) == [c |-> High(r * d + s.c), v |-> Append(s.v, Low(r * d + s.c))]
      m == FoldLeft(Step, [c |-> 0, v |-> <<>>], l)
  IN  IF m.c # 0 THEN Append(m.v, m.c) ELSE m.v

RECURSIVE MultiplyLimbs(_, _)
MultiplyLimbs(v, order) ==
  IF order = 0 THEN v
  ELSE MultiplyLimbs(multiply(v, small_power_10(limb_digits_10)), order - limb_digits_10)

assign_pow10(order) ==
  LET r == order % limb_digits_10
  IN  MultiplyLimbs(<<small_power_10(r)>>, order - r)

multiply_pow10(v, order) ==
  LET r == order % limb_digits_10
  IN  MultiplyLimbs(IF r # 0 THEN multiply(v, small_power_10(r)) ELSE v, order - r)

\* The limbs of l times one limb rd of r, added to m from n_pos on.
RECURSIVE Row(_, _, _, _, _)
Row(m, n_pos, l, rd, c) ==
  IF l = <<>> THEN [m EXCEPT ![n_pos] = c]
  ELSE LET acc == rd * Head(l) + m[n_pos] + c
       IN  Row([m EXCEPT ![n_pos] = Low(acc)], n_pos + 1, Tail(l), rd, High(acc))

RECURSIVE Rows(_, _, _, _)
Rows(m, m_pos, l, r) ==
  IF r = <<>> THEN m ELSE Rows(Row(m, m_pos, l, Head(r), 0), m_pos + 1, l, Tail(r))

multiply_vector(l, r) == Trim(Rows(Zeros(Len(l) + Len(r)), 1, l, r))

add(l, r) ==
  LET Carry(s, d) ==
        IF s.c = 0 THEN [s EXCEPT !.v = Append(@, d)]
        ELSE IF d < LimbSize - 1 THEN [c |-> 0, v |-> Append(s.v, d + 1)]
        ELSE [c |-> 1, v |-> Append(s.v, 0)]
      s == FoldLeft(Carry, [c |-> High(l[1] + r), v |-> <<Low(l[1] + r)>>], Tail(l))
  IN  IF s.c # 0 THEN Append(s.v, 1) ELSE s.v

compare(l, r) ==
  LET diff == {i \in 1..Len(l) : l[i] # r[i]}
      top  == CHOOSE i \in diff : \A j \in diff : j <= i
  IN  IF bit_size(l) > bit_size(r) THEN 1
      ELSE IF bit_size(r) > bit_size(l) THEN -1
      ELSE IF diff = {} THEN 0
      ELSE IF l[top] > r[top] THEN 1 ELSE -1

\* l0 + l1 against r, without forming the sum.
compare_sum(l0, l1, r) ==
  LET l_sz == IF bit_size(l0) > bit_size(l1) THEN bit_size(l0) ELSE bit_size(l1)
      l_min == IF bit_size(l0) <= bit_size(l1) THEN l0 ELSE l1
      l_max == IF bit_size(l0) <= bit_size(l1) THEN l1 ELSE l0
      Step(s, pos) ==
        LET acc == l_max[pos] + (IF pos <= Len(l_min) THEN l_min[pos] ELSE 0) + s.c
        IN  [c |-> High(acc),
             rv |-> IF Low(acc) > r[pos] THEN 1
                    ELSE IF Low(acc) < r[pos] THEN -1 ELSE s.rv]
      s == FoldLeft(Step, [c |-> 0, rv |-> 0], [i \in 1..Len(l_max) |-> i])
  IN  IF l_sz > bit_size(r) THEN 1
      ELSE IF bit_size(r) > l_sz + 1 THEN -1
      ELSE IF Len(l_max) < Len(r) THEN IF r[Len(l_max) + 1] > s.c THEN -1 ELSE s.rv
      ELSE IF s.c # 0 THEN 1 ELSE s.rv

\* l - r * 2^order: r is shifted as it is subtracted; b is the borrow and sc
\* the bits shifted out of the last limb of r.  A zero result is <<0>>.
subtract_scaled(l, r, order) ==
  LET off == order \div limb_bits
      shift == order % limb_bits
      Scaled(i) ==
        Low((IF i <= Len(r) THEN r[i] * 2^shift ELSE 0)
            + (IF i > 1 /\ i <= Len(r) + 1 THEN r[i - 1] \div 2^(limb_bits - shift) ELSE 0))
      Step(s, i) ==
        LET acc == LimbSize + l[off + i] - Scaled(i) - s.b
        IN  [b |-> 1 - High(acc), v |-> Append(s.v, Low(acc))]
      d == FoldLeft(Step, [b |-> 0, v |-> SubSeq(l, 1, off)],
                    [i \in 1..(Len(l) - off) |-> i]).v
  IN  IF Trim(d) = <<>> THEN <<0>> ELSE Trim(d)

RECURSIVE Reduce(_, _, _)
Reduce(n, denom, rv) ==
  LET order == bit_size(n) - bit_size(denom)
  IN  IF order > 1
      THEN Reduce(subtract_scaled(n, denom, order - 1), denom, rv + 2^(order - 1))
      ELSE IF compare(n, denom) >= 0
      THEN Reduce(subtract_scaled(n, denom, 0), denom, rv + 1)
      ELSE [rv |-> rv, num |-> n]

\* The quotient, the remainder left in num.
divide_near(n, denom) ==
  IF bit_size(n) < bit_size(denom) THEN [rv |-> 0, num |-> n] ELSE Reduce(n, denom, 0)

-----------------------------------------------------------------------------

Init ==
  /\ num = <<1>> /\ rnum = 1
  /\ den = <<1>> /\ rden = 1
  /\ ops = 0

Fits(x) == x < 2^MaxBits

Becomes(v, x) ==
  /\ Fits(x)
  /\ num' = v
  /\ rnum' = x

AssignScalar ==
  \E value \in {1, LimbSize - 1, LimbSize, 3 * LimbSize + 5}, order \in 0..(limb_bits + 1) :
    Becomes(assign_scalar(value, order), value * 2^order)

AssignPow10 ==
  \E order \in 0..4 : Becomes(assign_pow10(order), 10^order)

\* The converters shift no zero (it would gain limbs).
ShiftLeft ==
  \E order \in 1..(limb_bits + 1) :
    /\ rnum \in 1..(2^(MaxBits - order) - 1)
    /\ Becomes(shift_left(num, order), rnum * 2^order)

Multiply ==
  \E r \in {3, 10, LimbSize - 1} :
    rnum < 2^(MaxBits - limb_bits) /\ Becomes(multiply(num, r), rnum * r)

MultiplyPow10 ==
  \E order \in 2..3 :
    rnum < 2^(MaxBits - 4 * order) /\ Becomes(multiply_pow10(num, order), rnum * 10^order)

MultiplyVector ==
  /\ bit_size(num) + bit_size(den) <= MaxBits
  /\ rnum # 0 /\ rden # 0
  /\ Becomes(multiply_vector(num, den), rnum * rden)

Add ==
  \E r \in {1, LimbSize - 1} : Becomes(add(num, r), rnum + r)

SubtractScaled ==
  \E order \in 0..(2 * limb_bits) :
    /\ bit_size(den) + order <= MaxBits
    /\ rden # 0 /\ rden * 2^order <= rnum
    /\ Becomes(subtract_scaled(num, den, order), rnum - rden * 2^order)

DivideNear ==
  /\ rden # 0 /\ rnum \div rden < LimbSize
  /\ Becomes(divide_near(num, den).num, rnum % rden)

Swap ==
  /\ num' = den /\ den' = num /\ rnum' = rden /\ rden' = rnum

Next ==
  /\ ops < MaxOps
  /\ ops' = ops + 1
  /\ \/ (AssignScalar \/ AssignPow10 \/ ShiftLeft \/ Multiply \/ MultiplyPow10
           \/ MultiplyVector \/ Add \/ SubtractScaled \/ DivideNear) /\ UNCHANGED <<den, rden>>
     \/ Swap

Spec == Init /\ [][Next]_vars

-----------------------------------------------------------------------------

Sign(x) == IF x > 0 THEN 1 ELSE IF x < 0 THEN -1 ELSE 0

(***************************************************************************)
(* A vector stands for the number the operations made, without superfluous *)
(* limbs; comparison, the comparison of a sum that is never formed, and    *)
(* the quotient a division returns agree with the numbers (bigint).        *)
(***************************************************************************)
BigIntAgrees ==
  /\ Value(num) = rnum /\ Value(den) = rden
  /\ num[Len(num)] # 0 \/ num = <<0>>
  /\ compare(num, den) = Sign(rnum - rden)
  /\ compare_sum(num, num, den) = Sign(2 * rnum - rden)
  /\ compare_sum(num, <<1>>, den) = Sign(rnum + 1 - rden)
  /\ compare_sum(den, num, num) = Sign(rden)
  /\ Len(to_ascii_hex(num)) * 4 = Len(num) * limb_bits
  /\ rden # 0 /\ rnum \div rden < LimbSize => divide_near(num, den).rv = rnum \div rden
=============================================================================
