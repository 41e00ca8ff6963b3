-------------------------------- MODULE Bits --------------------------------
(***************************************************************************)
(* Sets of bits kept in words: bitset of yesod.old, with a version for one *)
(* word and one for several, and bitmap of yesod, which counts, selects    *)
(* and copies bits at arbitrary offsets.                                   *)
(*                                                                         *)
(* A word is the set of its ones, memory is the set of all ones.           *)
(***************************************************************************)
EXTENDS Integers, Sequences, FiniteSets, FiniteSetsExt

CONSTANTS
  W,           \* word_bits
  Sizes,       \* bit counts of the bitsets
  MaxChanges   \* bound: operations that write

VARIABLES n, bset, ref, changes

bitVars == <<n, bset, ref, changes>>

Word(memory, w) == {i \in 0 .. W - 1 : w * W + i \in memory}
Place(word, w)  == {w * W + i : i \in word}
Flipped(word)   == 0 .. W - 1 \ word

ctz(word) == Min(word)
clz(word) == IF word = {} THEN W ELSE W - 1 - Max(word)
ShiftR(word, k) == {i - k : i \in {j \in word : j >= k}}
ShiftL(word, k) == {i \in {j + k : j \in word} : i < W}

Sorted(S) ==
  [i \in 1 .. Cardinality(S) |-> CHOOSE x \in S : Cardinality({y \in S : y < x}) = i - 1]

(***************************************************************************)
(* bitset.                                                                 *)
(***************************************************************************)
Long(size) == size > W
full_word_count(size) == size \div W
tail_word_bits(size)  == size % W
word_count(size)      == full_word_count(size) + (IF tail_word_bits(size) = 0 THEN 0 ELSE 1)
word_mask(size)       == 0 .. (IF tail_word_bits(size) = 0 THEN W ELSE tail_word_bits(size)) - 1
\* The mask as the number that the range operations compare a position with.
mask_value(size)      == 2 ^ Cardinality(word_mask(size)) - 1

\* The whole set; reset clears the last word altogether.
set_all(memory, size)   == memory \cup 0 .. size - 1
reset_all(memory, size) == {}

\* The bits of a range, where a first word that is not whole is cut off at
\* the end of the tail if its number happens to be the mask.
Span(size, pos, length) ==
  LET off   == pos % W
      room  == IF pos \div W # mask_value(size) THEN W - off
               ELSE Max({0, tail_word_bits(size) - off})
      first == IF off = 0 THEN 0 ELSE Min({length, room})
      next  == IF off = 0 THEN pos ELSE (pos \div W + 1) * W
      rest  == IF off # 0 /\ room = 0 THEN 0 ELSE length - first IN
  IF ~Long(size) THEN pos .. pos + length - 1
  ELSE pos .. pos + first - 1 \cup (next .. next + rest - 1 \cap 0 .. size - 1)

set(memory, size, pos, length)   == memory \cup Span(size, pos, length)
reset(memory, size, pos, length) == memory \ Span(size, pos, length)
test(memory, pos) == pos % W \in Word(memory, pos \div W)

\* What a scan from first sees of word w.
Seen(memory, size, first, w) ==
  {i \in Word(memory, w) : /\ w = first \div W => i >= first % W
                           /\ w = full_word_count(size) => i \in word_mask(size)}

count(memory, size) ==
  FoldSet(LAMBDA w, k : k + Cardinality(Seen(memory, size, 0, w)), 0, 0 .. word_count(size) - 1)

Find(memory, size, first) ==
  LET words == {w \in first \div W .. word_count(size) - 1 : Seen(memory, size, first, w) # {}} IN
  IF first >= size \/ words = {} THEN size
  ELSE Min(words) * W + ctz(Seen(memory, size, first, Min(words)))

Flip(memory, size) == UNION {Place(Flipped(Word(memory, w)), w) : w \in 0 .. word_count(size) - 1}

find_first_one(memory, size, first)  == Find(memory, size, first)
find_first_zero(memory, size, first) == Find(Flip(memory, size), size, first)

\* for_each_one; for_each_zero does the same with the words inverted.  A
\* scan that begins in the tail goes over the tail twice.
for_each_one(memory, size, first) ==
  LET w0   == first \div W
      full == full_word_count(size)
      body == {w0} \cup w0 + 1 .. full - 1
      base == (Max({full, w0 + 1})) * W
      tail == {base + i : i \in Word(memory, full) \cap word_mask(size)} IN
  IF first >= size THEN <<>>
  ELSE Sorted(UNION {Place(Seen(memory, size, first, w), w) : w \in body})
       \o (IF word_count(size) = full \/ ~Long(size) THEN <<>> ELSE Sorted(tail))

\* The ones that start a run of length ones: the word is and-ed with itself,
\* shifted by half of what is left.
RECURSIVE Halve(_, _)
Halve(word, length) ==
  IF length <= 1 THEN word
  ELSE Halve(word \cap ShiftR(word, length \div 2), length - length \div 2)

\* find_zero_range_first in a word of size bits.
WordRange(word, size, first, length) ==
  LET zeros == {i \in Flipped(word) : first <= i /\ i < size}
      runs  == Halve(zeros, length) IN
  CASE first + length > size -> size
    [] first + length <= size /\ Cardinality(zeros) = size - first -> first
    [] OTHER -> IF Cardinality(zeros) < length \/ runs = {} THEN size ELSE ctz(runs)

\* The tail as the short search sees it: what is above it is taken.
TailWord(memory, size) ==
  Word(memory, full_word_count(size)) \cup Flipped(word_mask(size))

\* find_zero_range_first_short, from word w with r_len zeros before r_pos.
RECURSIVE ShortFrom(_, _, _, _, _, _)
ShortFrom(memory, size, length, w, r_len, r_pos) ==
  LET word == Word(memory, w)
      full == full_word_count(size)
      x    == WordRange(word, W, 0, length)
      last == TailWord(memory, size)
      y    == WordRange(last, W, 0, length) IN
  CASE w < full /\ word = {} -> r_pos
    [] w < full /\ word # {} ->
         IF r_len + ctz(word) >= length THEN r_pos
         ELSE IF x < W THEN w * W + x
         ELSE ShortFrom(memory, size, length, w + 1, clz(word), w * W + W - clz(word))
    [] w >= full /\ r_len >= length -> r_pos
    [] OTHER -> IF full = word_count(size) THEN size
                ELSE IF r_len + ctz(last) >= length THEN r_pos
                ELSE IF y < W THEN full * W + y ELSE size

find_zero_range_first_short(memory, size, first, length) ==
  LET w    == first \div W
      off  == first % W
      word == IF w = full_word_count(size) THEN TailWord(memory, size) ELSE Word(memory, w)
      x    == WordRange(word, W, off, length) IN
  CASE first + length > size -> size
    [] first + length <= size /\ off # 0 ->
         IF x < W THEN w * W + x
         ELSE ShortFrom(memory, size, length, w + 1, clz(word), w * W + W - clz(word))
    [] OTHER -> ShortFrom(memory, size, length, w, 0, w * W)

\* find_zero_range_first_long, for lengths of at least a word less one bit.
RECURSIVE LongFrom(_, _, _, _, _, _)
LongFrom(memory, size, length, w, r_len, r_pos) ==
  LET word == Word(memory, w)
      full == full_word_count(size)
      last == Word(memory, full) \cap word_mask(size)
      more == r_len + (IF last = {} THEN tail_word_bits(size) ELSE ctz(last)) IN
  CASE w < full /\ word # {} ->
         IF r_len + ctz(word) >= length THEN r_pos
         ELSE LongFrom(memory, size, length, w + 1, clz(word), w * W + W - clz(word))
    [] w < full /\ word = {} ->
         IF r_len + W >= length THEN r_pos
         ELSE LongFrom(memory, size, length, w + 1, r_len + W, r_pos)
    [] w >= full /\ r_len >= length -> r_pos
    [] OTHER -> IF full # word_count(size) /\ more >= length THEN r_pos ELSE size

find_zero_range_first_long(memory, size, first, length) ==
  LET w == first \div W IN
  CASE first + length > size -> size
    [] first + length <= size /\ first % W # 0 ->
         IF w = full_word_count(size) THEN size
         ELSE LongFrom(memory, size, length, w + 1, clz(Word(memory, w)),
                       w * W + W - clz(Word(memory, w)))
    [] OTHER -> LongFrom(memory, size, length, w, 0, w * W)

find_zero_range_first(memory, size, first, length) ==
  IF ~Long(size) THEN WordRange(Word(memory, 0), size, first, length)
  ELSE IF length < W - 1 THEN find_zero_range_first_short(memory, size, first, length)
  ELSE find_zero_range_first_long(memory, size, first, length)

\* find_zero_range_best: an exact fit, or else whatever was found last.
RECURSIVE find_zero_range_best(_, _, _, _)
find_zero_range_best(memory, size, first, length) ==
  LET pos == find_zero_range_first(memory, size, first, length)
      one == find_first_one(memory, size, pos) IN
  IF one = size \/ one - pos = length THEN pos
  ELSE find_zero_range_best(memory, size, one, length)

(***************************************************************************)
(* bitmap, on a little endian machine.  Positions count from the start of  *)
(* a word, which is what word_ref makes of a byte pointer and an offset.   *)
(***************************************************************************)
FirstMask(pos) == pos % W .. W - 1
LastMask(pos)  == 0 .. (pos % W) - 1

\* The ones of [first, last) in word w.
Within(memory, first, last, w) ==
  Word(memory, w) \cap (IF w = first \div W THEN FirstMask(first) ELSE 0 .. W - 1)
                  \cap (IF w = last \div W THEN LastMask(last) ELSE 0 .. W - 1)

count_ones(memory, first, last) ==
  FoldSet(LAMBDA w, k : k + Cardinality(Within(memory, first, last, w)), 0,
          first \div W .. last \div W)

\* The pos-th one of a word, from either end.
NthOne(word, pos)  == Sorted(word)[pos]
NthOneR(word, pos) == Sorted(word)[Cardinality(word) - pos + 1]

\* The distance of the pos-th one from first; the length if there is none.
find_nth_one(memory, pos, first, last) ==
  LET below(w) == FoldSet(LAMBDA x, k : k + Cardinality(Within(memory, first, last, x)), 0,
                          first \div W .. w - 1)
      words == {w \in first \div W .. last \div W :
                  below(w) + Cardinality(Within(memory, first, last, w)) >= pos} IN
  IF words = {} THEN last - first
  ELSE LET w == Min(words) IN
       NthOne(Within(memory, first, last, w), pos - below(w)) + w * W - first

\* The same backwards, from last; the answer for none depends on whether the
\* range crosses a word.
find_nth_one_r(memory, pos, first, last) ==
  LET above(w) == FoldSet(LAMBDA x, k : k + Cardinality(Within(memory, first, last, x)), 0,
                          w + 1 .. last \div W)
      words == {w \in first \div W .. last \div W :
                  above(w) + Cardinality(Within(memory, first, last, w)) >= pos} IN
  IF words = {} THEN (IF first \div W = last \div W THEN last - first ELSE first)
  ELSE LET w == Max(words) IN
       last - (NthOneR(Within(memory, first, last, w), pos - above(w)) + w * W)

\* Stores into a destination [mem, at]: keep what is outside, then or.
Keep(memory, w, kept, word) ==
  (memory \ Place(0 .. W - 1, w)) \cup Place(Word(memory, w) \cap kept, w) \cup Place(word, w)

\* A whole word: its upper part is shifted by the offset instead of by what
\* was left of the word.
copy_word(d, word) ==
  LET off == d.at % W
      w   == d.at \div W
      low == Keep(d.mem, w, 0 .. off - 1, ShiftL(word, off)) IN
  [at |-> d.at + W,
   mem |-> IF off = 0 THEN Keep(d.mem, w, {}, word)
           ELSE Keep(low, w + 1, off .. W - 1, ShiftR(word, off))]

copy_bits(d, word, cnt) ==
  LET off == d.at % W
      w   == d.at \div W
      rem == W - off IN
  CASE cnt = 0 -> d
    [] cnt = W -> copy_word(d, word)
    [] 0 < cnt /\ cnt < W /\ cnt > rem ->
         [at |-> d.at + cnt,
          mem |-> Keep(Keep(d.mem, w, 0 .. off - 1, ShiftL(word, off)),
                       w + 1, cnt - rem .. W - 1, ShiftR(word, rem))]
    [] OTHER ->
         [at |-> d.at + cnt,
          mem |-> Keep(d.mem, w, IF cnt = rem THEN 0 .. off - 1
                                 ELSE Flipped(off .. off + cnt - 1), ShiftL(word, off))]

copy(dst, dst_first, src, first, last) ==
  LET wf == first \div W
      wl == last \div W
      head == ShiftR(Within(src, first, last, wf), first % W)
      start == [mem |-> dst, at |-> dst_first]
      body[w \in wf .. wl] ==
        IF w = wf THEN copy_bits(start, head, IF wf = wl THEN last - first ELSE W - (first % W))
        ELSE IF w < wl THEN copy_word(body[w - 1], Word(src, w))
        ELSE copy_bits(body[w - 1], Within(src, first, last, w), last % W)
  IN body[wl].mem

(***************************************************************************)
(* Programs: a bitset that starts with whatever its memory held.           *)
(***************************************************************************)
Init ==
  /\ n \in Sizes /\ changes = 0
  /\ \E junk \in {{}, 0 .. word_count(n) * W - 1} :
       \/ bset = set_all(junk, n) /\ ref = 0 .. n - 1
       \/ bset = reset_all(junk, n) /\ ref = {}

Ranges == {r \in (0 .. n - 1) \X (1 .. n) : r[1] + r[2] <= n}

\* A range whose first word is mistaken for the tail.
Mistaken(pos) == Long(n) /\ pos % W # 0 /\ pos \div W = mask_value(n)

Change(memory, plain) ==
  changes < MaxChanges /\ changes' = changes + 1 /\ bset' = memory /\ ref' = plain /\ UNCHANGED n

Set(pos, length) ==
  ~Mistaken(pos) /\ Change(set(bset, n, pos, length), ref \cup pos .. pos + length - 1)

Reset(pos, length) ==
  ~Mistaken(pos) /\ Change(reset(bset, n, pos, length), ref \ (pos .. pos + length - 1))

Next == \E r \in Ranges : Set(r[1], r[2]) \/ Reset(r[1], r[2])

Spec == Init /\ [][Next]_bitVars

(***************************************************************************)
(* Properties.                                                             *)
(***************************************************************************)
FreeAt(pos, length) == pos + length <= n /\ pos .. pos + length - 1 \cap ref = {}

\* Whatever lies beyond the last bit, counting, scanning and the search for
\* a free range see the bits that were set and no others; a traversal must
\* not begin in the tail, a search begins at the start of a word, and
\* find_zero_range_best keeps within one word (bitset.hpp).
BitsetAgrees ==
  /\ \A pos \in 0 .. n - 1 : test(bset, pos) = (pos \in ref)
  /\ count(bset, n) = Cardinality(ref)
  /\ \A first \in 0 .. n - 1 :
       /\ find_first_one(bset, n, first) = Min({b \in ref : b >= first} \cup {n})
       /\ find_first_zero(bset, n, first) = Min({b \in 0 .. n - 1 \ ref : b >= first} \cup {n})
       /\ first < full_word_count(n) * W =>
            for_each_one(bset, n, first) = Sorted({b \in ref : b >= first})
  /\ \A first \in {f \in 0 .. n - 1 : f % W = 0} : \A length \in 1 .. n :
       /\ find_zero_range_first(bset, n, first, length) =
            Min({p \in first .. n - 1 : FreeAt(p, length)} \cup {n})
       /\ Long(n) \/ find_zero_range_best(bset, n, first, length) = n
                  \/ FreeAt(find_zero_range_best(bset, n, first, length), length)

\* Bits are counted and selected across words, and a copy to any place
\* changes exactly its range, unless a whole word goes to the middle of one
\* (bitmap.hpp).
BitmapAgrees ==
  \A first, last \in 0 .. n - 1 : first <= last =>
    LET ones == {b \in ref : first <= b /\ b < last} IN
    /\ count_ones(bset, first, last) = Cardinality(ones)
    /\ \A k \in 1 .. Cardinality(ones) :
         /\ first + find_nth_one(bset, k, first, last) = Sorted(ones)[k]
         /\ last - find_nth_one_r(bset, k, first, last) = Sorted(ones)[Cardinality(ones) - k + 1]
    /\ \A at \in 0 .. W : \A dst \in {{}, 0 .. 2 * n + W} :
         \/ at % W # first % W /\ \E w \in 0 .. n : first <= w * W /\ (w + 1) * W <= last
         \/ copy(dst, at, bset, first, last) =
              (dst \ (at .. at + last - first - 1)) \cup {b - first + at : b \in ones}
=============================================================================
