--------------------------------- MODULE Mbp --------------------------------
(***************************************************************************)
(* mina's binary packing.  A field is a header byte, which tells whether   *)
(* its numbers are signed, unsigned or floating point, how wide they are   *)
(* and how many there are, and their bytes, least significant first.       *)
(* Integers are written in the least width that holds them, and may be     *)
(* read into a wider type.  A message is fields, tuples and bytes to skip. *)
(* The numbers of a floating point field are its storage, taken as it is.  *)
(* The widths above 32 bits have their codes here, but no values.          *)
(***************************************************************************)
EXTENDS Integers, Sequences, SequencesExt

CONSTANTS Fields,     \* the fields that are packed
          MaxFields,
          MaxMarks    \* tuple marks and skipped bytes in a message

VARIABLES buf,        \* the bytes
          log         \* what was packed: fields and marks

vars == <<buf, log>>

\* scalar_rank: 0 for five bits, then a byte and its doublings; -1 is ie.
order == <<5, 8, 16, 32, 64, 128>>
Bytes(s_rank) == order[s_rank + 1] \div 8

n_signed == 0
n_unsigned == 1
n_float == 2

small_int_code_offset  == 16
small_uint_code_offset == 48
tuple_start_code == 80
byte_skip_code   == 96
tuple_end_code   == 112

\* list_code[n_rank][l_rank][s_rank - 1].
list_code(n_rank, l_rank, s_rank) ==
  IF l_rank = 0 THEN 224 + 8 * n_rank - 24 * (s_rank - 1)
  ELSE (128 - 16 * l_rank) + 13 - 3 * (s_rank - 1) + n_rank

Invalid == [n |-> -1, l |-> -1, s |-> -1]

\* The table of field_class::from_header; the three marks and the bytes no
\* code uses are invalid.
from_header(h) ==
  LET q == IF h >= 128 THEN (h - 128) \div 8 ELSE (h % 16) - 1
      number == [n |-> q % 3, l |-> IF h >= 128 THEN 0 ELSE 8 - h \div 16, s |-> 5 - q \div 3]
  IN  IF h \in small_int_code_offset..(small_uint_code_offset - 1)
      THEN [n |-> n_signed, l |-> 0, s |-> 0]
      ELSE IF h \in small_uint_code_offset..(tuple_start_code - 1)
      THEN [n |-> n_unsigned, l |-> 0, s |-> 0]
      ELSE IF h < small_int_code_offset \/ q \notin 0..14 THEN Invalid ELSE number

-----------------------------------------------------------------------------
(* Packing.                                                                *)
-----------------------------------------------------------------------------

\* The least significant count bytes of v, in two's complement.
pack_integral(v, count) == [i \in 1..count |-> (v \div 256^(i - 1)) % 256]

\* v fits the type of rank s_rank.
Fits(n_rank, v, s_rank) ==
  LET max_val == 2^order[s_rank + 1]
  IN  IF n_rank = n_signed THEN -1 - max_val \div 2 < v /\ v < max_val \div 2
      ELSE v < max_val

\* scalar_rank::from_value: down from the type while the next one holds v.
RECURSIVE from_value(_, _, _)
from_value(n_rank, v, s_rank) ==
  IF s_rank > 0 /\ Fits(n_rank, v, s_rank - 1) THEN from_value(n_rank, v, s_rank - 1) ELSE s_rank

from_size(count) == IF count <= 8 THEN 0 ELSE IF count <= 256 THEN 1
                    ELSE IF count <= 65536 THEN 2 ELSE 3

PackScalar(f) ==
  LET v == f.v[1]
      s_rank == IF f.n = n_float THEN f.s ELSE from_value(f.n, v, f.s)
  IN  IF s_rank > 0 THEN <<list_code(f.n, 0, s_rank)>> \o pack_integral(v, Bytes(s_rank))
      ELSE <<(v % 32) + (IF f.n = n_signed THEN small_int_code_offset
                         ELSE small_uint_code_offset)>>

\* A sequence keeps the width of its type; an empty one is not written.
PackSequence(f) ==
  LET sz == Len(f.v)
      w == Bytes(f.s)
      l_rank == from_size(sz)
      head == IF l_rank > 0 THEN <<list_code(f.n, l_rank, f.s)>> \o pack_integral(sz - 1, l_rank)
              ELSE <<list_code(f.n, 0, f.s) + sz - 1>>
  IN  IF sz = 0 THEN <<>>
      ELSE head \o [i \in 1..(sz * w) |-> pack_integral(f.v[(i - 1) \div w + 1], w)[((i - 1) % w) + 1]]

pack(f) == IF f.seq THEN PackSequence(f) ELSE PackScalar(f)

-----------------------------------------------------------------------------
(* Unpacking a field of the type the caller asks for.  first is a position *)
(* of the bytes b, one after the last at the end.                          *)
-----------------------------------------------------------------------------

No(first) == [ok |-> FALSE, first |-> first, v |-> <<>>]

\* Past the bytes to skip.  A position at the end is refused only after one
\* of them was there.
RECURSIVE advance_skip(_, _)
advance_skip(b, first) ==
  IF first <= Len(b) /\ b[first] = byte_skip_code THEN advance_skip(b, first + 1) ELSE first

\* Two's complement with the sign of the last byte, which a wider type repeats.
unpack_integral(signed, b) ==
  LET n == Len(b)
      top == IF signed /\ b[n] >= 128 THEN b[n] - 256 ELSE b[n]
  IN  FoldLeft(LAMBDA v, i : v * 256 + b[n - i], top, [i \in 1..(n - 1) |-> i])

\* The numbers of s_rank bytes from first on.
Numbers(b, first, n_rank, s_rank, count) ==
  [i \in 1..count |->
     unpack_integral(n_rank = n_signed,
                     SubSeq(b, first + (i - 1) * Bytes(s_rank), first + i * Bytes(s_rank) - 1))]

\* The header suits the type.  A floating point header passes for unsigned.
Suits(c, n_rank, s_rank) ==
  IF n_rank = n_float THEN c.n = n_float /\ c.s = s_rank
  ELSE (c.n = n_signed) = (n_rank = n_signed) /\ s_rank >= c.s

\* Unsigned numbers of five bits come back with their highest bit changed.
Small(n_rank, xv) ==
  IF n_rank = n_signed THEN (xv % 32) - small_int_code_offset ELSE xv % 32

UnpackScalar(b, from, n_rank, s_rank) ==
  LET first == advance_skip(b, from)
      xv == b[first]
      c == from_header(xv)
      to == first + 1 + Bytes(c.s)
  IN  IF first > Len(b) THEN No(first)
      ELSE IF ~Suits(c, n_rank, s_rank) \/ c.l # 0 THEN No(first)
      ELSE IF c.s = 0 THEN [ok |-> TRUE, first |-> first + 1, v |-> <<Small(n_rank, xv)>>]
      ELSE IF xv % 8 # 0 \/ to > Len(b) + 1 THEN No(first)
      ELSE [ok |-> TRUE, first |-> to, v |-> Numbers(b, first + 1, n_rank, c.s, 1)]

\* The count of a sequence, and where its numbers begin.
CountOf(b, first, c) ==
  IF c.l = 0 THEN [n |-> (b[first] % 8) + 1, at |-> first + 1]
  ELSE IF first + c.l > Len(b) THEN [n |-> 0, at |-> first]
  ELSE [n |-> unpack_integral(FALSE, SubSeq(b, first + 1, first + c.l)) + 1, at |-> first + 1 + c.l]

\* A single small integer passes for a sequence.
UnpackSequence(b, from, n_rank, s_rank) ==
  LET first == advance_skip(b, from)
      c == from_header(b[first])
      count == CountOf(b, first, c)
      to == count.at + count.n * Bytes(c.s)
  IN  IF first > Len(b) THEN No(first)
      ELSE IF ~Suits(c, n_rank, s_rank) \/ c.l = -1 THEN No(first)
      ELSE IF c.s = 0
      THEN [ok |-> TRUE, first |-> first + 1,
            v |-> <<(b[first] % 32) - small_int_code_offset>>]
      ELSE IF count.n = 0 \/ to > Len(b) + 1 THEN No(first)
      ELSE [ok |-> TRUE, first |-> to, v |-> Numbers(b, count.at, n_rank, c.s, count.n)]

unpack(b, from, f) ==
  IF f.seq THEN UnpackSequence(b, from, f.n, f.s) ELSE UnpackScalar(b, from, f.n, f.s)

-----------------------------------------------------------------------------
(* Expanding: every item of a message is shown to a visitor, with the type *)
(* its header says.                                                        *)
-----------------------------------------------------------------------------

\* The numbers, shown with the type of the header: one at a time or a list.
expand_apply(b, at, c, count) == <<[n |-> c.n, v |-> Numbers(b, at, c.n, c.s, count)]>>

ExpandField(b, first) ==
  LET xv == b[first]
      c == from_header(xv)
      count == CountOf(b, first, c)
      to == count.at + count.n * Bytes(c.s)
      n_rank == IF xv < small_uint_code_offset THEN n_signed ELSE n_unsigned
  IN  IF c = Invalid THEN No(first)
      ELSE IF c.s = 0
      THEN [ok |-> TRUE, first |-> first + 1, v |-> <<[n |-> n_rank, v |-> <<Small(n_rank, xv)>>]>>]
      ELSE IF count.n = 0 \/ to > Len(b) + 1 THEN No(first)
      ELSE [ok |-> TRUE, first |-> to, v |-> expand_apply(b, count.at, c, count.n)]

\* What the visitor has seen at the end, and whether the message was sound.
RECURSIVE Expand(_, _, _, _)
Expand(b, from, t_level, seen) ==
  LET first == advance_skip(b, from)
      x == ExpandField(b, first)
  IN  IF first > Len(b) THEN [ok |-> t_level = 0, seen |-> seen]
      ELSE IF b[first] = tuple_start_code
      THEN Expand(b, first + 1, t_level + 1, Append(seen, [mark |-> "start", level |-> t_level + 1]))
      ELSE IF b[first] = tuple_end_code
      THEN IF t_level = 0 THEN [ok |-> FALSE, seen |-> seen]
           ELSE Expand(b, first + 1, t_level - 1, Append(seen, [mark |-> "end", level |-> t_level]))
      ELSE IF ~x.ok THEN [ok |-> FALSE, seen |-> seen]
      ELSE Expand(b, x.first, t_level, seen \o x.v)

-----------------------------------------------------------------------------

IsField(x) == "n" \in DOMAIN x
FieldCount == Len(SelectSeq(log, IsField))
MarkCount == Len(log) - FieldCount

Init == buf = <<>> /\ log = <<>>

Pack(f) ==
  /\ FieldCount < MaxFields
  /\ buf' = buf \o pack(f)
  /\ log' = Append(log, f)

Mark(code, name) ==
  /\ MarkCount < MaxMarks
  /\ buf' = Append(buf, code)
  /\ log' = Append(log, [mark |-> name])

pack_tuple_start == Mark(tuple_start_code, "start")
pack_tuple_end   == Mark(tuple_end_code, "end")

\* Padding by whoever sends the message.
Pad == Mark(byte_skip_code, "skip")

Next ==
  \/ \E f \in Fields : Pack(f)
  \/ pack_tuple_start \/ pack_tuple_end \/ Pad

Spec == Init /\ [][Next]_vars

-----------------------------------------------------------------------------

\* What was packed and can be read: an empty sequence left nothing behind.
Written == SelectSeq(log, LAMBDA x : IsField(x) => x.v # <<>>)

\* The fields that unpack reads wrongly: unsigned numbers of five bits.
Twisted(f) == IsField(f) /\ ~f.seq /\ f.n = n_unsigned /\ f.v[1] < 32

\* The message is read by the types its items have: a mark by unpack_tuple.
RECURSIVE ReadAll(_, _, _)
ReadAll(b, from, items) ==
  LET first == advance_skip(b, from)
      x == Head(items)
      r == unpack(b, from, x)
      mark == IF x.mark = "start" THEN tuple_start_code ELSE tuple_end_code
  IN  IF items = <<>> THEN TRUE
      ELSE IF IsField(x)
      THEN r.ok /\ (r.v = x.v \/ Twisted(x)) /\ ReadAll(b, r.first, Tail(items))
      ELSE first <= Len(b) /\ b[first] = mark /\ ReadAll(b, first + 1, Tail(items))

NoSkips == SelectSeq(Written, LAMBDA x : IsField(x) \/ x.mark # "skip")

\* The level of tuples after each item; a message is closed when it ends at
\* zero and never fell below.
Levels == [i \in 0..Len(log) |->
             FoldLeft(LAMBDA n, x : IF IsField(x) \/ x.mark = "skip" THEN n
                                    ELSE IF x.mark = "start" THEN n + 1 ELSE n - 1,
                      0, SubSeq(log, 1, i))]
Closed == Levels[Len(log)] = 0 /\ \A i \in 0..Len(log) : Levels[i] >= 0

\* The numbers of the message, in order.
Shown(s) == FoldLeft(LAMBDA t, x : IF IsField(x) THEN t \o x.v ELSE t, <<>>, s)

\* A value read into a wider type of its kind.
Wider(f) == IF f.n # n_float /\ f.s < 3 THEN [f EXCEPT !.s = @ + 1] ELSE f

\* Places to cut a field that starts after start: all but the middle of a
\* long one.
Cuts(start) == {cut \in start..(Len(buf) - 1) : cut < start + 6 \/ cut > Len(buf) - 4}

(***************************************************************************)
(* A message reads back as what was packed, also into wider types, through *)
(* tuples and padding, but for unsigned numbers below 32; no field can be  *)
(* read from a message cut inside it; and expand shows the same numbers in *)
(* the same order, and accepts exactly the messages whose tuples close.    *)
(***************************************************************************)
MessagesReadBack ==
  LET e == Expand(buf, 1, 0, <<>>)
      items == NoSkips
      last == log[Len(log)]
      start == Len(buf) - Len(pack(last))
  IN  /\ ReadAll(buf, 1, items)
      /\ ReadAll(buf, 1, [i \in DOMAIN items |-> IF IsField(items[i]) THEN Wider(items[i])
                                                 ELSE items[i]])
      /\ log # <<>> /\ IsField(last) /\ last.v # <<>> =>
           \A cut \in Cuts(start) :
             ~unpack(SubSeq(buf, 1, cut), start + 1, last).ok
      /\ e.ok = Closed
      /\ e.ok /\ (\A i \in 1..Len(log) : ~Twisted(log[i])) => Shown(e.seen) = Shown(Written)

(***************************************************************************)
(* What test/mbp.cpp checks on its values: everything packed unpacks as    *)
(* itself, an unsigned short included.                                     *)
(***************************************************************************)
UnsignedReadBack ==
  \A i \in 1..Len(log) :
    Len(log) = 1 /\ Twisted(log[i]) => unpack(buf, 1, log[i]).v = log[i].v
=============================================================================
