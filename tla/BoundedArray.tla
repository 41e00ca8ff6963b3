---------------------------- MODULE BoundedArray ----------------------------
(***************************************************************************)
(* pardes: restricted_array, a vector in place with a fixed capacity, and  *)
(* ordered_array, which keeps one sorted.  A cell of the array holds a     *)
(* value or is Raw: nothing has been constructed there.                    *)
(***************************************************************************)
EXTENDS Integers, Sequences, SequencesExt, FiniteSetsExt

CONSTANTS capacity, ArrayValues, Raw, MaxChanges

VARIABLES ordered,     \* the array is the one of an ordered_array
          data, valid_size,
          ref,         \* the items it should hold; Unknown after an erase
                       \* that moves items onto each other
          good,        \* no cell was constructed twice or used raw
          changes

vars == <<ordered, data, valid_size, ref, good, changes>>

Unknown == <<Raw>>
Items(d, size) == [i \in 1..size |-> d[i]]

\* One operation at work: the cells and whether they were used well.
\* construct makes an object in a raw cell, assign needs one there.
construct(m, at, v) == [d |-> [m.d EXCEPT ![at] = v], good |-> m.good /\ m.d[at] = Raw /\ v # Raw]
assign(m, at, v)    == [d |-> [m.d EXCEPT ![at] = v], good |-> m.good /\ m.d[at] # Raw /\ v # Raw]
Destroyed(m, cells) ==
  [d |-> [i \in DOMAIN m.d |-> IF i \in cells THEN Raw ELSE m.d[i]],
   good |-> m.good /\ \A i \in cells : m.d[i] # Raw]

Steps(n) == [i \in 1..n |-> i]

\* std::uninitialized_copy of the values vs to the cells from at on.
uninitialized_copy(m, vs, at) == FoldLeft(LAMBDA x, i : construct(x, at + i - 1, vs[i]), m, Steps(Len(vs)))
copy(m, vs, at) == FoldLeft(LAMBDA x, i : assign(x, at + i - 1, vs[i]), m, Steps(Len(vs)))

\* std::move_backward of the cells first..last to those that end at to.
move_backward(m, first, last, to) ==
  FoldLeft(LAMBDA x, i : assign(x, to + 1 - i, x.d[last + 1 - i]), m, Steps(last + 1 - first))

end == valid_size + 1
Cells == [d |-> data, good |-> good]

-----------------------------------------------------------------------------

\* capacity_check throws before anything is changed.
Fits(n) == valid_size + n <= capacity

\* Room is made before the value is stored: a value of the array itself that
\* stands at or after pos is read where its neighbour has moved.
Shifted(m, pos) == move_backward(construct(m, end, m.d[end - 1]), pos, end - 2, end - 1)

insert(pos, v) == IF pos = end THEN construct(Cells, end, v) ELSE assign(Shifted(Cells, pos), pos, v)

insert_self(pos, i) ==
  IF pos = end THEN construct(Cells, end, data[i])
  ELSE LET m == Shifted(Cells, pos) IN assign(m, pos, m.d[i])

emplace(pos, v) ==
  IF pos = end THEN construct(Cells, end, v)
  ELSE construct(Destroyed(Shifted(Cells, pos), {pos}), pos, v)

insert_range(pos, vs) ==
  LET n == Len(vs)
      m == end - pos
      k == Min({m, n})
      tail == SubSeq(data, end - k, end - 1)
      grown == uninitialized_copy(Cells, tail, end + n - k)
  IN  IF pos = end THEN uninitialized_copy(Cells, vs, end)
      ELSE IF n > m
      THEN uninitialized_copy(copy(grown, SubSeq(vs, 1, k), pos), SubSeq(vs, k + 1, n), end)
      ELSE copy(move_backward(grown, pos, end - 1 - k, end - 1), vs, pos)

\* The items after the erased ones are moved from the last one on, to places
\* that may still be waiting to be moved.
erase(first, last) ==
  LET d == end - (last - first)
  IN  Destroyed(move_backward(Cells, last, end - 1, d - 1), d..(end - 1))

-----------------------------------------------------------------------------

\* ordered_array: the places of v.
lower_bound(v) == Min({i \in 1..valid_size : data[i] >= v} \cup {end})
upper_bound(v) == Min({i \in 1..valid_size : data[i] > v} \cup {end})
equal_range(v) == <<lower_bound(v), upper_bound(v)>>
find(v) == LET pos == lower_bound(v) IN IF pos # end /\ data[pos] = v THEN pos ELSE end
count(v) == upper_bound(v) - lower_bound(v)

-----------------------------------------------------------------------------

Init ==
  /\ ordered \in BOOLEAN
  /\ data = [i \in 1..capacity |-> Raw] /\ valid_size = 0 /\ ref = <<>> /\ good = TRUE
  /\ changes = 0

Change(m, size, comps) ==
  /\ changes < MaxChanges /\ changes' = changes + 1
  /\ data' = m.d /\ good' = m.good /\ valid_size' = size
  /\ ref' = IF ref = Unknown THEN Unknown ELSE comps
  /\ UNCHANGED ordered

With(pos, vs) == SubSeq(ref, 1, pos - 1) \o vs \o SubSeq(ref, pos, Len(ref))

Insert(pos, v)  == Fits(1) /\ Change(insert(pos, v), valid_size + 1, With(pos, <<v>>))
Emplace(pos, v) == Fits(1) /\ Change(emplace(pos, v), valid_size + 1, With(pos, <<v>>))
append(v)       == Fits(1) /\ Change(construct(Cells, end, v), valid_size + 1, Append(ref, v))

InsertSelf(pos, i) ==
  Fits(1) /\ Change(insert_self(pos, i), valid_size + 1,
                    IF i > pos THEN With(pos, <<data[i - 1]>>) ELSE With(pos, <<data[i]>>))

InsertRange(pos, vs) == Fits(Len(vs)) /\ Change(insert_range(pos, vs), valid_size + Len(vs), With(pos, vs))

\* The items behind the gap are more than it is wide.
Overlap(first, last) == end - last > last - first

Erase(first, last) ==
  first < last /\ Change(erase(first, last), valid_size - (last - first),
                         IF Overlap(first, last) THEN Unknown
                         ELSE SubSeq(ref, 1, first - 1) \o SubSeq(ref, last, Len(ref)))

pop_back == valid_size > 0 /\ Change(Destroyed(Cells, {valid_size}), valid_size - 1, Front(ref))

clear ==
  /\ changes < MaxChanges /\ changes' = changes + 1
  /\ LET m == Destroyed(Cells, 1..valid_size) IN data' = m.d /\ good' = m.good
  /\ valid_size' = 0 /\ ref' = <<>> /\ UNCHANGED ordered

\* Insertions of an ordered_array, and erasure of all that equal v.
InsertOrdered(v) == Insert(upper_bound(v), v)
EraseValue(v) == count(v) > 0 /\ Erase(lower_bound(v), upper_bound(v))

Next ==
  \/ ~ordered /\ \E pos \in 1..end, v \in ArrayValues :
       \/ Insert(pos, v) \/ Emplace(pos, v)
       \/ \E w \in ArrayValues, n \in 0..3 : InsertRange(pos, SubSeq(<<v, w, v>>, 1, n))
       \/ \E i \in 1..valid_size : InsertSelf(pos, i)
  \/ ~ordered /\ \E v \in ArrayValues : append(v)
  \/ ~ordered /\ pop_back
  \/ ordered /\ \E v \in ArrayValues : InsertOrdered(v) \/ EraseValue(v)
  \/ \E first, last \in 1..end : Erase(first, last)
  \/ clear

Spec == Init /\ [][Next]_vars

-----------------------------------------------------------------------------

(***************************************************************************)
(* Exactly the first valid_size cells hold objects, each constructed once  *)
(* and destroyed once; they are the items the operations put there, but    *)
(* for erasures that leave more items behind the gap than it is wide; and  *)
(* an ordered_array is sorted even after those, and finds what it holds.   *)
(***************************************************************************)
ItemsInPlace ==
  /\ good
  /\ \A i \in 1..capacity : (data[i] # Raw) = (i <= valid_size)
  /\ ref # Unknown => Items(data, valid_size) = ref
  /\ ordered =>
       /\ \A i \in 1..(valid_size - 1) : data[i] <= data[i + 1]
       /\ \A v \in ArrayValues :
            LET places == {i \in 1..valid_size : data[i] = v}
            IN  /\ find(v) = Min(places \cup {end})
                /\ places = equal_range(v)[1]..(equal_range(v)[2] - 1)
=============================================================================
