-------------------------------- MODULE Ranges ------------------------------
(***************************************************************************)
(* The iterators of yesod.old over composed sequences - seq_range, a       *)
(* sequence of sequences, and joined_range, several ranges one after       *)
(* another - the operators that facade derives from their primitives, the  *)
(* window sub_range over a fixed store, and the output iterator            *)
(* range_fill.  An item is its position in the whole sequence.             *)
(***************************************************************************)
EXTENDS Integers, Sequences, FiniteSetsExt, SequencesExt

CONSTANTS MaxChunk, MaxChunks, Capacity, MaxMoves

VARIABLES chunks,     \* the lengths of the parts
          at,         \* the plain position of the cursors
          si, ji,     \* the cursor of a seq_range and of a joined_range
          sub,        \* a sub_range: its store and its limits
          fill,       \* a truncating and a circular range_fill over the same store
          moves

rangeVars == <<chunks, at, si, ji, sub, fill, moves>>

Sum(s) == FoldLeft(+, 0, s)
Before(c) == Sum(SubSeq(chunks, 1, c - 1))
size == Sum(chunks)
parts == Len(chunks)

(***************************************************************************)
(* seq_range: a part and a place in it; at the end there is no part.       *)
(***************************************************************************)
seq_begin == [c |-> 1, n |-> 0]
seq_end   == [c |-> parts + 1, n |-> 0]

seq_equal(a, b) == a.c = b.c /\ (a.n = b.n \/ a.c = parts + 1)

RECURSIVE SkipEmpty(_)
SkipEmpty(i) ==
  IF i.c = parts + 1 \/ i.n # chunks[i.c] THEN i ELSE SkipEmpty([c |-> i.c + 1, n |-> 0])

seq_increment(i) == SkipEmpty([i EXCEPT !.n = @ + 1])

RECURSIVE BackOver(_)
BackOver(i) ==
  IF i.n # 0 THEN [i EXCEPT !.n = @ - 1]
  ELSE IF i.c = 1 THEN i
  ELSE BackOver([c |-> i.c - 1, n |-> chunks[i.c - 1]])

seq_decrement(i) ==
  BackOver(IF i.c = parts + 1 THEN [c |-> parts, n |-> chunks[parts]] ELSE i)

RECURSIVE advance_back(_, _)
advance_back(i, n) ==
  IF i.n > n THEN [i EXCEPT !.n = @ - n]
  ELSE IF i.c = 1 THEN seq_begin
  ELSE advance_back([c |-> i.c - 1, n |-> chunks[i.c - 1]], n - i.n)

RECURSIVE seq_advance_Strict(_, _)
seq_advance_Strict(i, n) ==
  LET d == chunks[i.c] - i.n IN
  IF n < 0 THEN advance_back(i, -n)
  ELSE IF d >= n THEN [i EXCEPT !.n = @ + n]
  ELSE IF i.c = parts THEN seq_end
  ELSE seq_advance_Strict([c |-> i.c + 1, n |-> 0], n - d)

RECURSIVE seq_advance(_, _)
seq_advance(i, n) ==
  LET d == chunks[i.c] - i.n IN
  IF n < 0 THEN advance_back(i, -n)
  ELSE IF d > n THEN [i EXCEPT !.n = @ + n]
  ELSE IF i.c = parts THEN seq_end
  ELSE seq_advance([c |-> i.c + 1, n |-> 0], n - d)

RECURSIVE seq_distance_to(_, _)
seq_distance_to(a, b) ==
  IF a.c = b.c THEN b.n - a.n
  ELSE IF a.c > b.c THEN -seq_distance_to(b, a)
  ELSE (chunks[a.c] - a.n) + Sum(SubSeq(chunks, a.c + 1, b.c - 1)) + b.n

seq_dereference(i) == Before(i.c) + i.n

(***************************************************************************)
(* joined_range: every slice moves its own iterator and says when it has   *)
(* reached an end; the cursor then enters the next slice.                  *)
(***************************************************************************)
get_first(s) == [s |-> s, p |-> 0]
get_last(s)  == [s |-> s, p |-> chunks[s] - 1]
Exhausted(i) == i.s > parts

joined_equal(a, b) == a.s = b.s /\ (Exhausted(a) \/ a.p = b.p)

joined_increment(i) ==
  IF Exhausted(i) THEN i
  ELSE IF i.p + 1 = chunks[i.s] THEN get_first(i.s + 1)
  ELSE [i EXCEPT !.p = @ + 1]

joined_decrement(i) ==
  IF Exhausted(i) THEN i
  ELSE IF i.p > 0 THEN [i EXCEPT !.p = @ - 1]
  ELSE IF i.s > 1 THEN get_last(i.s - 1)
  ELSE i

\* slice::advance: as far as the slice goes, what is left, and whether an
\* end of the slice was reached.
slice_advance(i, n) ==
  LET step == IF n >= 0 THEN Min({n, chunks[i.s] - i.p}) ELSE Max({n, -i.p})
      p == i.p + step IN
  [p |-> p, n |-> n - step,
   carry |-> IF n >= 0 THEN (IF p = chunks[i.s] THEN 1 ELSE 0)
                       ELSE (IF p = 0 THEN -1 ELSE 0)]

RECURSIVE joined_advance(_, _)
joined_advance(i, n) ==
  LET m == slice_advance(i, n)
      next == IF m.n > 0 \/ m.carry > 0 THEN get_first(i.s + 1)
              ELSE IF (m.n < 0 \/ m.carry < 0) /\ i.s > 1 THEN get_last(i.s - 1)
              ELSE [i EXCEPT !.p = m.p] IN
  IF m.n = 0 THEN next ELSE joined_advance(next, m.n)

location(i) == IF Exhausted(i) THEN <<0, 0>> ELSE <<i.p, chunks[i.s] - i.p>>

joined_distance_to(a, b) ==
  IF a.s = b.s THEN b.p - a.p
  ELSE IF b.s > a.s
       THEN Sum(SubSeq(chunks, a.s + 1, b.s - 1)) + location(b)[1] + location(a)[2]
       ELSE -Sum(SubSeq(chunks, b.s + 1, a.s - 1)) - location(b)[2] - location(a)[1]

joined_dereference(i) == Before(i.s) + i.p

(***************************************************************************)
(* facade: the operators, over the primitives of a kind of iterator.       *)
(***************************************************************************)
increment(k, i) == IF k = "seq" THEN seq_increment(i) ELSE joined_increment(i)
decrement(k, i) == IF k = "seq" THEN seq_decrement(i) ELSE joined_decrement(i)
advance(k, i, n) == IF k = "seq" THEN seq_advance(i, n) ELSE joined_advance(i, n)
equal(k, a, b)  == IF k = "seq" THEN seq_equal(a, b) ELSE joined_equal(a, b)
dereference(k, i) == IF k = "seq" THEN seq_dereference(i) ELSE joined_dereference(i)
distance_to(k, a, b) == IF k = "seq" THEN seq_distance_to(a, b) ELSE joined_distance_to(a, b)

distance_from(k, a, b) == -distance_to(k, a, b)

less(k, a, b)          == 0 > distance_from(k, a, b)
greater(k, a, b)       == 0 < distance_from(k, a, b)
less_equal(k, a, b)    == 0 >= distance_from(k, a, b)
greater_equal(k, a, b) == 0 <= distance_from(k, a, b)
minus(k, a, b)         == distance_from(k, a, b)

add_assign(k, i, n) == advance(k, i, n)
sub_assign(k, i, n) == advance(k, i, -n)
brackets(k, i, n)   == dereference(k, add_assign(k, i, n))
\* The proxy of the postfix increment keeps the value of the old place.
postfix_increment(k, i) == [stored |-> dereference(k, i), iter |-> increment(k, i)]

\* transform applies a function to what its base refers to.
f(v) == 10 * v + 1
transform(k, i) == f(dereference(k, i))

(***************************************************************************)
(* sub_range and range_fill.                                               *)
(***************************************************************************)
push_back(r, v) ==
  IF r.upper = Capacity THEN r
  ELSE [r EXCEPT !.upper = @ + 1, !.store = [@ EXCEPT ![r.upper + 1] = v]]

pop_back(r) == IF r.upper = 0 THEN r ELSE [r EXCEPT !.upper = @ - 1]

\* A truncating range_fill stops at the end, a circular one starts again.
fill_advance(pos, circular) ==
  LET p == IF pos < Capacity THEN pos + 1 ELSE pos IN
  IF circular /\ p = Capacity THEN 0 ELSE p

fill_put(w, v) ==
  [w EXCEPT !.store = IF ~w.circular /\ w.pos = Capacity THEN @ ELSE [@ EXCEPT ![w.pos + 1] = v],
            !.pos = fill_advance(w.pos, w.circular),
            !.dist_count = @ + 1]

(***************************************************************************)
(* Programs.  The first part is not empty, and no part of a joined_range   *)
(* is.                                                                     *)
(***************************************************************************)
Plain == \A c \in 1 .. parts : chunks[c] > 0

Init ==
  /\ \E k \in 1 .. MaxChunks : chunks \in {q \in [1 .. k -> 0 .. MaxChunk] : q[1] > 0}
  /\ at = 0 /\ si = seq_begin /\ ji = get_first(1)
  /\ sub = [store |-> [i \in 1 .. Capacity |-> -1], upper |-> 0]
  /\ fill \in [store : {[i \in 1 .. Capacity |-> -1]}, pos : {0}, circular : BOOLEAN,
               dist_count : {0}, pushed : {<<>>}]
  /\ moves = 0

Moves == moves < MaxMoves /\ moves' = moves + 1 /\ UNCHANGED <<chunks, sub, fill>>

Forward ==
  /\ Moves /\ at < size /\ at' = at + 1
  /\ si' = increment("seq", si)
  /\ ji' = IF Plain THEN increment("joined", ji) ELSE ji

\* A joined_range does not come back from its end.
Backward ==
  /\ Moves /\ at > 0 /\ at' = at - 1
  /\ Plain => at < size
  /\ si' = decrement("seq", si)
  /\ ji' = IF Plain THEN decrement("joined", ji) ELSE ji

\* Neither leaves its end by a jump; a jump back must stay inside a part.
JumpsWell(n) ==
  /\ at < size /\ at + n \in 0 .. size
  /\ n < 0 => at + n > Before(si.c) \/ (at + n = 0 /\ si.c = 1)

Jump(n) ==
  /\ Moves /\ JumpsWell(n) /\ at' = at + n
  /\ si' = add_assign("seq", si, n)
  /\ ji' = IF Plain THEN sub_assign("joined", ji, -n) ELSE ji

Push(v) ==
  /\ moves < MaxMoves /\ moves' = moves + 1
  /\ sub' = push_back(sub, v)
  /\ fill' = [fill_put(fill, v) EXCEPT !.pushed = Append(@, v)]
  /\ UNCHANGED <<chunks, at, si, ji>>

Pop ==
  /\ moves < MaxMoves /\ moves' = moves + 1
  /\ sub' = pop_back(sub)
  /\ UNCHANGED <<chunks, at, si, ji, fill>>

Next ==
  \/ Forward \/ Backward \/ Pop
  \/ \E n \in -size .. size : Jump(n)
  \/ Push(moves)

Spec == Init /\ [][Next]_rangeVars

(***************************************************************************)
(* Properties.                                                             *)
(***************************************************************************)
\* The iterators of the other positions, found by single steps.
RECURSIVE From(_, _, _)
From(k, i, n) == IF n = 0 THEN i ELSE From(k, increment(k, i), n - 1)

Sound(k, i, first) ==
  /\ at < size => dereference(k, i) = at /\ transform(k, i) = f(at)
                  /\ postfix_increment(k, i).stored = at
  /\ \A b \in 0 .. size : LET j == From(k, first, b) IN
       /\ equal(k, i, j) = (at = b)
       /\ (k = "seq" => at < size /\ b < size) /\ ~(k = "joined" /\ at = size /\ b = size) =>
            /\ minus(k, i, j) = at - b
            /\ less(k, i, j) = (at < b) /\ greater(k, i, j) = (at > b)
            /\ less_equal(k, i, j) = (at <= b) /\ greater_equal(k, i, j) = (at >= b)
       /\ at < size /\ at <= b /\ b < size => brackets(k, i, b - at) = b

\* After any walk - single steps, jumps, across empty parts - a cursor over
\* a composed sequence refers to the item of its plain position, and its
\* order, its differences and its equality are those of positions, also
\* against iterators that came another way (seq_range.hpp, joined_range.hpp,
\* facade.hpp).
CursorsAgree ==
  /\ Sound("seq", si, seq_begin)
  /\ Plain => Sound("joined", ji, get_first(1))

\* However many items are pushed, a sub_range and a truncating range_fill
\* keep the first that fit and a circular one keeps the latest
\* (sub_range.hpp, range_fill.hpp).
StoresBounded ==
  LET n == fill.dist_count IN
  /\ sub.upper <= Capacity
  /\ \A i \in 1 .. sub.upper : sub.store[i] >= 0 /\ (i > 1 => sub.store[i - 1] < sub.store[i])
  /\ IF fill.circular
     THEN \A k \in Max({1, n - Capacity + 1}) .. n :
            fill.store[((k - 1) % Capacity) + 1] = fill.pushed[k]
     ELSE \A k \in 1 .. Min({n, Capacity}) : fill.store[k] = fill.pushed[k]
=============================================================================
