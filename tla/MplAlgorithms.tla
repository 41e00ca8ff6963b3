--------------------------- MODULE MplAlgorithms ----------------------------
(***************************************************************************)
(* The algorithms and views of yesod.old/yesod/mpl over the sequences of   *)
(* MplSequences.  An iterator of a sequence is a position 0 .. size; a     *)
(* view is the sequence of items a walk over it dereferences.  Most        *)
(* algorithms exist twice, forward and reversed, and choose between        *)
(* push_back and push_front by what the sequence has; the choice is made   *)
(* once, in Forward and Backward.  A predicate is the set of what it holds *)
(* of, a relation a set of pairs, an operation a function.                 *)
(***************************************************************************)
EXTENDS MplSequences

fold(s, state, op) == FoldLeft(LAMBDA st, x : op[st, x], state, Items(s))

\* iter_fold hands the iterators to op.
iter_fold(s, state, op) ==
  FoldLeft(LAMBDA st, i : op[st, i], state, [i \in 1 .. size(s) |-> i - 1])

\* The first iterator outside pred, and the state op has made up to there.
iter_fold_if(s, state, op, pred) ==
  LET stop == SelectInSeq(Items(s), LAMBDA x : x \notin pred)
      last == IF stop = 0 THEN size(s) ELSE stop - 1
  IN  <<FoldLeft(LAMBDA st, i : op[st], state, [i \in 1 .. last |-> i]), last>>

Insert(in, state, x) == IF in = "push_back" THEN push_back(state, x) ELSE push_front(state, x)

\* The fold and the inserter that fit each other: the items in the order of
\* fold and push_back, or in that of reverse_fold and push_front.
Forward(s) ==
  IF has_push_back(clear(s)) THEN [walk |-> Items(s), in |-> "push_back"]
                             ELSE [walk |-> Reverse(Items(s)), in |-> "push_front"]

Backward(s) ==
  IF has_push_back(s) THEN [walk |-> Reverse(Items(s)), in |-> "push_back"]
                      ELSE [walk |-> Items(s), in |-> "push_front"]

(***************************************************************************)
(* Copying.                                                                *)
(***************************************************************************)
\* The items of keep, copied to an empty sequence by way w.
CopyOp(s, keep, w) ==
  FoldLeft(LAMBDA st, x : IF x \in keep THEN Insert(w.in, st, x) ELSE st, clear(s), w.walk)

copy(s) == CopyOp(s, ToSet(Items(s)), Forward(s))
reverse_copy(s) == CopyOp(s, ToSet(Items(s)), Backward(s))
reverse(s) == reverse_copy(s)

copy_if(s, pred) == CopyOp(s, pred, Forward(s))
reverse_copy_if(s, pred) == CopyOp(s, pred, Backward(s))

remove_if(s, pred) == CopyOp(s, ToSet(Items(s)) \ pred, Forward(s))
reverse_remove_if(s, pred) == CopyOp(s, ToSet(Items(s)) \ pred, Backward(s))

remove(s, t) == remove_if(s, {t})
reverse_remove(s, t) == reverse_remove_if(s, {t})

TransformOp(s, f, w) == FoldLeft(LAMBDA st, x : Insert(w.in, st, f[x]), clear(s), w.walk)

transform1(s, f) == TransformOp(s, f, Forward(s))
reverse_transform1(s, f) == TransformOp(s, f, Backward(s))

\* replace is a transform that puts t in the place of what pred holds of.
replace_if_op(s, pred, t) == [x \in ToSet(Items(s)) |-> IF x \in pred THEN t ELSE x]

replace_if(s, pred, t) == transform1(s, replace_if_op(s, pred, t))
reverse_replace_if(s, pred, t) == reverse_transform1(s, replace_if_op(s, pred, t))
replace(s, old, t) == replace_if(s, {old}, t)
reverse_replace(s, old, t) == reverse_replace_if(s, {old}, t)

\* The state is the copy and the item before; the first one has none.
unique_op(state, x, in, pred) ==
  <<IF state[2] # <<>> /\ <<state[2][1], x>> \in pred THEN state[1] ELSE Insert(in, state[1], x), <<x>> >>

unique(s, pred) ==
  LET w == Forward(s)
  IN  FoldLeft(LAMBDA st, x : unique_op(st, x, w.in, pred), <<clear(s), <<>> >>, w.walk)[1]

reverse_unique(s, pred) ==
  LET w == Backward(s)
  IN  FoldLeft(LAMBDA st, x : unique_op(st, x, w.in, pred), <<clear(s), <<>> >>, w.walk)[1]

partition_op(state, x, in, pred) ==
  IF x \in pred THEN <<Insert(in, state[1], x), state[2]>>
                ELSE <<state[1], Insert(in, state[2], x)>>

stable_partition(s, pred) ==
  LET w == Forward(s)
  IN  FoldLeft(LAMBDA st, x : partition_op(st, x, w.in, pred), <<clear(s), clear(s)>>, w.walk)

reverse_stable_partition(s, pred) ==
  LET w == Backward(s)
  IN  FoldLeft(LAMBDA st, x : partition_op(st, x, w.in, pred), <<clear(s), clear(s)>>, w.walk)

partition(s, pred) == stable_partition(s, pred)
reverse_partition(s, pred) == reverse_stable_partition(s, pred)

(***************************************************************************)
(* Views, as the items of a walk.                                          *)
(***************************************************************************)

\* joint_iter walks the first sequence to its end, then the second.
joint_view(xs, ys) ==
  [i \in 1 .. Len(xs) + Len(ys) |-> IF i <= Len(xs) THEN xs[i] ELSE ys[i - Len(xs)]]

single_view(x) == <<x>>

\* iterator_range<First, Last> of a sequence.
iterator_range(s, first, last) == SubSeq(Items(s), first + 1, last)

\* next_filter_iter: from each place to the next item pred holds of.
filter_view(xs, pred) ==
  LET at_[n \in 0 .. Len(xs)] ==
        IF n = 0 THEN <<>>
        ELSE IF xs[Len(xs) - n + 1] \in pred THEN <<xs[Len(xs) - n + 1]>> \o at_[n - 1] ELSE at_[n - 1]
  IN  at_[Len(xs)]

transform_view(xs, f) == [i \in DOMAIN xs |-> f[xs[i]]]

\* pair_iterator and zip_iterator move all their iterators together; the end
\* is met when all of them are at theirs.
pair_view(xs, ys) == [i \in DOMAIN xs |-> <<xs[i], ys[i]>>]

zip_view(seqs) == [i \in DOMAIN seqs[1] |-> [j \in DOMAIN seqs |-> seqs[j][i]]]

range_c(start, finish) == [i \in 1 .. finish - start |-> start + i - 1]

\* package_range_c counts down when finish is below start.
package_range_c(start, finish) ==
  CASE start = finish -> <<>>
    [] start < finish -> [i \in 1 .. finish - start |-> start + i - 1]
    [] start > finish -> [i \in 1 .. start - finish |-> start - i]

transform2(s, ys, f) ==
  FoldLeft(LAMBDA st, p : push_back(st, f[p]), clear(s), pair_view(Items(s), ys))

(***************************************************************************)
(* Searching and counting.                                                 *)
(***************************************************************************)
find_if(s, pred) == iter_fold_if(s, Void, [st \in {Void} |-> st], ToSet(Items(s)) \ pred)[2]

find(s, t) == find_if(s, {t})

index_if(s, pred) ==
  LET result == iter_fold_if(s, 0, [n \in 0 .. size(s) |-> n + 1], ToSet(Items(s)) \ pred)
  IN  IF result[2] = size(s) THEN Void ELSE result[1]

index_of(s, t) == index_if(s, {t})

contains(s, t) == find(s, t) # size(s)

count_if(s, pred) ==
  fold(s, 0, [n \in 0 .. size(s), x \in ToSet(Items(s)) |-> IF x \in pred THEN n + 1 ELSE n])

count(s, t) == count_if(s, {t})

distance(s, first, last) == Len(iterator_range(s, first, last))

select_max(s, less) ==
  [old, new \in 0 .. size(s) - 1 |-> IF <<at(s, old), at(s, new)>> \in less THEN new ELSE old]

max_element(s, less) == iter_fold(s, 0, select_max(s, less))

min_element(s, less) == max_element(s, (ToSet(Items(s)) \X ToSet(Items(s))) \ less)

\* Both are walked while they have an equal item; both must be at the end.
equal(s, t) ==
  LET ahead == {i \in 1 .. size(s) : i > size(t) \/ at(s, i - 1) # at(t, i - 1)}
      stop  == IF ahead = {} THEN size(s) ELSE (CHOOSE i \in ahead : \A j \in ahead : i <= j) - 1
  IN  stop = size(s) /\ stop = size(t)

\* Halving: the rest behind the middle, or what is before it.
lower_bound(s, t, less) ==
  LET step[n \in 0 .. size(s), iter \in 0 .. size(s)] ==
        LET off == n \div 2 IN
        IF n = 0 THEN iter
        ELSE IF <<at(s, iter + off), t>> \in less THEN step[n - off - 1, iter + off + 1]
        ELSE step[off, iter]
  IN  step[size(s), 0]

upper_bound(s, t, less) ==
  LET step[n \in 0 .. size(s), iter \in 0 .. size(s)] ==
        LET off == n \div 2 IN
        IF n = 0 THEN iter
        ELSE IF <<t, at(s, iter + off)>> \in less THEN step[off, iter]
        ELSE step[n - off - 1, iter + off + 1]
  IN  step[size(s), 0]

(***************************************************************************)
(* Changing a sequence at a position: two halves, copied with push_front.  *)
(***************************************************************************)
PushAll(xs, s) == FoldLeft(push_front, s, Reverse(xs))

insert(s, pos, x) ==
  PushAll(iterator_range(s, 0, pos),
          push_front(PushAll(iterator_range(s, pos, size(s)), clear(s)), x))

insert_range(s, pos, xs) ==
  PushAll(joint_view(iterator_range(s, 0, pos),
                     joint_view(xs, iterator_range(s, pos, size(s)))), clear(s))

erase(s, first, last) ==
  PushAll(iterator_range(s, 0, first),
          PushAll(iterator_range(s, last, size(s)), clear(s)))

(***************************************************************************)
(* sort: the first item is the pivot; what is less goes before it.         *)
(***************************************************************************)
quick_sort(xs, less) ==
  LET sorted[n \in 0 .. Len(xs), ys \in UNION {[1 .. m -> ToSet(xs)] : m \in 0 .. Len(xs)}] ==
        IF ys = <<>> \/ n = 0 THEN ys
        ELSE LET parts == partition(vector(Tail(ys)), {x \in ToSet(ys) : <<x, ys[1]>> \in less})
             IN  joint_view(joint_view(sorted[n - 1, Items(parts[1])], single_view(ys[1])),
                            sorted[n - 1, Items(parts[2])])
  IN  sorted[Len(xs), xs]

SortInto(s, w) == FoldLeft(LAMBDA st, x : Insert(w.in, st, x), clear(s), w.walk)

sort(s, less) ==
  LET sorted == vector(quick_sort(Items(s), less))
  IN  SortInto(s, IF has_push_back(clear(s)) THEN [walk |-> Items(sorted), in |-> "push_back"]
                  ELSE [walk |-> Reverse(Items(sorted)), in |-> "push_front"])

reverse_sort(s, less) ==
  LET sorted == vector(quick_sort(Items(s), less))
  IN  SortInto(s, IF has_push_back(s) THEN [walk |-> Reverse(Items(sorted)), in |-> "push_back"]
                  ELSE [walk |-> Items(sorted), in |-> "push_front"])
=============================================================================
