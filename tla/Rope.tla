-------------------------------- MODULE Rope --------------------------------
(***************************************************************************)
(* The rope of yesod.old (detail/rope_base.hpp, detail/rope_ops.hpp): a    *)
(* string as a tree of shared, immutable nodes, built by concatenation and *)
(* by lazy substrings, rebalanced when it gets too deep, and read through  *)
(* iterators that cache the bottom of the path to their leaf and a short   *)
(* buffer.  A node is a value, so sharing needs no heap:                   *)
(*                                                                         *)
(*   leaf    item: its values          func   item: what fn produces       *)
(*   concat  left, right               substr base, offset                 *)
(*                                                                         *)
(* with size, depth and is_balanced in each.  The constants of the policy, *)
(* and the two literals of tree_concat, are parameters: a small instance   *)
(* reaches every branch.                                                   *)
(***************************************************************************)
EXTENDS Integers, Sequences, SequencesExt

CONSTANTS
  max_rope_depth, max_copy, lazy_threshold,    \* the policy
  path_cache_len, iterator_buf_len,
  balance_depth, balance_size,                 \* 20 and 1000 in tree_concat
  exponentiate_threshold,                      \* 32 in rope(n, v)
  Pieces,      \* the strings that ropes are made from
  MaxLength,   \* bound: values in a rope
  MaxEdits     \* bound: operations that make a new rope

VARIABLES rope, text, edits, iter

ropeVars == <<rope, text, edits, iter>>

Null == [tag |-> "null"]

Node(tag, size, depth, balanced, rest) ==
  [tag |-> tag, size |-> size, depth |-> depth, is_balanced |-> balanced] @@ rest

make_leaf(xs) == Node("leaf", Len(xs), 0, TRUE, [item |-> xs])

make_func(xs) == Node("func", Len(xs), 0, TRUE, [item |-> xs])

make_substr(base, offset, n) ==
  Node("substr", n, 0, TRUE, [base |-> base, offset |-> offset])

make_concat(l, r) ==
  Node("concat", l.size + r.size, Max({l.depth, r.depth}) + 1, FALSE,
       [left |-> l, right |-> r])

\* The values that apply hands to its function, all calls in a row.
RECURSIVE apply(_, _, _)
apply(r, first, last) ==
  CASE r.tag = "null" -> <<>>
    [] r.tag \in {"leaf", "func"} -> SubSeq(r.item, first + 1, last)
    [] r.tag = "substr" -> apply(r.base, first + r.offset, Min({r.base.size, last + r.offset}))
    [] r.tag = "concat" ->
         LET n == r.left.size IN
         (IF first < n THEN apply(r.left, first, Min({n, last})) ELSE <<>>)
         \o (IF last > n THEN apply(r.right, Max({n, first}) - n, last - n) ELSE <<>>)

size(r) == IF r.tag = "null" THEN 0 ELSE r.size

flatten(r, offset, n) == apply(r, offset, Min({offset + n, size(r)}))

fetch(r, pos) == Last(apply(r, pos, pos + 1))

(***************************************************************************)
(* Concatenation and balance.                                              *)
(***************************************************************************)
leaf_concat(l, xs) == make_leaf(l.item \o xs)

\* A leaf short enough to be copied into the last leaf of l.
Copies(l, n) == l.tag = "leaf" /\ l.size + n <= max_copy

min_len[i \in 0 .. max_rope_depth] ==
  CASE i = 0 -> 1 [] i = 1 -> 2 [] OTHER -> min_len[i - 1] + min_len[i - 2]

Balanced(r) == r.size >= min_len[r.depth]

RECURSIVE concat(_, _), tree_concat(_, _), balance(_), add_to_forest(_, _)

concat_value_iter(l, xs) ==
  CASE xs = <<>> -> l
    [] Copies(l, Len(xs)) -> leaf_concat(l, xs)
    [] l.tag = "concat" /\ Copies(l.right, Len(xs)) ->
         tree_concat(l.left, leaf_concat(l.right, xs))
    [] OTHER -> tree_concat(l, make_leaf(xs))

concat(l, r) ==
  CASE l.tag = "null" -> r
    [] r.tag = "null" -> l
    [] r.tag # "leaf" -> tree_concat(l, r)
    [] Copies(l, r.size) -> leaf_concat(l, r.item)
    [] l.tag = "concat" /\ Copies(l.right, r.size) ->
         tree_concat(l.left, leaf_concat(l.right, r.item))
    [] OTHER -> tree_concat(l, r)

tree_concat(l, r) ==
  LET rv == make_concat(l, r) IN
  IF rv.depth > balance_depth /\ (rv.size < balance_size \/ rv.depth > max_rope_depth)
  THEN balance(rv) ELSE rv

concat_and_set_balanced(l, r) ==
  LET c == concat(l, r) IN IF Balanced(c) THEN [c EXCEPT !.is_balanced = TRUE] ELSE c

\* Buckets 0 .. i - 1, gathered from the smallest up.
Gather(forest, i) ==
  FoldLeft(LAMBDA acc, j : IF forest[j].tag = "null" THEN acc
                           ELSE concat_and_set_balanced(forest[j], acc),
           Null, [j \in 1 .. i |-> j - 1])

\* Where a rope of this size may stay: the first bucket from i on that holds it.
Bucket(i, n) ==
  CHOOSE j \in i .. max_rope_depth :
    /\ j = max_rope_depth \/ n < min_len[j + 1]
    /\ \A k \in i .. j - 1 : n >= min_len[k + 1]

\* From bucket i up: an occupied bucket joins the insertee, which may then
\* be too long for it.
RECURSIVE Settle(_, _, _)
Settle(forest, i, insertee) ==
  LET joined == IF forest[i].tag = "null" THEN insertee
                ELSE concat_and_set_balanced(forest[i], insertee) IN
  IF i = max_rope_depth \/ joined.size < min_len[i + 1]
  THEN [forest EXCEPT ![i] = joined]
  ELSE Settle([forest EXCEPT ![i] = Null], i + 1, joined)

add_leaf_to_forest(forest, r) ==
  LET i == Bucket(0, r.size) IN
  Settle([j \in DOMAIN forest |-> IF j < i THEN Null ELSE forest[j]], i,
         concat_and_set_balanced(Gather(forest, i), r))

add_to_forest(forest, r) ==
  IF r.tag # "concat" \/ r.is_balanced THEN add_leaf_to_forest(forest, r)
  ELSE add_to_forest(add_to_forest(forest, r.left), r.right)

balance(r) ==
  LET forest == add_to_forest([j \in 0 .. max_rope_depth |-> Null], r) IN
  FoldLeft(LAMBDA rv, j : concat(forest[j], rv), Null,
           [j \in 1 .. max_rope_depth + 1 |-> j - 1])

(***************************************************************************)
(* Substrings and what is built from them.                                 *)
(***************************************************************************)
RECURSIVE substring(_, _, _), NodeSubstring(_, _, _, _)

NodeSubstring(r, first, end, adj_end) ==
  IF r.tag = "concat"
  THEN LET n == r.left.size IN
       CASE adj_end <= n -> substring(r.left, first, end)
         [] adj_end > n /\ first >= n -> substring(r.right, first - n, adj_end - n)
         [] OTHER -> concat(substring(r.left, first, n), substring(r.right, 0, end - n))
  ELSE LET n == adj_end - first IN
       CASE first >= adj_end -> Null
         [] n > lazy_threshold /\ r.tag = "substr" -> make_substr(r.base, first + r.offset, n)
         [] n > lazy_threshold /\ r.tag # "substr" -> make_substr(r, first, n)
         [] r.tag = "substr" -> substring(r.base, first + r.offset, first + r.offset + n)
         [] OTHER -> make_leaf(SubSeq(r.item, first + 1, first + n))

substring(r, first, last) ==
  CASE r.tag = "null" -> r
    [] r.tag # "null" /\ last >= r.size /\ first = 0 -> r
    [] OTHER -> NodeSubstring(r, first, last, Min({last, r.size}))

replace(old, first, last, r) ==
  IF old.tag = "null" THEN r
  ELSE concat(concat(substring(old, 0, first), r), substring(old, last, old.size))

\* rope(n, v): powers of a leaf, and what is left over.
RECURSIVE Powers(_, _, _)
Powers(rv, base, exponent) ==
  IF exponent = 0 THEN rv
  ELSE LET twice == concat(base, base) IN
       Powers(IF exponent % 2 = 1 THEN concat(rv, twice) ELSE rv, twice, exponent \div 2)

RECURSIVE Doubled(_, _)
Doubled(base, exponent) ==
  IF exponent % 2 = 0 THEN Doubled(concat(base, base), exponent \div 2)
  ELSE Powers(base, base, exponent \div 2)

RopeOf(n, v) ==
  LET Fill(k) == make_leaf([i \in 1 .. k |-> v])
      exponent == n \div exponentiate_threshold
      rest == n % exponentiate_threshold IN
  IF n = 0 THEN Null
  ELSE concat(IF exponent = 0 THEN Null ELSE Doubled(Fill(exponentiate_threshold), exponent),
              IF rest = 0 THEN Null ELSE Fill(rest))

npos == -1

find(r, v, pos) ==
  LET found == {i \in pos .. size(r) - 1 : fetch(r, i) = v} IN
  IF found = {} THEN npos ELSE Min(found)

(***************************************************************************)
(* Iterators.  dirns lists the turns, the last one first: TRUE is right.   *)
(* buf is the cached part of the leaf, cur the current place in it.        *)
(***************************************************************************)
NoBuf == [item |-> <<>>, cur |-> -1]

set_buf(it) ==
  LET l == Last(it.path)
      end == it.leaf_pos + l.size
      len == iterator_buf_len
      near == IF it.leaf_pos + len <= it.pos
              THEN Min({it.pos - len \div 4, end - len}) ELSE it.leaf_pos
      n == Min({len, end - near}) IN
  IF l.tag = "leaf"
  THEN [it EXCEPT !.buf = [item |-> l.item, cur |-> it.pos - it.leaf_pos]]
  ELSE [it EXCEPT !.buf = [item |-> apply(l, near - it.leaf_pos, near - it.leaf_pos + n),
                           cur  |-> it.pos - near]]

\* From a node down to the leaf that holds pos.
RECURSIVE Descend(_, _, _, _, _)
Descend(r, pos, start, path, dirns) ==
  IF r.tag # "concat" THEN [path |-> Append(path, r), leaf_pos |-> start, dirns |-> dirns]
  ELSE IF pos >= start + r.left.size
  THEN Descend(r.right, pos, start + r.left.size, Append(path, r), <<TRUE>> \o dirns)
  ELSE Descend(r.left, pos, start, Append(path, r), <<FALSE>> \o dirns)

Bottom(path) == SubSeq(path, Max({1, Len(path) - path_cache_len + 1}), Len(path))

set_cache(it) ==
  IF it.pos >= it.root.size THEN [it EXCEPT !.buf = NoBuf]
  ELSE LET d == Descend(it.root, it.pos, 0, <<>>, <<>>) IN
       set_buf([it EXCEPT !.path = Bottom(d.path), !.leaf_pos = d.leaf_pos, !.dirns = d.dirns])

\* The cached ancestors that are entered from the left, as indexes of path.
LeftTurns(it) == {i \in 1 .. Len(it.path) - 1 : ~it.dirns[Len(it.path) - i]}

\* Mutant: the turns below the common ancestor are kept.
set_cache_for_incr_Turns(it) ==
  LET i == Max(LeftTurns(it))
      top == it.path[i] IN
  IF it.pos - it.leaf_pos < Last(it.path).size THEN set_buf(it)
  ELSE IF LeftTurns(it) = {} THEN set_cache(it)
  ELSE LET d == Descend(top.right, it.pos, it.pos, SubSeq(it.path, 1, i), it.dirns) IN
       set_buf([it EXCEPT !.path = Bottom(d.path), !.leaf_pos = d.leaf_pos, !.dirns = d.dirns])

set_cache_for_incr(it) ==
  LET i == Max(LeftTurns(it))
      top == it.path[i]
      popped == Len(it.path) - 1 - i
      start == it.leaf_pos
               - FoldLeft(LAMBDA s, j : s + it.path[j].left.size, 0,
                          [j \in 1 .. popped |-> i + j])
               + top.left.size IN
  IF it.pos - it.leaf_pos < Last(it.path).size THEN set_buf(it)
  ELSE IF LeftTurns(it) = {} THEN set_cache(it)
  ELSE LET d == Descend(top.right, start, start, SubSeq(it.path, 1, i),
                        <<TRUE>> \o SubSeq(it.dirns, popped + 2, Len(it.dirns))) IN
       set_buf([it EXCEPT !.path = Bottom(d.path), !.leaf_pos = d.leaf_pos, !.dirns = d.dirns])

const_iterator(r, n) ==
  [root |-> r, pos |-> n, leaf_pos |-> 0, path |-> <<>>, dirns |-> <<>>, buf |-> NoBuf]

incr(it, n) ==
  LET moved == [it EXCEPT !.pos = @ + n, !.buf.cur = @ + n]
      left == Len(it.buf.item) - it.buf.cur IN
  CASE it.buf = NoBuf -> [it EXCEPT !.pos = @ + n]
    [] it.buf # NoBuf /\ left > n -> moved
    [] it.buf # NoBuf /\ left = n -> set_cache_for_incr(moved)
    [] OTHER -> [moved EXCEPT !.buf = NoBuf]

decr(it, n) ==
  IF it.buf # NoBuf /\ it.buf.cur >= n
  THEN [it EXCEPT !.pos = @ - n, !.buf.cur = @ - n]
  ELSE [it EXCEPT !.pos = @ - n, !.buf = NoBuf]

\* dereference fills the cache first, and the iterator keeps it.
Cached(it) == IF it.buf = NoBuf THEN set_cache(it) ELSE it

dereference(it) == Cached(it).buf.item[Cached(it).buf.cur + 1]

(***************************************************************************)
(* Programs: edits of one rope, then one iterator over it.                 *)
(***************************************************************************)
NoIter == [root |-> Null]

\* A rope that a loop has put together from n one-value pieces.
Values(n) == [i \in 1 .. n |-> i]

Init ==
  /\ edits = 0 /\ iter = NoIter
  /\ \/ rope = Null /\ text = <<>>
     \/ \E s \in Pieces : text = s /\ rope \in {make_leaf(s), make_func(s)}
     \/ \E s \in Pieces, n \in 1 .. MaxLength :
          rope = RopeOf(n, s[1]) /\ text = [i \in 1 .. n |-> s[1]]
     \/ \E n \in 2 .. MaxLength :
          text = Values(n) /\ rope = FoldLeft(LAMBDA r, v : concat(r, make_func(<<v>>)), Null, text)

Edit(r, s) ==
  /\ iter = NoIter /\ edits < MaxEdits /\ Len(s) <= MaxLength
  /\ rope' = r /\ text' = s /\ edits' = edits + 1 /\ UNCHANGED iter

append == \* operator+, append, operator+=
  \/ Edit(concat(rope, rope), text \o text)
  \/ \E s \in Pieces :
       \/ Edit(concat(rope, make_leaf(s)), text \o s)
       \/ Edit(concat(make_func(s), rope), s \o text)
       \/ Edit(IF rope = Null THEN make_leaf(s) ELSE concat_value_iter(rope, s), text \o s)

Part(first, last) == SubSeq(text, first + 1, last)

substr ==
  \E pos \in 0 .. Len(text), n \in 1 .. Len(text) :
    Edit(substring(rope, pos, pos + n), Part(pos, Min({pos + n, Len(text)})))

insert ==
  \E pos \in 0 .. Len(text), s \in Pieces :
    Edit(replace(rope, pos, pos, make_leaf(s)), Part(0, pos) \o s \o Part(pos, Len(text)))

erase ==
  \E pos \in 0 .. Len(text) - 1, n \in 1 .. 2 :
    Edit(replace(rope, pos, pos + n, Null), Part(0, pos) \o Part(pos + n, Len(text)))

pop ==
  /\ rope # Null
  /\ \/ Edit(substring(rope, 0, rope.size - 1), Part(0, Len(text) - 1))
     \/ Edit(substring(rope, 1, rope.size), Part(1, Len(text)))

Rebalance == rope # Null /\ Edit(balance(rope), text)

cbegin ==
  /\ iter = NoIter /\ rope # Null
  /\ iter' = const_iterator(rope, 0) /\ UNCHANGED <<rope, text, edits>>

advance ==
  /\ iter # NoIter
  /\ \E n \in 1 .. MaxLength :
       \/ iter.pos + n <= Len(text) /\ iter' = incr(iter, n)
       \/ iter.pos >= n /\ iter' = decr(iter, n)
  /\ UNCHANGED <<rope, text, edits>>

read ==
  /\ iter # NoIter /\ iter.pos < Len(text)
  /\ iter' = Cached(iter) /\ UNCHANGED <<rope, text, edits>>

Next == append \/ substr \/ insert \/ erase \/ pop \/ Rebalance \/ cbegin \/ advance \/ read

Spec == Init /\ [][Next]_ropeVars

(***************************************************************************)
(* Properties.                                                             *)
(***************************************************************************)
RECURSIVE WellFormed(_)
WellFormed(r) ==
  CASE r.tag = "null" -> TRUE
    [] r.tag \in {"leaf", "func"} -> r.size = Len(r.item) /\ r.size > 0
    [] r.tag = "substr" -> r.base.tag \in {"leaf", "func"} /\ r.size > 0
                           /\ r.offset + r.size <= r.base.size
    [] r.tag = "concat" -> /\ WellFormed(r.left) /\ WellFormed(r.right)
                           /\ r.size = r.left.size + r.right.size
                           /\ r.is_balanced => Balanced(r)

\* Whatever was concatenated, cut, replaced and rebalanced, the tree spells
\* the plain string, in copy, operator[] and find, and never nests one
\* substring in another (node::substr::substring, balance).
RopeSpells ==
  /\ WellFormed(rope)
  /\ flatten(rope, 0, size(rope)) = text /\ size(rope) = Len(text)
  /\ \A i \in 0 .. Len(text) - 1 :
       fetch(rope, i) = text[i + 1] /\ find(rope, text[i + 1], i) = i

\* An iterator finds the value of its position however it got there: by its
\* buffer, by the cached path or from the root (set_cache_for_incr, decr).
IteratorReads ==
  iter # NoIter /\ iter.pos < Len(text) => dereference(iter) = text[iter.pos + 1]
=============================================================================
