----------------------------- MODULE StringMap ------------------------------
(***************************************************************************)
(* string_map of yesod.old (detail/string_map_base.hpp and _ops.hpp): a    *)
(* trie in a double array.  A node's children are the pairs at its base    *)
(* offset plus the index of a character, and each names its parent, so     *)
(* that the families of several nodes may interleave; the last characters  *)
(* of a key that no other key shares stay in its leaf.  Vacant pairs form  *)
(* a ring in ascending order; pair 0 is the root, and its parent field     *)
(* holds the end of that ring, which is always vacant.                     *)
(*                                                                         *)
(* A pair is [kind, base, parent, suffix, value]: for a vacant one base    *)
(* and parent are the next and the previous vacant position.  What lies    *)
(* past the ring's end has never been set: all its bits are zero, which    *)
(* reads as a leaf without data whose parent is the root.                  *)
(***************************************************************************)
EXTENDS Integers, Sequences, SequencesExt

CONSTANTS
  MaxChar,     \* characters are 0 .. MaxChar
  MapKeys,     \* the keys, sequences of characters
  MaxChanges   \* bound: emplacements and erasures

VARIABLES smap, dict, changes

smapVars == <<smap, dict, changes>>

terminator_index == 1
base_index == 2

Pair(kind, base, parent, suffix, value) ==
  [kind |-> kind, base |-> base, parent |-> parent, suffix |-> suffix, value |-> value]

make_vacant(next, prev) == Pair("vacant", next, prev, <<>>, 0)
make_leaf(suffix, value, parent) == Pair("leaf", 0, parent, suffix, value)

Unset == Pair("unset", 0, 0, <<>>, 0)

is_leaf(p) == p.kind \in {"leaf", "unset"}

ptr_at(items, pos) == IF pos \in DOMAIN items THEN items[pos] ELSE Unset

end(items) == items[0].parent

(***************************************************************************)
(* dense_encoding_map: characters are numbered as they appear, by swaps in *)
(* a permutation, so that an unused character has a number past the used.  *)
(***************************************************************************)
reset == [next_id |-> 0, index |-> [c \in 0 .. MaxChar |-> c], value |-> [c \in 0 .. MaxChar |-> c]]

set(e, v, id) ==
  LET other_id == e.index[v]
      other_iv == e.value[id] IN
  [next_id |-> e.next_id + 1,
   index |-> [e.index EXCEPT ![v] = id, ![other_iv] = other_id],
   value |-> [e.value EXCEPT ![id] = v, ![other_id] = other_iv]]

encoding_adapter(e, key) ==
  FoldLeft(LAMBDA x, c : IF x.index[c] < x.next_id THEN x ELSE set(x, c, x.next_id), e, key)

Encoded(e, key) == [i \in DOMAIN key |-> e.index[key[i]]]

index_offset(c) == base_index + c

breadth(e) == index_offset(e.next_id)

(***************************************************************************)
(* Looking up.                                                             *)
(***************************************************************************)
NotFound == -1

child_at(items, pos, i) ==
  LET q == items[pos].base + i IN IF ptr_at(items, q).parent = pos THEN q ELSE NotFound

RECURSIVE find_impl(_, _, _)
find_impl(items, s, pos) ==
  IF s = <<>> THEN [pos |-> pos, rest |-> s]
  ELSE LET q == child_at(items, pos, index_offset(Head(s))) IN
       IF q = NotFound \/ is_leaf(ptr_at(items, q)) THEN [pos |-> q, rest |-> Tail(s)]
       ELSE find_impl(items, Tail(s), q)

\* The place of a prefix: a pair, and how much of its leaf's suffix is used.
\* The length of the common part of a suffix, from there on, and a string.
common_length(suffix, s, offset) ==
  Max({n \in 0 .. Min({Len(suffix) - offset, Len(s)}) :
         SubSeq(suffix, offset + 1, offset + n) = SubSeq(s, 1, n)})

locate(m, key) ==
  LET q == find_impl(m.items, Encoded(m.enc, key), 0)
      p == ptr_at(m.items, q.pos) IN
  CASE q.pos = NotFound -> [pos |-> NotFound, leaf_pos |-> 0]
    [] q.pos # NotFound /\ q.rest = <<>> -> [pos |-> q.pos, leaf_pos |-> 0]
    [] q.pos # NotFound /\ q.rest # <<>> /\ p.kind = "leaf"
       /\ common_length(p.suffix, q.rest, 0) = Len(q.rest) ->
         [pos |-> q.pos, leaf_pos |-> Len(q.rest)]
    [] OTHER -> [pos |-> NotFound, leaf_pos |-> 0]

\* The pair that holds the key: NotFound, or a pair that was never set, whose
\* data the code would follow as a null pointer.
find_rel(m, locus, key) ==
  LET s == Encoded(m.enc, key)
      p == ptr_at(m.items, locus.pos)
      q == find_impl(m.items, s, locus.pos)
      t == IF q.pos = NotFound \/ is_leaf(ptr_at(m.items, q.pos)) THEN q.pos
           ELSE child_at(m.items, q.pos, terminator_index) IN
  IF is_leaf(p)
  THEN IF SubSeq(p.suffix, locus.leaf_pos + 1, Len(p.suffix)) = s THEN locus.pos ELSE NotFound
  ELSE IF t = NotFound \/ ptr_at(m.items, t).kind = "unset"
          \/ ptr_at(m.items, t).suffix = q.rest
  THEN t ELSE NotFound

find(m, key) == find_rel(m, [pos |-> 0, leaf_pos |-> 0], key)

\* The children of a pair with an index in a range, in order (iter_loc).
next_child(items, base, pos, first, last) ==
  SelectSeq([i \in 1 .. last - first |-> first + i - 1],
            LAMBDA i : LET p == ptr_at(items, base + i) IN
                       p.kind \in {"leaf", "link"} /\ p.parent = pos)

\* All keys with their values, in the order of the traversal (for_each).
RECURSIVE for_each(_, _, _)
for_each(m, pos, prefix) ==
  FlattenSeq(
    [n \in DOMAIN next_child(m.items, m.items[pos].base, pos, terminator_index, breadth(m.enc)) |->
      LET i == next_child(m.items, m.items[pos].base, pos, terminator_index, breadth(m.enc))[n]
          q == m.items[pos].base + i
          key == IF i > terminator_index THEN Append(prefix, m.enc.value[i - base_index]) ELSE prefix
          leaf == m.items[q] IN
      IF leaf.kind = "leaf"
      THEN << <<key \o [j \in DOMAIN leaf.suffix |-> m.enc.value[leaf.suffix[j]]], leaf.value>> >>
      ELSE for_each(m, q, key)])

RECURSIVE count_leaves(_, _)
count_leaves(m, pos) ==
  IF is_leaf(m.items[pos]) THEN 1
  ELSE LET base == m.items[pos].base IN
       FoldLeft(LAMBDA n, i : n + count_leaves(m, base + i), 0,
                next_child(m.items, base, pos, terminator_index, breadth(m.enc)))

(***************************************************************************)
(* The ring of vacant pairs.  Operations that may grow the storage return  *)
(* the items and a position.                                               *)
(***************************************************************************)
grow_storage(items, pos) ==
  LET last == end(items)
      first == items[last].base
      old == [items EXCEPT ![last].base = last + 1, ![first].parent = pos + 1,
                           ![0].parent = pos + 1] IN
  [i \in 0 .. pos + 1 |->
     IF i <= last THEN old[i] ELSE make_vacant(IF i = pos + 1 THEN first ELSE i + 1, i - 1)]

\* From both ends of the ring towards the first vacant position after this one.
RECURSIVE Walk(_, _, _, _)
Walk(items, first, p, q) ==
  CASE q > first -> q
    [] q <= first /\ p < first -> items[p].base
    [] OTHER -> Walk(items, first, items[p].parent, items[q].base)

find_vacant(items, first) ==
  LET last == end(items)
      p == Walk(items, first, last, items[last].base) IN
  CASE first >= last -> [items |-> grow_storage(items, first), pos |-> first]
    [] first < last /\ items[first].kind = "vacant" -> [items |-> items, pos |-> first]
    [] OTHER -> [items |-> IF p = last THEN grow_storage(items, p) ELSE items, pos |-> p]

\* A vacant position for first such that the positions at the same distances
\* as in index_set are vacant too.
RECURSIVE TrySet(_, _, _, _)
TrySet(items, s_pos, first, index_set) ==
  LET diff == s_pos - first
      grown == grow_storage(items, Last(index_set) + diff)
      past == {c \in DOMAIN index_set : index_set[c] + diff >= end(items)}
      taken == {c \in DOMAIN index_set \ past : items[index_set[c] + diff].kind # "vacant"}
      next == items[s_pos].base IN
  CASE taken = {} /\ past # {} -> [items |-> grown, pos |-> s_pos]
    [] taken = {} /\ past = {} -> [items |-> items, pos |-> s_pos]
    [] taken # {} /\ next = end(items) ->
         [items |-> grow_storage(items, Last(index_set) + next - first), pos |-> next]
    [] OTHER -> TrySet(items, next, first, index_set)

find_vacant_set(items, first, index_set) ==
  LET v == find_vacant(items, first) IN TrySet(v.items, v.pos, first, index_set)

Unlink(items, pos) ==
  [items EXCEPT ![items[pos].parent].base = items[pos].base,
                ![items[pos].base].parent = items[pos].parent]

reserve_vacant(items, parent_pos, child_pos, suffix, value) ==
  [Unlink(items, child_pos) EXCEPT ![child_pos] = make_leaf(suffix, value, parent_pos)]

LinkBetween(items, pos, prev, next) ==
  LET at == [items EXCEPT ![pos] = make_vacant(next, prev)] IN
  [at EXCEPT ![prev].base = pos, ![next].parent = pos]

release_pair(items, pos) ==
  LET v == find_vacant(items, pos) IN
  LinkBetween(v.items, pos, v.items[v.pos].parent, v.pos)

\* Links are given back up to the first one with a child left.
RECURSIVE release_ancestors(_, _, _)
release_ancestors(items, e, pos) ==
  IF pos = 0
     \/ \E i \in terminator_index .. breadth(e) - 1 :
          ptr_at(items, items[pos].base + i).parent = pos
  THEN items
  ELSE release_ancestors(release_pair(items, pos), e, items[pos].parent)

(***************************************************************************)
(* Moving a family of children to another base.                            *)
(***************************************************************************)
RECURSIVE Down(_, _, _), Up(_, _, _)
Down(items, pos, q) == IF pos < q THEN Down(items, pos, items[q].parent) ELSE q
Up(items, pos, q) == IF pos > q THEN Up(items, pos, items[q].base) ELSE q

Vacate(items, src, hint) ==
  LET last == end(items)
      next == IF items[last].base < src THEN Up(items, src, Down(items, src, hint))
              ELSE items[last].base
      prev == IF items[last].base < src THEN items[next].parent ELSE last IN
  LinkBetween(items, src, prev, next)

\* Mutant: the children of the moved pair keep its old position as parent.
move_pair_Orphans(items, e, src, dst, hint) ==
  Vacate([Unlink(items, dst) EXCEPT ![dst] = items[src]], src, hint)

move_pair(items, e, src, dst, hint) ==
  LET base == items[src].base
      children == IF is_leaf(items[src]) THEN <<>>
                  ELSE next_child(items, base, src, terminator_index, breadth(e))
      adopted == FoldLeft(LAMBDA x, i : [x EXCEPT ![base + i].parent = dst], items, children) IN
  Vacate([Unlink(adopted, dst) EXCEPT ![dst] = adopted[src]], src, hint)

relocate(m, pos, c_index, suffix, value) ==
  LET base == m.items[pos].base
      lower == next_child(m.items, base, pos, terminator_index, c_index)
      upper == next_child(m.items, base, pos, c_index, breadth(m.enc))
      index_set == lower \o <<c_index>> \o upper
      v == find_vacant_set(m.items, index_set[1], Tail(index_set))
      to == v.pos - index_set[1]
      Move(x, i) == [items |-> move_pair(x.items, m.enc, base + i, to + i, x.hint),
                     hint  |-> base + i]
      below == FoldLeft(Move, [items |-> v.items, hint |-> end(v.items)], lower)
      there == [below EXCEPT !.items = reserve_vacant(@, pos, to + c_index, suffix, value)]
      above == FoldLeft(Move, there, upper) IN
  [above.items EXCEPT ![pos].base = to]

\* A leaf becomes a chain of links over the count shared characters, and a
\* link with two leaves.
RECURSIVE Chain(_, _, _, _)
Chain(items, pos, suffix, value) ==
  IF suffix = <<>> THEN [items |-> items, pos |-> pos]
  ELSE LET i == index_offset(Head(suffix))
           v == find_vacant(items, i)
           child == reserve_vacant(v.items, pos, v.pos, <<>>, value) IN
       Chain([child EXCEPT ![pos] = Pair("link", v.pos - i, child[pos].parent, <<>>, 0)],
             v.pos, Tail(suffix), value)

unroll_suffix(items, pos, count, other_index, suffix, value) ==
  LET leaf == items[pos]
      chain == Chain(items, pos, SubSeq(leaf.suffix, 1, count), leaf.value)
      c_index == IF Len(leaf.suffix) > count THEN index_offset(leaf.suffix[count + 1])
                 ELSE terminator_index
      low == Min({c_index, other_index})
      v == find_vacant_set(chain.items, low, <<Max({c_index, other_index})>>)
      base == v.pos - low
      first == reserve_vacant(v.items, chain.pos, base + c_index,
                              SubSeq(leaf.suffix, count + 2, Len(leaf.suffix)), leaf.value)
      linked == [first EXCEPT ![chain.pos] =
                   Pair("link", base, first[chain.pos].parent, <<>>, 0)] IN
  reserve_vacant(linked, chain.pos, base + other_index, suffix, value)

(***************************************************************************)
(* The operations of the map.                                              *)
(***************************************************************************)
init == [items |-> (0 :> Pair("link", 0, 1, <<>>, 0)) @@ (1 :> make_vacant(1, 1)), enc |-> reset]

\* A new child of p at an index, in its place or by moving the family.
AddChild(m, p, i, suffix, value) ==
  LET q == m.items[p].base + i
      room == IF end(m.items) <= q THEN grow_storage(m.items, q) ELSE m.items IN
  IF ptr_at(m.items, q).kind \in {"vacant", "unset"}
  THEN reserve_vacant(room, p, q, suffix, value)
  ELSE relocate(m, p, i, suffix, value)

RECURSIVE Insert(_, _, _, _)
Insert(m, p, s, value) ==
  LET i == IF s = <<>> THEN terminator_index ELSE index_offset(Head(s))
      q == m.items[p].base + i
      pair == ptr_at(m.items, q)
      own == pair.kind \in {"leaf", "link"} /\ pair.parent = p
      n == common_length(pair.suffix, Tail(s), 0)
      rest == SubSeq(s, n + 2, Len(s)) IN
  CASE ~own -> AddChild(m, p, i, IF s = <<>> THEN <<>> ELSE Tail(s), value)
    [] own /\ (s = <<>> \/ (pair.kind = "leaf" /\ pair.suffix = Tail(s))) -> m.items
    [] own /\ s # <<>> /\ pair.kind = "link" -> Insert(m, q, Tail(s), value)
    [] OTHER ->
         unroll_suffix(m.items, q, n,
                       IF rest = <<>> THEN terminator_index ELSE index_offset(Head(rest)),
                       IF rest = <<>> THEN <<>> ELSE Tail(rest), value)

emplace(m, key, value) ==
  LET e == encoding_adapter(m.enc, key) IN
  [items |-> Insert([m EXCEPT !.enc = e], 0, Encoded(e, key), value), enc |-> e]

erase(m, key) ==
  LET p == find(m, key) IN
  IF p = NotFound THEN m
  ELSE [m EXCEPT !.items = release_ancestors(release_pair(@, p), m.enc, @[p].parent)]

(***************************************************************************)
(* Programs: a map beside the dictionary it stands for.                    *)
(***************************************************************************)
Init == smap = init /\ dict = <<>> /\ changes = 0

Emplace(key) ==
  /\ changes < MaxChanges /\ changes' = changes + 1
  /\ smap' = emplace(smap, key, changes + 1)
  /\ dict' = dict @@ (key :> changes + 1)

\* A key whose search would follow a null pointer is not searched for.
Erase(key) ==
  /\ changes < MaxChanges /\ changes' = changes + 1
  /\ find(smap, key) \notin DOMAIN smap.items => find(smap, key) = NotFound
  /\ smap' = erase(smap, key)
  /\ dict' = [k \in DOMAIN dict \ {key} |-> dict[k]]

Clear ==
  /\ changes < MaxChanges /\ changes' = changes + 1
  /\ smap' = [init EXCEPT !.enc = smap.enc] /\ dict' = <<>>

Next == (\E key \in MapKeys : Emplace(key) \/ Erase(key)) \/ Clear

Spec == Init /\ [][Next]_smapVars

(***************************************************************************)
(* Properties.                                                             *)
(***************************************************************************)
Vacant == {i \in DOMAIN smap.items : smap.items[i].kind = "vacant"}

\* After any run of insertions (with their relocations and unrolled
\* suffixes) and erasures, the trie holds the dictionary: find returns each
\* key's own value, at once or from the locus of a prefix, no other key is
\* found, and for_each and count_leaves see each key once.
TrieHoldsKeys ==
  /\ \A key \in MapKeys :
       LET p == find(smap, key) IN
       IF key \in DOMAIN dict
       THEN p \in DOMAIN smap.items /\ smap.items[p].value = dict[key]
       ELSE p = NotFound \/ (p \notin DOMAIN smap.items /\ ptr_at(smap.items, p).kind = "unset")
  /\ \A key \in DOMAIN dict : \A n \in 0 .. Len(key) :
       find_rel(smap, locate(smap, SubSeq(key, 1, n)), SubSeq(key, n + 1, Len(key)))
         = find(smap, key)
  /\ LET all == for_each(smap, 0, <<>>) IN
     /\ Len(all) = Cardinality(DOMAIN dict) /\ count_leaves(smap, 0) = Len(all)
     /\ ToSet(all) = {<<key, dict[key]>> : key \in DOMAIN dict}

\* The vacant pairs form one ring in ascending order, and the end of the
\* storage is one of them (grow_storage, move_pair, release_pair).
RingOfVacant ==
  /\ end(smap.items) = Max(DOMAIN smap.items) /\ end(smap.items) \in Vacant
  /\ \A i \in Vacant :
       LET above == {j \in Vacant : j > i} IN
       /\ smap.items[i].base = Min(IF above = {} THEN Vacant ELSE above)
       /\ smap.items[smap.items[i].base].parent = i
=============================================================================
