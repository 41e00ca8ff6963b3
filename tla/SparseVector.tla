---------------------------- MODULE SparseVector ----------------------------
(***************************************************************************)
(* The sparse vectors of yesod.old: sparse_vector, a radix tree whose      *)
(* nodes are compressed_arrays that hold few items in little space and     *)
(* grow or shrink by steps, and pod_sparse_vector, a radix tree of plain   *)
(* pages with a cache of the page used last.                               *)
(*                                                                         *)
(* A node of sparse_vector is [ord, kids]: which of its possible sizes it  *)
(* has, and a partial function from places to children or values.  A page  *)
(* of pod_sparse_vector is named by its number, pos >> data order.         *)
(***************************************************************************)
EXTENDS Integers, Sequences, SequencesExt, FiniteSets

CONSTANTS
  data_node_order, ptr_node_order,   \* possible orders, ascending
  word_bits,                         \* of the packed index
  Positions,                         \* the positions that are used
  MaxWrites                          \* bound: operations that write

VARIABLES vec, ref, writes

vecVars == <<vec, ref, writes>>

None == <<>>

Sorted(S) ==
  [i \in 1 .. Cardinality(S) |-> CHOOSE x \in S : Cardinality({y \in S : y < x}) = i - 1]

D == Last(data_node_order)
P == Last(ptr_node_order)

\* static_bit_field_map<BitCount, true, data order, ptr order>: the first bit
\* and the width of each level's field.
field_map(bit_count) ==
  [h \in 1 .. 1 + (bit_count - D + P - 1) \div P |->
     LET first == IF h = 1 THEN 0 ELSE D + (h - 2) * P IN
     [first |-> first,
      width |-> Min({IF h = 1 THEN D ELSE P, bit_count - first})]]

node_offset(pos, h) ==
  (pos \div 2 ^ field_map(64)[h].first) % 2 ^ field_map(64)[h].width

\* The place of the highest bit.
fls(n) == CHOOSE k \in 0 .. 63 : 2 ^ k <= n /\ n < 2 ^ (k + 1)

height_at_pos(pos) == IF pos >= 2 ^ D THEN (fls(pos) - D) \div P + 2 ELSE 1

Reach(height) == 2 ^ (D + (height - 1) * P)

(***************************************************************************)
(* compressed_array: an index of Order bits for each apparent place, all   *)
(* ones where there is no item, packed into words.  A word is the set of   *)
(* its bits.                                                               *)
(***************************************************************************)
Ones(n) == 0 .. n - 1
ShiftR(w, n) == {b - n : b \in {c \in w : c >= n}}
ShiftL(w, n) == {b \in {c + n : c \in w} : b < word_bits}

get_index(words, order, pos) ==
  LET b == pos * order
      e == b + order - 1
      w1 == ShiftR(words[b \div word_bits], b % word_bits) \cap Ones(order)
      w2 == ShiftL(words[e \div word_bits], word_bits - (e % word_bits) - 1)
            \cap ShiftL(Ones(order), word_bits - order) IN
  w1 \cup ShiftR(w2, word_bits - order)

set_index(words, order, pos, value) ==
  LET b == pos * order
      e == b + order - 1
      back == word_bits - (e % word_bits) - 1
      low == [words EXCEPT ![b \div word_bits] =
                (@ \ ShiftL(Ones(order), b % word_bits)) \cup ShiftL(value, b % word_bits)] IN
  [low EXCEPT ![e \div word_bits] =
     (@ \ ShiftR(ShiftL(Ones(order), word_bits - order), back))
     \cup ShiftR(ShiftL(value, word_bits - order), back)]

\* The first place from first on whose index has a zero bit.
find_occupied(words, order, first, size) ==
  LET zeros == {w * word_bits + b : <<w, b>> \in
                  {<<x, c>> \in (DOMAIN words) \X Ones(word_bits) : c \notin words[x]}}
      found == {z \in zeros : z >= first * order} IN
  IF found = {} THEN size ELSE Min(found) \div order

\* An index for 2^apparent places, filled from a partial function.
Packed(order, apparent, slots) ==
  LET count == (order * 2 ^ apparent + word_bits - 1) \div word_bits IN
  FoldLeft(LAMBDA words, pos : set_index(words, order, pos, slots[pos]),
           [w \in 0 .. count - 1 |-> Ones(word_bits)], Sorted(DOMAIN slots))

(***************************************************************************)
(* sparse_vector.                                                          *)
(***************************************************************************)
Orders(level) == IF level = 1 THEN data_node_order ELSE ptr_node_order

\* storage_size: a compressed node cannot use the index of all ones.
storage_size(level, ord) ==
  2 ^ Orders(level)[ord] - (IF ord = Len(Orders(level)) THEN 0 ELSE 1)

make(level, maximize) == [ord |-> IF maximize THEN Len(Orders(level)) ELSE 1, kids |-> None]

grow_node(level, node, maximize) ==
  [node EXCEPT !.ord = IF maximize THEN Len(Orders(level)) ELSE Min({@ + 1, Len(Orders(level))})]

\* reserve_at, after grow_node where the node is full.
Room(level, node, digit, maximize) ==
  IF digit \in DOMAIN node.kids \/ Cardinality(DOMAIN node.kids) < storage_size(level, node.ord)
  THEN node ELSE grow_node(level, node, maximize)

\* emplace leaves a present value; assign is what for_each_pos's function does.
RECURSIVE Put(_, _, _, _, _)
Put(level, node, pos, value, how) ==
  LET digit == node_offset(pos, level)
      maximize == how.assign /\ level <= how.max_level
      room == Room(level, IF maximize /\ level = 1 THEN grow_node(level, node, TRUE) ELSE node,
                   digit, maximize)
      kid == IF digit \in DOMAIN node.kids THEN node.kids[digit]
             ELSE make(level - 1, how.assign /\ level - 1 <= how.max_level) IN
  IF level > 1
  THEN [room EXCEPT !.kids = (digit :> Put(level - 1, kid, pos, value, how)) @@ @]
  ELSE IF how.assign THEN [room EXCEPT !.kids = (digit :> value) @@ @]
  ELSE [room EXCEPT !.kids = @ @@ (digit :> value)]

\* alloc_data_node_at: the tree becomes high enough, the old root goes to
\* place 0 of the new ones.
RECURSIVE Raised(_, _)
Raised(v, height) ==
  CASE v.height >= height -> v
    [] v.height = 0 -> [v EXCEPT !.height = height, !.root = make(height, FALSE)]
    [] OTHER -> Raised([v EXCEPT !.height = @ + 1,
                                 !.root = [make(v.height + 1, FALSE) EXCEPT !.kids = 0 :> v.root]],
                       height)

emplace(v, pos, value) ==
  LET r == Raised(v, height_at_pos(pos)) IN
  [r EXCEPT !.root = Put(r.height, @, pos, value, [assign |-> FALSE, max_level |-> 0])]

for_each_pos(v, first, last, value) ==
  LET r == Raised(v, height_at_pos(last - 1))
      how == [assign |-> TRUE, max_level |-> Max({1, height_at_pos(last - first)})] IN
  [r EXCEPT !.root = FoldLeft(LAMBDA n, p : Put(r.height, n, p, value, how), @,
                              [i \in 1 .. last - first |-> first + i - 1])]

RECURSIVE Lookup(_, _, _)
Lookup(level, node, pos) ==
  LET digit == node_offset(pos, level) IN
  IF digit \notin DOMAIN node.kids THEN None
  ELSE IF level = 1 THEN <<node.kids[digit]>>
  ELSE Lookup(level - 1, node.kids[digit], pos)

ptr_at(v, pos) == IF v.height = 0 THEN None ELSE Lookup(v.height, v.root, pos)

RECURSIVE Erased(_, _, _)
Erased(level, node, pos) ==
  LET digit == node_offset(pos, level) IN
  IF digit \notin DOMAIN node.kids THEN node
  ELSE IF level = 1 THEN [node EXCEPT !.kids = [d \in DOMAIN @ \ {digit} |-> @[d]]]
  ELSE [node EXCEPT !.kids[digit] = Erased(level - 1, @, pos)]

erase(v, pos) == IF v.height = 0 THEN v ELSE [v EXCEPT !.root = Erased(v.height, @, pos)]

clear == [kind |-> "sparse", height |-> 0, root |-> make(1, FALSE)]

\* shrink_node: the smallest size that holds what is left, children first.
RECURSIVE Shrunk(_, _)
Shrunk(level, node) ==
  LET kids == IF level = 1 THEN node.kids
              ELSE LET small == [d \in DOMAIN node.kids |-> Shrunk(level - 1, node.kids[d])] IN
                   [d \in {e \in DOMAIN small : small[e].kids # None} |-> small[d]]
      fits == {o \in 1 .. node.ord : Cardinality(DOMAIN kids) <= storage_size(level, o)} IN
  [ord |-> Min(fits), kids |-> kids]

\* Roots with a single child at place 0 are dropped.
RECURSIVE Lowered(_)

Lowered(v) ==
  IF v.height > 1 /\ DOMAIN v.root.kids = {0}
  THEN Lowered([v EXCEPT !.height = @ - 1, !.root = @.kids[0]]) ELSE v

shrink_to_fit(v) ==
  LET root == Shrunk(v.height, v.root) IN
  IF v.height = 0 THEN v
  ELSE IF root.kids = None THEN clear
  ELSE Lowered([v EXCEPT !.root = root])

\* for_each: the digits of first are where each level starts the first time
\* it is entered, whichever node that is.
RECURSIVE Visit(_, _, _, _)
Visit(level, node, n_pos, starts) ==
  LET digits == Sorted({d \in DOMAIN node.kids : d >= starts[level]})
      Next(acc, d) ==
        LET sub == Visit(level - 1, node.kids[d], n_pos * 2 ^ P + d, acc.starts) IN
        [seen |-> acc.seen \o sub.seen, starts |-> sub.starts]
      all == IF level = 1
             THEN [seen |-> [i \in DOMAIN digits |->
                              <<n_pos * 2 ^ D + digits[i], node.kids[digits[i]]>>],
                   starts |-> starts]
             ELSE FoldLeft(Next, [seen |-> <<>>, starts |-> starts], digits) IN
  [all EXCEPT !.starts[level] = 0]

for_each(v, first) ==
  IF v.height < height_at_pos(first) THEN <<>>
  ELSE Visit(v.height, v.root, 0, [h \in 1 .. v.height |-> node_offset(first, h)]).seen

\* The level of the first missing child on the way to data node k, or 0.
RECURSIVE MissingAt(_, _, _)
MissingAt(level, node, pos) ==
  LET digit == node_offset(pos, level) IN
  CASE level = 1 -> 0
    [] level > 1 /\ digit \notin DOMAIN node.kids -> level
    [] OTHER -> MissingAt(level - 1, node.kids[digit], pos)

RECURSIVE DataNode(_, _, _)
DataNode(level, node, pos) ==
  IF level = 1 THEN node ELSE DataNode(level - 1, node.kids[node_offset(pos, level)], pos)

\* What the scan meets past the end of a full tree is outside the root node.
Undefined == -1

\* From data node k on.  A gap at an upper level is turned into a position
\* with one shift too many.
RECURSIVE ScanFrom(_, _, _)

ScanFrom(v, k, d) ==
  LET pos == k * 2 ^ D
      gap == MissingAt(v.height, v.root, pos)
      free == {i \in d .. 2 ^ D - 1 : i \notin DOMAIN DataNode(v.height, v.root, pos).kids} IN
  CASE pos >= Reach(v.height) -> Undefined
    [] pos < Reach(v.height) /\ gap > 2 -> (k \div 2 ^ (P * (gap - 2))) * 2 ^ (P * (gap - 1) + D)
    [] pos < Reach(v.height) /\ gap = 2 -> pos
    [] OTHER -> IF free = {} THEN ScanFrom(v, k + 1, 0) ELSE pos + Min(free)

find_vacant(v, first) ==
  IF v.height = 0 \/ MissingAt(v.height, v.root, first) # 0 THEN first
  ELSE ScanFrom(v, first \div 2 ^ D, first % 2 ^ D)

(***************************************************************************)
(* pod_sparse_vector: pages, the height above them (0: the only page is    *)
(* data itself), and the cached page with the number it was asked for as.  *)
(***************************************************************************)
PodEmpty == [kind |-> "pod", height |-> 0, pages |-> None, data |-> None]

NewPage == [i \in 0 .. 2 ^ D - 1 |-> 0]

pod_height_at_pos(pos) == IF pos >= 2 ^ D THEN (fls(pos) - D) \div P + 1 ELSE 0

\* The page a position is looked up in: higher bits than the tree is high
\* are not looked at.
PageOf(v, pos) == (pos \div 2 ^ D) % 2 ^ (P * v.height)

alloc_data_node_at(v, pos) ==
  LET k == pos \div 2 ^ D IN
  [v EXCEPT !.height = Max({@, pod_height_at_pos(pos)}),
            !.pages = @ @@ (k :> NewPage), !.data = <<k, k>>]

pod_for_each_pos(v, first, last, value) ==
  LET r == alloc_data_node_at(v, last - 1)
      between == [k \in first \div 2 ^ D .. (last - 1) \div 2 ^ D |->
                    IF k \in DOMAIN r.pages THEN r.pages[k] ELSE NewPage] IN
  [r EXCEPT !.pages =
     [k \in DOMAIN between |->
        [i \in DOMAIN NewPage |->
           IF k * 2 ^ D + i \in first .. last - 1 THEN value ELSE between[k][i]]] @@ @]

pod_ptr_at(v, pos) ==
  LET k == pos \div 2 ^ D
      page == IF v.data # None /\ v.data[2] = k THEN v.data[1] ELSE PageOf(v, pos) IN
  IF page \in DOMAIN v.pages /\ (v.height > 0 \/ page = k) THEN <<v.pages[page][pos % 2 ^ D]>>
  ELSE None

\* The lookup leaves the page it found in the cache.
Cached(v, pos) ==
  IF pod_ptr_at(v, pos) # None /\ (v.data = None \/ v.data[2] # pos \div 2 ^ D)
  THEN [v EXCEPT !.data = <<PageOf(v, pos), pos \div 2 ^ D>>] ELSE v

(***************************************************************************)
(* Programs: a vector beside the partial function it stands for.           *)
(***************************************************************************)
Init ==
  /\ vec \in {clear, PodEmpty} /\ ref = None /\ writes = 0

Write(v, r) == writes < MaxWrites /\ writes' = writes + 1 /\ vec' = v /\ ref' = r

Emplace(pos) ==
  /\ vec.kind = "sparse"
  /\ Write(emplace(vec, pos, writes + 1), ref @@ (pos :> writes + 1))

Erase(pos) ==
  /\ vec.kind = "sparse" /\ pos < Reach(vec.height)
  /\ Write(erase(vec, pos), [p \in DOMAIN ref \ {pos} |-> ref[p]])

Fill(first, last) ==
  LET r == [p \in first .. last - 1 |-> writes + 1] @@ ref IN
  \/ vec.kind = "sparse" /\ Write(for_each_pos(vec, first, last, writes + 1), r)
  \/ vec.kind = "pod" /\ Write(pod_for_each_pos(vec, first, last, writes + 1), r)

Shrink == vec.kind = "sparse" /\ Write(shrink_to_fit(vec), ref)

Clear == Write(IF vec.kind = "sparse" THEN clear ELSE PodEmpty, None)

Read(pos) ==
  vec.kind = "pod" /\ vec' = Cached(vec, pos) /\ UNCHANGED <<ref, writes>>

Next ==
  \/ \E pos \in Positions :
       \/ Emplace(pos) \/ Erase(pos) \/ Read(pos)
       \/ \E n \in {1, 2 ^ D} : Fill(pos, pos + n)
  \/ Shrink \/ Clear

Spec == Init /\ [][Next]_vecVars

(***************************************************************************)
(* Properties.                                                             *)
(***************************************************************************)
RECURSIVE Fits(_, _)
Fits(level, node) ==
  /\ Cardinality(DOMAIN node.kids) <= storage_size(level, node.ord)
  /\ level > 1 => \A d \in DOMAIN node.kids : Fits(level - 1, node.kids[d])

\* However the tree was raised, grown, emptied and shrunk, every position
\* within its height reads what was stored there last, a traversal from 0
\* meets the positions in order, and no node holds more than it has room for
\* (alloc_data_node_at, resize_node, shrink_to_fit, the page cache).
VectorHoldsItems ==
  IF vec.kind = "sparse"
  THEN /\ Fits(Max({1, vec.height}), vec.root)
       /\ \A pos \in Positions : (vec.height = 0 \/ pos < Reach(vec.height)) =>
            ptr_at(vec, pos) = IF pos \in DOMAIN ref THEN <<ref[pos]>> ELSE None
       /\ for_each(vec, 0) = [i \in 1 .. Cardinality(DOMAIN ref) |->
                                <<Sorted(DOMAIN ref)[i], ref[Sorted(DOMAIN ref)[i]]>>]
  ELSE \A pos \in Positions : pos \in DOMAIN ref => pod_ptr_at(vec, pos) = <<ref[pos]>>

\* While a tree has at most two levels of pointers, find_vacant returns the
\* first vacant position from its argument on, or one past the tree.
FindsVacant ==
  vec.kind = "sparse" /\ vec.height \in 1 .. 3 =>
    \A first \in {p \in Positions : p < Reach(vec.height)} :
      LET found == find_vacant(vec, first) IN
      \/ found = Undefined
      \/ found >= first /\ found \notin DOMAIN ref
         /\ (found < Reach(vec.height) => first .. found - 1 \subseteq DOMAIN ref)

\* The packed index gives back what was put in, across words, and finds
\* exactly the places that have one (get_index, set_index, find_occupied).
IndexPacks ==
  \A order \in 2 .. 3 : \A places \in SUBSET (0 .. 4) :
    LET slots == [p \in places |-> IF p % 2 = 0 THEN {} ELSE {0}]
        words == Packed(order, 3, slots) IN
    /\ \A p \in 0 .. 7 : get_index(words, order, p) = IF p \in places THEN slots[p] ELSE Ones(order)
    /\ \A p \in 0 .. 7 :
         find_occupied(words, order, p, 8) = Min({q \in places : q >= p} \cup {8})
=============================================================================
