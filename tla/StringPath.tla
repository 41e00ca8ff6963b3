----------------------------- MODULE StringPath -----------------------------
(***************************************************************************)
(* string_path of yesod: the components of a path in one string, with a    *)
(* bitmap whose ones are where they start.  A short path is kept inside    *)
(* the object, a longer one in a block of a memory resource, whose address *)
(* is kept at the end of the block.                                        *)
(*                                                                         *)
(* Characters are numbers.  The bitmap is a set of positions, counted from *)
(* the start of the word it begins in, as bitmap does (module Bits).       *)
(***************************************************************************)
EXTENDS Integers, Sequences, FiniteSets, SequencesExt, FiniteSetsExt

CONSTANTS Slots,       \* variables of the type
          Texts,       \* what paths are made from
          Sep, Esc,    \* the separator and the escape
          Resources,   \* memory resources; None is new_delete_resource
          None,
          DataSize,    \* bytes of the object
          ByteBits, W, \* bits of a byte and of a word
          PtrBytes,
          MaxOps       \* bound: operations

VARIABLES slot,        \* the paths, or NoPath
          ref,         \* the components each should have; Unknown if spoiled
          blocks,      \* what the resources have given out
          ops

vars == <<slot, ref, blocks, ops>>

B == INSTANCE Bits WITH n <- 0, bset <- {}, ref <- {}, changes <- 0, Sizes <- {}, MaxChanges <- 0

byte_count(sz) == sz \div ByteBits + (IF sz % ByteBits = 0 THEN 0 ELSE 1)

size_limit == DataSize - 1 - byte_count(DataSize - 1)

NoPath == [kind |-> "none"]
Unknown == <<<<>>>>

-----------------------------------------------------------------------------
(* The tokenizer: characters up to the next separator that is not escaped. *)
-----------------------------------------------------------------------------

RECURSIVE parse(_, _, _, _)
parse(text, pos, t_state, out) ==
  IF pos > Len(text) THEN [more |-> FALSE, pos |-> pos, t_state |-> t_state, out |-> out]
  ELSE LET c == text[pos] IN
       IF t_state = "escape" THEN parse(text, pos + 1, "normal", Append(out, c))
       ELSE IF c = Sep THEN [more |-> TRUE, pos |-> pos + 1, t_state |-> "separator", out |-> out]
       ELSE IF c = Esc THEN parse(text, pos + 1, "escape", out)
       ELSE parse(text, pos + 1, t_state, Append(out, c))

\* populate_p: a one where the string begins and one after every separator.
RECURSIVE Fill(_, _, _, _, _)
Fill(text, pos, t_state, str, map) ==
  LET r == parse(text, pos, t_state, <<>>) IN
  IF r.more THEN Fill(text, r.pos, r.t_state, str \o r.out, map \cup {Len(str \o r.out)})
  ELSE [str |-> str \o r.out, map |-> map]

populate_p(text) == Fill(text, 1, "normal", <<>>, {0})

-----------------------------------------------------------------------------
(* A path.  Its bitmap begins with the second byte of the object, or with  *)
(* the block.                                                              *)
-----------------------------------------------------------------------------

Base(heap) == IF heap THEN 0 ELSE ByteBits
Start(p) == Base(p.heap)

Heap(str_sz) == size_limit < str_sz

\* A bit set at the end of a bitmap that fills its bytes is one of the
\* first character.
Spoil(str, map) ==
  IF str # <<>> /\ Len(str) \in map /\ Len(str) % ByteBits = 0
  THEN [str EXCEPT ![1] = @ + 1 - (@ % 2)] ELSE str

Path(heap, str, map, block, res) ==
  [kind |-> "path", heap |-> heap, str |-> str,
   map |-> map \cap (Base(heap)..(Base(heap) + ByteBits * byte_count(Len(str)) - 1)),
   block |-> block, res |-> res]

size(p) == B!count_ones(p.map, Start(p), Start(p) + Len(p.str))

storage_size(str_sz, res) ==
  LET sz == str_sz + byte_count(str_sz)
      rem == sz % PtrBytes
  IN  IF res = None THEN sz ELSE sz + (IF rem = 0 THEN 0 ELSE PtrBytes - rem) + PtrBytes

Lowest == CHOOSE i \in 1..(Cardinality(blocks) + 1) : \A b \in blocks : b.id # i

\* common_init of string_path_impl<1>.
Block(str_sz, res) ==
  IF Heap(str_sz) THEN {[id |-> Lowest, bytes |-> storage_size(str_sz, res), res |-> res]} ELSE {}

\* Iterators are positions of the string.
increment(p, pos) == pos + B!find_nth_one(p.map, 1, Start(p) + pos + 1, Start(p) + Len(p.str)) + 1
decrement(p, pos) == pos - B!find_nth_one_r(p.map, 1, Start(p), Start(p) + pos)

\* It stops one character before the component; a count of zero is not served.
advance(p, pos, count) ==
  IF count >= 0 THEN pos + B!find_nth_one(p.map, count, Start(p) + pos + 1, Start(p) + Len(p.str))
  ELSE pos - B!find_nth_one_r(p.map, -count, Start(p), Start(p) + pos)

distance_to(p, pos, other) ==
  IF pos > other THEN -B!count_ones(p.map, Start(p) + other, Start(p) + pos)
  ELSE B!count_ones(p.map, Start(p) + pos, Start(p) + other)

dereference(p, pos) == SubSeq(p.str, pos + 1, increment(p, pos))

\* equals compares whole bytes of the bitmaps.
equals(p, q) ==
  /\ p.str = q.str
  /\ {i - Start(p) : i \in p.map} = {i - Start(q) : i \in q.map}

sep(p, pos) == Start(p) + pos \in p.map

\* Up to the first place where they differ, in the bit or in the character;
\* at the end of the shorter one a component must end in the longer one too.
common_head_size(p, q) ==
  LET c_size == Min({Len(p.str), Len(q.str)})
      same(pos) == sep(p, pos) = sep(q, pos) /\ p.str[pos + 1] = q.str[pos + 1]
      stop == Min({pos \in 1..(c_size - 1) : ~same(pos)} \cup {c_size})
      seps == {pos \in 1..Min({stop, c_size - 1}) : sep(p, pos) /\ sep(q, pos)}
      ends == \/ Len(p.str) = Len(q.str)
              \/ Len(p.str) > Len(q.str) /\ sep(p, c_size)
              \/ Len(p.str) < Len(q.str) /\ sep(q, c_size)
  IN  IF c_size = 0 \/ p.str[1] # q.str[1] THEN 0
      ELSE Cardinality(seps) + (IF stop = c_size /\ ends THEN 1 ELSE 0)

\* The same from the end; a component counts when its start is reached.
RECURSIVE common_tail_size(_, _, _, _)
common_tail_size(p, q, ps0, ps1) ==
  IF ps0 < 0 \/ ps1 < 0 \/ p.str[ps0 + 1] # q.str[ps1 + 1] \/ sep(p, ps0) # sep(q, ps1) THEN 0
  ELSE (IF sep(p, ps0) THEN 1 ELSE 0) + common_tail_size(p, q, ps0 - 1, ps1 - 1)

-----------------------------------------------------------------------------

\* The components of a text: what stands between separators, the empty ones
\* left out.
Plain(text) ==
  LET escaped[i \in 0..Len(text)] == i > 1 /\ text[i - 1] = Esc /\ ~escaped[i - 1]
      seps == {i \in 1..Len(text) : text[i] = Sep /\ ~escaped[i]} \cup {0, Len(text) + 1}
      shown == {i \in 1..Len(text) : ~(text[i] = Esc /\ ~escaped[i]) /\ i \notin seps}
      starts == {i \in seps : \E j \in shown : j > i /\ \A k \in i + 1..j : k \notin seps}
      chars(i) == LET end == Min({j \in seps : j > i})
                      ids == B!Sorted({k \in shown : i < k /\ k < end})
                  IN  [k \in 1..Len(ids) |-> text[ids[k]]]
      order == B!Sorted(starts)
  IN  [k \in 1..Len(order) |-> chars(order[k])]

Init ==
  /\ slot = [s \in Slots |-> NoPath]
  /\ ref = [s \in Slots |-> <<>>]
  /\ blocks = {}
  /\ ops = 0

\* s gets the path p, with the block given out for it, and should spell comps.
Put(s, p, new, comps) ==
  /\ ops < MaxOps
  /\ ops' = ops + 1
  /\ slot[s] = NoPath
  /\ slot' = [slot EXCEPT ![s] = p]
  /\ ref' = [ref EXCEPT ![s] = comps]
  /\ blocks' = blocks \cup new

\* from_posix_like_string
Make(s, text, res) ==
  LET r == populate_p(text)
      heap == Heap(Len(r.str))
      str == Spoil(r.str, r.map)
  IN  Put(s, Path(heap, str, {Base(heap) + i : i \in r.map},
                  IF heap THEN Lowest ELSE 0, IF heap THEN res ELSE None),
          Block(Len(r.str), res), IF str = r.str THEN Plain(text) ELSE Unknown)

\* The copy constructor allocates from the resource of its source.
Copy(s, t) ==
  LET p == slot[t] IN
  /\ p # NoPath
  /\ Put(s, IF p.heap THEN [p EXCEPT !.block = Lowest] ELSE p,
         IF p.heap THEN Block(Len(p.str), p.res) ELSE {}, ref[t])

Empty == Path(FALSE, <<>>, {}, 0, None)

Move(s, t) ==
  /\ slot[s] = NoPath /\ slot[t] # NoPath
  /\ ops < MaxOps /\ ops' = ops + 1
  /\ slot' = [slot EXCEPT ![s] = slot[t], ![t] = Empty]
  /\ ref' = [ref EXCEPT ![s] = ref[t], ![t] = <<>>]
  /\ UNCHANGED blocks

Destroy(s) ==
  LET p == slot[s] IN
  /\ p # NoPath
  /\ slot' = [slot EXCEPT ![s] = NoPath]
  /\ ref' = [ref EXCEPT ![s] = <<>>]
  /\ blocks' = IF p.heap
               THEN blocks \ {[id |-> p.block, bytes |-> storage_size(Len(p.str), p.res), res |-> p.res]}
               ELSE blocks
  /\ UNCHANGED ops

\* A whole word of the bitmap that bitmap::copy puts to the middle of a
\* word does not arrive right.
Misplaced(p, first, last, at) ==
  LET src == Start(p) + first
  IN  /\ (at - src) % W # 0
      /\ \E w \in 0..((Start(p) + last) \div W) : src <= w * W /\ (w + 1) * W <= Start(p) + last

\* The bitmap dst with the ones of p from at on.
populate_c(dst, at, p) == B!copy(dst, at, p.map, Start(p), Start(p) + Len(p.str))

\* cat of two paths
Cat(s, t, u, res) ==
  LET p == slot[t]
      q == slot[u]
      str == p.str \o q.str
      heap == Heap(Len(str))
      at == Base(heap)
      map == populate_c(populate_c({}, at, p), at + Len(p.str), q)
      bad == \/ Misplaced(p, 0, Len(p.str), at) \/ Misplaced(q, 0, Len(q.str), at + Len(p.str))
             \/ Unknown \in {ref[t], ref[u]}
  IN  /\ p # NoPath /\ q # NoPath
      /\ Put(s, Path(heap, str, map, IF heap THEN Lowest ELSE 0, IF heap THEN res ELSE None),
             Block(Len(str), res), IF bad THEN Unknown ELSE ref[t] \o ref[u])

populate_i(p, at, first, last) == B!copy({}, at, p.map, Start(p) + first, Start(p) + last)

\* The characters of [first, last); comps are the components they should be.
Sub(s, p, first, last, res, comps) ==
  LET str == SubSeq(p.str, first + 1, last)
      heap == Heap(Len(str))
      map == populate_i(p, Base(heap), first, last)
  IN  Put(s, Path(heap, str, map, IF heap THEN Lowest ELSE 0, IF heap THEN res ELSE None),
          Block(Len(str), res), IF Misplaced(p, first, last, Base(heap)) THEN Unknown ELSE comps)

\* Where the first k components end, by increments from the start.
RECURSIVE At(_, _)
At(p, k) == IF k = 0 THEN 0 ELSE increment(p, At(p, k - 1))

sub_range(s, t, i, j, res) ==
  /\ slot[t] # NoPath /\ ref[t] # Unknown /\ i <= j /\ j <= Len(ref[t])
  /\ Sub(s, slot[t], At(slot[t], i), At(slot[t], j), res, SubSeq(ref[t], i + 1, j))

\* All but the last character of the first count components.
Cut(comps, count) ==
  LET k == Min({count, Len(comps)})
      whole == SubSeq(comps, 1, k - 1)
  IN  IF Len(comps[k]) = 1 THEN whole ELSE Append(whole, Front(comps[k]))

\* head by advance, which stops early.
head(s, t, count, res) ==
  /\ slot[t] # NoPath /\ ref[t] \notin {Unknown, <<>>}
  /\ Sub(s, slot[t], 0, advance(slot[t], 0, count), res, Cut(ref[t], count))

Next ==
  \E s \in Slots :
    \/ Destroy(s)
    \/ \E text \in Texts, res \in Resources \cup {None} : Make(s, text, res)
    \/ \E t \in Slots : Copy(s, t) \/ Move(s, t)
    \/ \E t, u \in Slots, res \in Resources \cup {None} : Cat(s, t, u, res)
    \/ \E t \in Slots, res \in Resources \cup {None} :
         \/ \E i, j \in 0..3 : sub_range(s, t, i, j, res)
         \/ \E count \in 1..3 : head(s, t, count, res)

Spec == Init /\ [][Next]_vars

-----------------------------------------------------------------------------

Known == {s \in Slots : slot[s] # NoPath /\ ref[s] # Unknown}

Common(a, b) == Max({k \in 0..Min({Len(a), Len(b)}) : SubSeq(a, 1, k) = SubSeq(b, 1, k)})

\* A separator ended the text: a one stands after the last component.
Ended(p) == sep(p, Len(p.str))

(***************************************************************************)
(* A path spells its components in both directions, counts them, and gives *)
(* the distances between them; paths are equal, and share a head or a tail *)
(* of components, as the lists of their components do, wherever they are   *)
(* kept and however they were made, unless a separator ended one of them;  *)
(* and every block is of one path, which gives it back with its size to    *)
(* the resource it came from.                                              *)
(***************************************************************************)
PathsSpell ==
  /\ \A s \in Known :
       LET p == slot[s]
           places == [k \in 0..Len(ref[s]) |-> At(p, k)]
       IN  /\ size(p) = Len(ref[s])
           /\ places[Len(ref[s])] = Len(p.str)
           /\ \A k \in 1..Len(ref[s]) :
                /\ dereference(p, places[k - 1]) = ref[s][k]
                /\ decrement(p, places[k]) = places[k - 1]
                /\ advance(p, places[Len(ref[s])], k - 1 - Len(ref[s])) = places[k - 1]
                /\ distance_to(p, places[k], places[0]) = -k
  /\ \A s, t \in Known :
       LET p == slot[s]
           q == slot[t]
       IN  /\ Ended(p) \/ Ended(q) \/ equals(p, q) = (ref[s] = ref[t])
           /\ common_head_size(p, q) = Common(ref[s], ref[t])
           /\ common_tail_size(p, q, Len(p.str) - 1, Len(q.str) - 1) =
                Common(Reverse(ref[s]), Reverse(ref[t]))
  /\ LET heaps == {s \in Slots : slot[s] # NoPath /\ slot[s].kind = "path" /\ slot[s].heap}
     IN  /\ \A s, t \in heaps : s # t => slot[s].block # slot[t].block
         /\ blocks = {[id |-> slot[s].block, bytes |-> storage_size(Len(slot[s].str), slot[s].res),
                       res |-> slot[s].res] : s \in heaps}
=============================================================================
