---------------------------- MODULE MplSequences ----------------------------
(***************************************************************************)
(* The type sequences of yesod.old/yesod/mpl.  A sequence is a chain of    *)
(* base classes: each push, erase or mask derives a class from the chain   *)
(* it changes, and a lookup is an overload resolution that finds the most  *)
(* derived declaration.  A type is a value; Void is void_.                 *)
(*                                                                         *)
(*   vector   declarations item_(index) between two bounds                 *)
(*   list     nested items; package: a parameter pack                      *)
(*   set, map chains of items and masks, the most derived first            *)
(***************************************************************************)
EXTENDS Integers, Sequences, SequencesExt, TLC

Void == <<>>

(***************************************************************************)
(* vector.                                                                 *)
(***************************************************************************)
EmptyVector == [tag |-> "vector", lower |-> 32768, upper |-> 32768, size |-> 0, item |-> <<>>]

\* A declaration hides the one its base has for the same index.
Declare(v, index, x) == [v EXCEPT !.item = (index :> x) @@ @]

vector_item(v, x, at_front) ==
  IF at_front
  THEN [Declare(v, v.lower - 1, x) EXCEPT !.lower = @ - 1, !.size = @ + 1]
  ELSE [Declare(v, v.upper, x) EXCEPT !.upper = @ + 1, !.size = @ + 1]

vector_mask(v, at_front) ==
  IF at_front
  THEN [Declare(v, v.lower, Void) EXCEPT !.lower = @ + 1, !.size = @ - 1]
  ELSE [Declare(v, v.upper - 1, Void) EXCEPT !.upper = @ - 1, !.size = @ - 1]

vector_at(v, n) ==
  IF v.lower + n \in DOMAIN v.item THEN v.item[v.lower + n] ELSE Void

vector(xs) == FoldRight(LAMBDA x, v : vector_item(v, x, TRUE), xs, EmptyVector)

(***************************************************************************)
(* list and package.                                                       *)
(***************************************************************************)
list(xs) == [tag |-> "list", item |-> FoldRight(LAMBDA x, next : <<x>> \o next, xs, <<>>)]

package(xs) == [tag |-> "package", item |-> xs]

(***************************************************************************)
(* What every sequence offers, by tag.                                     *)
(***************************************************************************)
push_back(s, x) ==
  CASE s.tag = "vector"  -> vector_item(s, x, FALSE)
    [] s.tag = "package" -> package(Append(s.item, x))

push_front(s, x) ==
  CASE s.tag = "vector"           -> vector_item(s, x, TRUE)
    [] s.tag \in {"list", "package"} -> [s EXCEPT !.item = <<x>> \o @]

pop_back(s) == vector_mask(s, FALSE)

pop_front(s) ==
  CASE s.tag = "vector"           -> vector_mask(s, TRUE)
    [] s.tag \in {"list", "package"} -> [s EXCEPT !.item = Tail(@)]

\* A list declares that it has none; the others have the operation.
has_push_back(s) == s.tag # "list"

clear(s) ==
  CASE s.tag = "vector"  -> EmptyVector
    [] s.tag = "list"    -> list(<<>>)
    [] s.tag = "package" -> package(<<>>)

size(s) == IF s.tag = "vector" THEN s.size ELSE Len(s.item)

empty(s) == IF s.tag = "vector" THEN s.lower = s.upper ELSE Len(s.item) = 0

at(s, n) == IF s.tag = "vector" THEN vector_at(s, n) ELSE s.item[n + 1]

front(s) == at(s, 0)

back(s) == vector_at(s, s.size - 1)

\* What a walk from begin to end dereferences.
Items(s) == [i \in 1 .. size(s) |-> at(s, i - 1)]

(***************************************************************************)
(* set: entries <<"item", key>> and <<"mask", key>>.                       *)
(***************************************************************************)
Topmost(c, k) == SelectInSeq(c, LAMBDA e : e[2] = k)       \* 0 if nothing declares k

set_has_key(c, k) == Topmost(c, k) # 0 /\ c[Topmost(c, k)][1] = "item"

item_type(c) == IF c # <<>> /\ c[1][1] = "item" THEN c[1][2] ELSE Void

last_masked(c) == IF c # <<>> /\ c[1][1] = "mask" THEN c[1][2] ELSE Void

\* Mutant: whichever item is the most derived one is dropped.
set_erase_key_Base(c, k) ==
  IF ~set_has_key(c, k) THEN c
  ELSE IF item_type(c) # Void THEN Tail(c)
  ELSE << <<"mask", k>> >> \o c

set_erase_key(c, k) ==
  IF ~set_has_key(c, k) THEN c
  ELSE IF item_type(c) = k THEN Tail(c)
  ELSE << <<"mask", k>> >> \o c

set_insert(c, k) ==
  IF set_has_key(c, k) THEN c
  ELSE IF last_masked(c) = k THEN Tail(c)
  ELSE << <<"item", k>> >> \o c

\* Each entry counts one up or one down.
ChainSize(c) == FoldLeft(LAMBDA n, e : IF e[1] = "item" THEN n + 1 ELSE n - 1, 0, c)

\* set_iter skips what is no item and what is masked.
set_iter(c) == SelectSeq(c, LAMBDA e : e[1] = "item" /\ set_has_key(c, e[2]))

(***************************************************************************)
(* map: entries <<"item", key, value>> and <<"mask", key, order>>.         *)
(***************************************************************************)
map_at(c, k) ==
  IF Topmost(c, k) # 0 /\ c[Topmost(c, k)][1] = "item" THEN c[Topmost(c, k)][3] ELSE Void

\* Items count their order; map<> has order 1.
ItemOrder(c, i) == 1 + Len(SelectSeq(SubSeq(c, i, Len(c)), LAMBDA e : e[1] = "item"))

x_order(c, k) == ItemOrder(c, SelectInSeq(c, LAMBDA e : e[1] = "item" /\ e[2] = k))

map_has_key(c, k) == map_at(c, k) # Void

map_erase_key(c, k) ==
  IF ~map_has_key(c, k) THEN c
  ELSE IF c[1][1] = "item" /\ c[1][2] = k THEN Tail(c)
  ELSE << <<"mask", k, x_order(c, k)>> >> \o c

\* Only the same pair is refused: another value for the key is a new item.
map_insert(c, k, x) == IF map_at(c, k) = x THEN c ELSE << <<"item", k, x>> >> \o c

item_by_order(c, o) ==
  LET Declares(i) == IF c[i][1] = "item" THEN ItemOrder(c, i) = o ELSE c[i][3] = o
      found == {i \in DOMAIN c : Declares(i) /\ \A j \in 1 .. i - 1 : ~Declares(j)}
  IN  IF found = {} THEN Void
      ELSE LET e == c[CHOOSE i \in found : TRUE]
           IN  IF e[1] = "item" THEN <<e[2], e[3]>> ELSE Void

\* map_iter: the orders up to the last one whose item is not masked.
map_iter(c) ==
  SelectSeq([o \in 1 .. ItemOrder(c, 1) |-> item_by_order(c, o)], LAMBDA p : p # Void)
=============================================================================
