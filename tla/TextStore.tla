------------------------------ MODULE TextStore -----------------------------
(***************************************************************************)
(* mina's named packager over a text store: np_packager walks the fields   *)
(* of an object, text_store_adaptor turns the walk into dotted keys, and   *)
(* store::gdbm keeps the keys and texts in a database.  Elements without a *)
(* name are called value_0, value_1, ... within their level.               *)
(*                                                                         *)
(* A type is a record: "num", "list" (numbers in one text), "vec", "arr"   *)
(* and "rec".  A key is a sequence of names, a name a sequence whose tail, *)
(* if any, is the digits of a number; a text is the sequence of its        *)
(* numbers (module AsciiIntegers converts them).                           *)
(***************************************************************************)
EXTENDS Integers, Sequences, FiniteSets, SequencesExt, Functions

CONSTANTS Type,        \* the type of the object
          Name,        \* the name it is packed under
          Values,      \* values of the type
          Radix,       \* of the numbers in names
          small_string_size,
          MaxOps       \* bound: packagings

VARIABLES db,          \* the database: keys to texts
          expect,      \* what has been saved into it
          object,      \* the object restored last
          live,        \* long fixed_strings that were not destroyed
          ops

vars == <<db, expect, object, live, ops>>

RECURSIVE Digits(_)
Digits(n) == IF n < Radix THEN <<n>> ELSE Append(Digits(n \div Radix), n % Radix)

RECURSIVE Default(_)
Default(type) ==
  CASE type.t = "num" -> 0
    [] type.t = "arr" -> [i \in 1..type.n |-> Default(type.of)]
    [] type.t = "rec" -> [i \in 1..Len(type.fields) |-> Default(type.fields[i].type)]
    [] OTHER -> <<>>

-----------------------------------------------------------------------------
(* fixed_string: a long one has a block of its own.                        *)
-----------------------------------------------------------------------------

make(length) == IF length > small_string_size THEN 1 ELSE 0
destroy(length) == -make(length)

\* Every name is one character long, every number too.
KeySize(key) == IF key = <<>> THEN 0 ELSE 2 * Len(key) - 1
TextSize(text) == IF text = <<>> THEN 0 ELSE 3 * Len(text) - 2

-----------------------------------------------------------------------------
(* text_store_adaptor.  st is the packager at work: the database, the map  *)
(* of items read from it, the levels, and the strings that live.  A level  *)
(* that was located has keys below its name.                               *)
-----------------------------------------------------------------------------

Under(items, key) == {k \in DOMAIN items : IsPrefix(key, k)}

level(loc, name) == [loc |-> loc, name |-> name, child_name_cnt |-> 0]

Top(st) == Last(st.levels)

make_next_auto_name(st) == Append(Top(st).name, <<"value">> \o Digits(Top(st).child_name_cnt))
make_next_name(st, name) == IF name = "" THEN make_next_auto_name(st) ELSE Append(Top(st).name, <<name>>)

\* Counts an element that had no name.
Counted(st, name) ==
  IF name # "" THEN st
  ELSE [st EXCEPT !.levels[Len(st.levels)].child_name_cnt = @ + 1]

\* Mutant: a level without a name of its own is not counted by its parent.
descend_Same(st, name) ==
  LET key == make_next_name(st, name)
      loc == Top(st).loc /\ Under(st.items, key) # {}
  IN  [st EXCEPT !.levels = Append(@, level(loc, key)), !.live = @ + make(KeySize(key))]

descend(st, name) ==
  LET key == make_next_name(st, name)
      loc == Top(st).loc /\ Under(st.items, key) # {}
      next == Counted(st, name)
  IN  [next EXCEPT !.levels = Append(@, level(loc, key)), !.live = @ + make(KeySize(key))]

ascend(st) ==
  [st EXCEPT !.levels = Front(@), !.live = @ + destroy(KeySize(Top(st).name))]

\* The key and the text live as long as the call.
save_value(st, name, text) ==
  Counted([st EXCEPT !.db = [k \in DOMAIN st.db \cup {make_next_name(st, name)} |->
                               IF k = make_next_name(st, name) THEN text ELSE st.db[k]]], name)

\* The text under the name, or none.
find_rel(st, name) ==
  LET key == make_next_name(st, name)
  IN  IF Top(st).loc /\ key \in DOMAIN st.items THEN <<st.items[key]>> ELSE <<>>

\* string_map::count_terminations below the separator: the names there, but
\* once a name with several keys has been counted, the names that go on
\* where it ends are passed over.
count_values(st) ==
  LET at == Len(Top(st).name)
      below == {k \in Under(st.items, Top(st).name) : Len(k) > at}
      names == {k[at + 1] : k \in below}
      passed(n) == \E m \in names :
                     /\ m # n /\ IsPrefix(m, n)
                     /\ Cardinality({k \in below : k[at + 1] = m /\ Len(k) > at + 1}) > 1
  IN  IF ~Top(st).loc THEN 0
      ELSE IF Cardinality(below) = 1 THEN 1
      ELSE Cardinality({n \in names : ~passed(n)})

-----------------------------------------------------------------------------
(* pack_adaptor and np_packager: the walk.                                 *)
-----------------------------------------------------------------------------

\* The name of field i, none if there are fewer names than fields.
NameOf(type, i) == IF type.t = "rec" THEN type.fields[i].name ELSE ""
TypeOf(type, i) == IF type.t = "rec" THEN type.fields[i].type ELSE type.of

RECURSIVE Save(_, _, _, _), SaveFrom(_, _, _, _)
Save(st, name, type, value) ==
  CASE type.t = "num" -> save_value(st, name, <<value>>)
    [] type.t = "list" -> save_value(st, name, value)
    [] OTHER -> ascend(SaveFrom(descend(st, name), type, value, 1))
SaveFrom(st, type, value, i) ==
  IF i > Len(value) THEN st
  ELSE SaveFrom(Save(st, NameOf(type, i), TypeOf(type, i), value[i]), type, value, i + 1)

\* The numbers of a text are appended to a list that was there before; a
\* text without any leaves it alone.
from_fixed_string(type, old, text) == IF type.t = "num" THEN text[1] ELSE old \o text

\* [st, v]: the walk, and the value after it.
RECURSIVE Restore(_, _, _, _), RestoreFrom(_, _, _, _)
Restore(st, name, type, old) ==
  LET found == find_rel(st, name)
      inner == descend(st, name)
      size == count_values(inner)
      start == IF type.t = "vec" THEN [i \in 1..size |-> Default(type.of)] ELSE old
      r == RestoreFrom(inner, type, start, 1)
  IN  IF type.t \in {"num", "list"}
      THEN [st |-> Counted(st, name),
            v |-> IF found = <<>> THEN old ELSE from_fixed_string(type, old, found[1])]
      ELSE [st |-> ascend(r.st), v |-> r.v]
RestoreFrom(st, type, value, i) ==
  IF i > Len(value) THEN [st |-> st, v |-> value]
  ELSE LET r == Restore(st, NameOf(type, i), TypeOf(type, i), value[i])
       IN  RestoreFrom(r.st, type, [value EXCEPT ![i] = r.v], i + 1)

-----------------------------------------------------------------------------

Empty == [k \in {} |-> <<>>]

start_save == [db |-> db, items |-> Empty, levels |-> <<level(FALSE, <<>>)>>, live |-> live]

\* The texts of the items.
Held(items) == LET long == {k \in DOMAIN items : make(TextSize(items[k])) = 1} IN Cardinality(long)

\* All keys of the database are read.
start_restore ==
  [db |-> db, items |-> db, levels |-> <<level(TRUE, <<>>)>>, live |-> live + Held(db)]

\* clear of the adaptor: the items, and the names of the levels.
clear(st) ==
  FoldLeft(LAMBDA n, l : n + destroy(KeySize(l.name)), st.live - Held(st.items), st.levels)

Init ==
  /\ db = Empty /\ expect = Default(Type) /\ object = Default(Type) /\ live = 0 /\ ops = 0

Op == ops < MaxOps /\ ops' = ops + 1

\* What was saved before shows through where the new value is shorter.
RECURSIVE Over(_, _, _)
Over(type, new, old) ==
  IF type.t \in {"num", "list"} THEN new
  ELSE [i \in 1..(IF Len(new) > Len(old) THEN Len(new) ELSE Len(old)) |->
          IF i > Len(new) THEN old[i]
          ELSE IF i > Len(old) THEN new[i]
          ELSE Over(TypeOf(type, i), new[i], old[i])]

\* np_packager::save.  Keys that are not written again stay.
save(value) ==
  LET st == Save(start_save, Name, Type, value) IN
  /\ Op
  /\ db' = st.db
  /\ live' = clear(st)
  /\ expect' = Over(Type, value, expect)
  /\ UNCHANGED object

\* np_packager::restore, into a new object or into the one restored before.
restore(old) ==
  LET r == Restore(start_restore, Name, Type, old)
  IN  /\ Op
      /\ object' = r.v
      /\ live' = clear(r.st)
      /\ UNCHANGED <<db, expect>>

Next == (\E value \in Values : save(value)) \/ restore(Default(Type)) \/ restore(object)

Spec == Init /\ [][Next]_vars

-----------------------------------------------------------------------------

\* The number of keys a value is saved under.
RECURSIVE Keys(_, _), KeysFrom(_, _, _)
Keys(type, value) == IF type.t \in {"num", "list"} THEN 1 ELSE KeysFrom(type, value, 1)
KeysFrom(type, value, i) ==
  IF i > Len(value) THEN 0 ELSE Keys(TypeOf(type, i), value[i]) + KeysFrom(type, value, i + 1)

\* Vectors that are counted wrong: an element has no keys, or more than one
\* and its number is the beginning of another's.
RECURSIVE Miscounted(_, _)
Miscounted(type, value) ==
  IF type.t \in {"num", "list"} THEN FALSE
  ELSE \E i \in 1..Len(value) :
         \/ Miscounted(TypeOf(type, i), value[i])
         \/ type.t = "vec" /\ Keys(TypeOf(type, i), value[i]) = 0
         \/ /\ type.t = "vec" /\ Keys(TypeOf(type, i), value[i]) > 1
            /\ \E j \in 1..Len(value) : i # j /\ IsPrefix(Digits(i - 1), Digits(j - 1))

(***************************************************************************)
(* What was saved is restored into a new object, with the elements of      *)
(* longer vectors saved before, unless a vector in it is miscounted, and   *)
(* never an element that was not saved; and no string outlives a           *)
(* packaging.                                                              *)
(***************************************************************************)
RestoresSaved ==
  LET r == Restore(start_restore, Name, Type, Default(Type))
  IN  /\ Miscounted(Type, expect) \/ r.v = expect
      /\ Keys(Type, r.v) <= Keys(Type, expect)
      /\ live = 0 /\ Len(r.st.levels) = 1
=============================================================================
