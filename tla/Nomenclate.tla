----------------------------- MODULE Nomenclate -----------------------------
(***************************************************************************)
(* The generator of zivug's symbol tables (utils/nomenclate.cpp).  It      *)
(* reads lines of names, in which characters may be escaped as in C        *)
(* (zivug/detail/unescape_c.hpp), builds a double array trie of them, and  *)
(* refuses to write one in which a name is not found under the number of   *)
(* its line.  What it writes is looked into by the code of                 *)
(* utils/nomenclate_tmpl.hpp, the lookup of SymbolMaps.                    *)
(*                                                                         *)
(* A position of base_ref counts from 0, as in the source; the sequences   *)
(* of the model count from 1.                                              *)
(***************************************************************************)
EXTENDS Integers, Sequences, FiniteSets, SequencesExt, FiniteSetsExt

CONSTANTS
  Pool,       \* names, as sequences of character codes
  MaxNames,   \* bound: names in a file
  Pieces,     \* pieces of a line: [text, val, kind]
  MaxPieces   \* bound: pieces in a line

VARIABLES
  what,       \* "names", "line" or a table of the source
  stage,      \* "reading", "appending", "written" or "refused"
  line,       \* the pieces of the line being read
  names,      \* the names read: l_in
  done,       \* how many of them have been appended
  fm          \* the fixed_map

vars == <<what, stage, line, names, done, fm>>

\* The tables that are kept in the source, and the lookup in them.
Source == INSTANCE SymbolMaps WITH table <- what, name <- done, read <- 0, loc <- 0

-----------------------------------------------------------------------------
(* unescape_c                                                              *)
-----------------------------------------------------------------------------

\* What a character means after a backslash, from 0x20 on: QUOTE, MAP with
\* the character meant, OCT with its value, HEX, UNISHORT, UNILONG.
Selected(c) ==
  CASE c \in {34, 39, 63, 92} -> [sel |-> "QUOTE", val |-> c]
    [] c \in 48 .. 55 -> [sel |-> "OCT", val |-> c - 48]
    [] c = 97  -> [sel |-> "MAP", val |-> 7]
    [] c = 98  -> [sel |-> "MAP", val |-> 8]
    [] c = 102 -> [sel |-> "MAP", val |-> 12]
    [] c = 110 -> [sel |-> "MAP", val |-> 10]
    [] c = 114 -> [sel |-> "MAP", val |-> 13]
    [] c = 116 -> [sel |-> "MAP", val |-> 9]
    [] c = 118 -> [sel |-> "MAP", val |-> 11]
    [] c = 120 -> [sel |-> "HEX", val |-> 0]
    [] c = 117 -> [sel |-> "UNISHORT", val |-> 0]
    [] c = 85  -> [sel |-> "UNILONG", val |-> 0]
    [] OTHER   -> [sel |-> "NONE", val |-> 0]

Octal(c) == c \in 48 .. 55
IsHex(c) == c \in 48 .. 57 \/ c \in 65 .. 70 \/ c \in 97 .. 102
HexOf(c) == IF c <= 57 THEN c - 48 ELSE (c % 16) + 9

\* How many bytes a code point takes, by the count of its leading zeros: the
\* code points of 12 bits are taken for shorter ones.
byte_count(u) ==
  IF u < 128 THEN 1 ELSE IF u < 4096 THEN 2 ELSE IF u < 65536 THEN 3
  ELSE IF u < 2097152 THEN 4 ELSE IF u < 67108864 THEN 5 ELSE 6

emplace_ucode(out, u) ==
  LET n == byte_count(u)
      lead == (256 - 2 ^ (8 - n)) + (u \div 64 ^ (n - 1))
  IN  out \o IF n < 2 THEN <<u>>
             ELSE <<lead>> \o [i \in 1 .. n - 1 |-> 128 + ((u \div 64 ^ (n - 1 - i)) % 64)]

\* One character.  A failure ends the line.
Unescape(e, c) ==
  LET fails == [e EXCEPT !.ok = FALSE]
      out(x) == Append(e.out, x)
      \* An escape that a character follows, plain or the next backslash.
      Follow(f, plain) ==
        IF c = 92 THEN [f EXCEPT !.sel = "ANY"]
        ELSE [f EXCEPT !.sel = "NONE", !.out = plain]
      Chosen == Selected(c)
  IN  CASE ~e.ok -> e
        [] e.ok /\ e.sel = "NONE" ->
             IF c # 92 THEN [e EXCEPT !.out = out(c)]
             ELSE [e EXCEPT !.sel = "ANY", !.pos = 0, !.val = 0]
        [] e.ok /\ e.sel = "OCT" ->
             IF ~Octal(c) THEN Follow(e, out(c))
             ELSE LET v == 8 * e.val + (c - 48)
                  IN  IF e.pos < 2 THEN [e EXCEPT !.val = v, !.pos = @ + 1]
                      ELSE IF v > 255 THEN fails
                      ELSE [e EXCEPT !.out = out(v), !.pos = 0, !.val = 0]
        [] e.ok /\ e.sel = "HEX" ->
             IF IsHex(c)
             THEN LET v == 16 * e.val + HexOf(c)
                  IN  IF v > 255 THEN fails ELSE [e EXCEPT !.val = v, !.pos = @ + 1]
             ELSE IF e.pos = 0 THEN fails
             ELSE Follow([e EXCEPT !.out = out(e.val), !.pos = 0, !.val = 0],
                         out(e.val) \o <<c>>)
        [] e.ok /\ e.sel \in {"UNISHORT", "UNILONG"} ->
             LET v == 16 * e.val + HexOf(c)
             IN  IF ~IsHex(c) THEN fails
                 ELSE IF e.pos + 1 < e.lim THEN [e EXCEPT !.val = v, !.pos = @ + 1]
                 ELSE IF v = 0 THEN fails
                 ELSE [e EXCEPT !.out = emplace_ucode(@, v), !.sel = "NONE", !.pos = 0, !.val = 0]
        [] e.ok /\ e.sel = "ANY" ->
             CASE Chosen.sel = "NONE" -> fails
               [] Chosen.sel \in {"QUOTE", "MAP"} -> [e EXCEPT !.out = out(Chosen.val), !.sel = "NONE"]
               [] Chosen.sel = "OCT" -> [e EXCEPT !.sel = "OCT", !.val = Chosen.val, !.pos = 1]
               [] Chosen.sel = "HEX" -> [e EXCEPT !.sel = "HEX"]
               [] OTHER -> [e EXCEPT !.sel = Chosen.sel,
                                     !.lim = IF Chosen.sel = "UNISHORT" THEN 4 ELSE 8]

\* A line that ends in an octal or hexadecimal escape is refused.
unescape_c(chars) ==
  LET e == FoldLeft(Unescape, [out |-> <<>>, sel |-> "NONE", pos |-> 0, lim |-> 0, val |-> 0,
                               ok |-> TRUE], chars)
  IN  [out |-> e.out, ok |-> e.ok /\ e.sel = "NONE"]

-----------------------------------------------------------------------------
(* fixed_map                                                               *)
-----------------------------------------------------------------------------

Empty == <<0, -1>>
Base(m, p)  == m.base_ref[p + 1][1]
Check(m, p) == m.base_ref[p + 1][2]
Size(m)     == Len(m.base_ref)
Store(m, p, cell) == [m EXCEPT !.base_ref[p + 1] = cell]
Code(m, c) == c - m.char_offset

\* main: the characters in use, and one next to them that ends a name.
fixed_map(ns) ==
  LET ab == UNION {ToSet(ns[i]) : i \in DOMAIN ns}
      low == Min(ab)
      high == Max(ab)
      new(c_low, c_high, term) ==
        [char_offset |-> c_low - 1, char_count |-> c_high - c_low + 1, term_char |-> term,
         tail |-> <<>>, tail_ref |-> <<>>, base_ref |-> <<<<0, 0>>>>]
  IN  IF low > 1 THEN new(low - 1, high, low - 1) ELSE new(low, high + 1, high + 1)

is_vacant(m, p) == Size(m) <= p \/ Check(m, p) < 0

\* A leaf is numbered by its tail, -1 the first.
append_leaf(m, s) ==
  [m EXCEPT !.tail = @ \o s,
            !.tail_ref = Append(@, <<IF s = <<>> THEN 0 ELSE Len(m.tail), Len(s)>>)]
NewLeaf(m) == -Len(m.tail_ref)

common_length(m, p, s) ==
  LET r == m.tail_ref[-Base(m, p)]
      n == IF r[2] < Len(s) THEN r[2] ELSE Len(s)
  IN  Max({k \in 0 .. n : \A i \in 1 .. k : m.tail[r[1] + i] = s[i]})

Vacant(m, first) ==
  LET free == {p \in first .. Size(m) - 1 : Check(m, p) < 0}
  IN  IF free # {} THEN Min(free) ELSE Max({first, Size(m)})

\* The vector grows when nothing in it is vacant.
get_vacant(m, first) ==
  LET p == Vacant(m, first)
  IN  IF p < Size(m) THEN m
      ELSE [m EXCEPT !.base_ref = @ \o [i \in 1 .. (p + 1 - Size(m)) |-> Empty]]

\* The first base at or after the given one that has room for every code.
RECURSIVE SetFrom(_, _, _)
SetFrom(m, base, codes) ==
  LET Try(r, c) ==
        IF ~r.fits THEN r
        ELSE [m |-> get_vacant(r.m, base + c), fits |-> Vacant(r.m, base + c) = base + c]
      r == FoldLeft(Try, [m |-> m, fits |-> TRUE], Tail(codes))
      next == base + codes[1] + 1
  IN  IF r.fits THEN [m |-> r.m, base |-> base]
      ELSE SetFrom(get_vacant(r.m, next), Vacant(r.m, next) - codes[1], codes)

get_vacant_set(m, codes) ==
  SetFrom(get_vacant(m, codes[1]), Vacant(m, codes[1]) - codes[1], codes)

\* The cells beyond the vector that the loop may read hold nothing of it.
update_children(m, base, old_ppos, new_ppos) ==
  [m EXCEPT !.base_ref =
     [i \in DOMAIN @ |->
        IF i - 1 \in base + 1 .. base + m.char_count /\ @[i][2] = old_ppos
        THEN <<@[i][1], new_ppos>> ELSE @[i]]]

move_cell(m, l_pos, n_pos) ==
  LET cell == m.base_ref[l_pos + 1]
      moved == Store(m, n_pos, cell)
      adopted == IF cell[1] >= 0 THEN update_children(moved, cell[1], l_pos, n_pos) ELSE moved
  IN  Store(adopted, l_pos, Empty)

\* The cell at pos belongs to somebody else: all children of ppos move to
\* another base, together with the new leaf.
relocate(m, pos, ppos, leaf) ==
  LET base == Base(m, ppos)
      n_char == pos - base
      x_char_cnt == Min({Size(m) - base, m.char_count + m.char_offset})
      Moves(c) == \/ c = n_char
                  \/ /\ c < n_char \/ c < x_char_cnt
                     /\ Check(m, base + c) = ppos
      codes == SelectSeq([c \in 1 .. Max({n_char, x_char_cnt}) |-> c], Moves)
      room == get_vacant_set(m, codes)
      Move(r, c) ==
        IF c = n_char THEN Store(r, room.base + c, <<leaf, ppos>>)
        ELSE move_cell(r, base + c, room.base + c)
      moved == FoldLeft(Move, room.m, codes)
  IN  Store(moved, ppos, <<room.base, Check(moved, ppos)>>)

\* A leaf is shared no longer: the count characters that it has in common
\* with the new name become cells, and a cell with two leaves ends them.
RECURSIVE unroll_suffix(_, _, _, _, _)
unroll_suffix(m, pos, count, other_char, leaf) ==
  LET cur_leaf == Base(m, pos)
      r == m.tail_ref[-cur_leaf]
      shorter(x) == [x EXCEPT !.tail_ref[-cur_leaf] = <<r[1] + 1, r[2] - 1>>]
  IN  IF count > 0
      THEN LET n_idx == Code(m, m.tail[r[1] + 1])
               n_pos == Vacant(m, n_idx)
               grown == Store(get_vacant(m, n_idx), n_pos, <<cur_leaf, pos>>)
           IN  unroll_suffix(shorter(Store(grown, pos, <<n_pos - n_idx, Check(m, pos)>>)),
                             n_pos, count - 1, other_char, leaf)
      ELSE LET own_char == IF r[2] > 0 THEN m.tail[r[1] + 1] ELSE m.term_char
               codes == <<Min({Code(m, own_char), Code(m, other_char)}),
                          Max({Code(m, own_char), Code(m, other_char)})>>
               room == SetFrom(get_vacant(m, codes[1]), Vacant(m, codes[1]) - codes[1], codes)
               other == Store(room.m, room.base + Code(m, other_char), <<leaf, pos>>)
               own == Store(other, room.base + Code(m, own_char), <<cur_leaf, pos>>)
               both == Store(own, pos, <<room.base, Check(m, pos)>>)
           IN  IF r[2] > 0 THEN shorter(both) ELSE both

\* A name from cell l_pos on.  A name whose end is already there is left out.
RECURSIVE AppendFrom(_, _, _)
AppendFrom(m, l_pos, s) ==
  LET c == IF s = <<>> THEN m.term_char ELSE s[1]
      rest == IF s = <<>> THEN <<>> ELSE Tail(s)
      n_pos == Base(m, l_pos) + Code(m, c)
      leafed == append_leaf(m, rest)
  IN  IF is_vacant(m, n_pos)
      THEN Store(get_vacant(leafed, n_pos), n_pos, <<NewLeaf(leafed), l_pos>>)
      ELSE IF Check(m, n_pos) # l_pos THEN relocate(leafed, n_pos, l_pos, NewLeaf(leafed))
      ELSE IF s = <<>> THEN m
      ELSE IF Base(m, n_pos) >= 0 THEN AppendFrom(m, n_pos, rest)
      ELSE LET c_len == common_length(m, n_pos, rest)
               ends == Len(rest) = c_len
               n_char == IF ends THEN m.term_char ELSE rest[c_len + 1]
               split == append_leaf(m, IF ends THEN <<>>
                                       ELSE SubSeq(rest, c_len + 2, Len(rest)))
           IN  unroll_suffix(split, n_pos, c_len, n_char, NewLeaf(split))

append(m, s) == AppendFrom(m, 0, s)

\* The generator's own lookup.  It does not look whether a cell is within the
\* vector; beyond it there is nothing that would be taken for the name.
RECURSIVE FindFrom(_, _, _)
FindFrom(m, l_pos, s) ==
  LET n_pos == Base(m, l_pos) + Code(m, IF s = <<>> THEN m.term_char ELSE s[1])
      found == n_pos < Size(m) /\ Check(m, n_pos) = l_pos
  IN  IF ~found THEN 0
      ELSE IF s = <<>> THEN IF Base(m, n_pos) < 0 THEN -Base(m, n_pos) ELSE 0
      ELSE IF Base(m, n_pos) >= 0 THEN FindFrom(m, n_pos, Tail(s))
      ELSE LET r == m.tail_ref[-Base(m, n_pos)]
           IN  IF SubSeq(m.tail, r[1] + 1, r[1] + r[2]) = Tail(s) THEN -Base(m, n_pos) ELSE 0

find(m, s) == FindFrom(m, 0, s)

\* The tails are left without the characters that became cells.
compact_tails(m) ==
  LET Take(t, r) == [tail |-> t.tail \o SubSeq(m.tail, r[1] + 1, r[1] + r[2]),
                     refs |-> Append(t.refs, <<Len(t.tail), r[2]>>)]
      t == FoldLeft(Take, [tail |-> <<>>, refs |-> <<>>], m.tail_ref)
  IN  [m EXCEPT !.tail = t.tail, !.tail_ref = t.refs]

-----------------------------------------------------------------------------
(* main                                                                    *)
-----------------------------------------------------------------------------

Chars(l) == FlattenSeq([i \in DOMAIN l |-> l[i].text])

Init ==
  /\ what \in {"names", "line"} \cup DOMAIN Source!Tables
  /\ stage = "reading" /\ line = <<>> /\ done = 0 /\ fm = 0
  /\ names = IF what \in {"names", "line"} THEN <<>>
             ELSE [i \in DOMAIN Source!Tables[what].list |->
                     Source!Codes(Source!Tables[what].list[i])]

\* read_input_lines: lines without escapes at once, others piece by piece.
ReadName(s) ==
  /\ stage = "reading" /\ what = "names" /\ Len(names) < MaxNames
  /\ names' = Append(names, s)
  /\ UNCHANGED <<what, stage, line, done, fm>>

ReadPiece(p) ==
  /\ stage = "reading" /\ what = "line" /\ names = <<>> /\ Len(line) < MaxPieces
  /\ line' = Append(line, p)
  /\ UNCHANGED <<what, stage, names, done, fm>>

\* A line that cannot be read, or is empty, is skipped without a word.
EndLine ==
  /\ stage = "reading" /\ what = "line" /\ names = <<>> /\ line # <<>>
  /\ LET r == unescape_c(Chars(line))
     IN  names' = IF r.ok /\ r.out # <<>> THEN <<r.out>> ELSE <<>>
  /\ line' = <<>>
  /\ UNCHANGED <<what, stage, done, fm>>

\* The end of a file with a name in it: main takes the least character of an
\* empty set otherwise.
EndInput ==
  /\ stage = "reading" /\ names # <<>>
  /\ stage' = "appending"
  /\ fm' = fixed_map(names)
  /\ UNCHANGED <<what, line, names, done>>

AppendName ==
  /\ stage = "appending" /\ done < Len(names)
  /\ fm' = append(fm, names[done + 1])
  /\ done' = done + 1
  /\ UNCHANGED <<what, stage, line, names>>

Finish ==
  /\ stage = "appending" /\ done = Len(names)
  /\ fm' = compact_tails(fm)
  /\ stage' = IF \A i \in DOMAIN names : find(fm', names[i]) = i THEN "written" ELSE "refused"
  /\ UNCHANGED <<what, line, names, done>>

Next ==
  \/ \E s \in Pool : ReadName(s)
  \/ \E p \in Pieces : ReadPiece(p)
  \/ EndLine \/ EndInput \/ AppendName \/ Finish

Spec == Init /\ [][Next]_vars

-----------------------------------------------------------------------------

\* The characters of the file leave the code 1 to the end of a name and 0 to
\* nothing: below that relocate looks at too few children.
Ordinary == fm.char_offset >= 1
Distinct(n) == \A i, j \in 1 .. n : names[i] = names[j] => i = j

(***************************************************************************)
(* Whatever the order of the names, and whichever cells had to move, each  *)
(* name appended so far is found under its number, and no other beginning  *)
(* or continuation of one is; so a file is refused only for a name that    *)
(* occurs twice (append, relocate, unroll_suffix, find).                   *)
(***************************************************************************)
NamesFound ==
  (stage # "reading" /\ Ordinary /\ Distinct(done)) =>
    /\ stage # "refused"
    /\ \A i \in 1 .. done : find(fm, names[i]) = i

(***************************************************************************)
(* The table that is written answers as the list does for every name,      *)
(* beginning of a name and name with one character more, and no lookup     *)
(* leaves it (nomenclate_tmpl.hpp).                                        *)
(***************************************************************************)
WrittenResolves ==
  (stage = "written" /\ what = "names" /\ Ordinary) =>
    \A i \in DOMAIN names : \A k \in 0 .. Len(names[i]) :
      LET s == SubSeq(names[i], 1, k)
          Number(t) == IF \E j \in DOMAIN names : names[j] = t
                       THEN CHOOSE j \in DOMAIN names : names[j] = t ELSE 0
      IN  /\ Source!find(fm, s) = Number(s)
          /\ \A c \in UNION {ToSet(names[j]) : j \in DOMAIN names} :
               Source!find(fm, Append(s, c)) = Number(Append(s, c))

\* The tables kept in the source are what the generator makes of their lists.
TablesGenerated ==
  (stage = "written" /\ what \in DOMAIN Source!Tables) => fm = Source!Tables[what].map

\* Where each escape is one that the reader knows, has all its digits and
\* ends where the next character begins, a line is read as what it spells.
Spelled(l) ==
  /\ l # <<>>
  /\ \A i \in DOMAIN l :
       /\ l[i].kind # "odd"
       /\ l[i].kind = "octal" => i < Len(l) /\ ~Octal(l[i + 1].text[1])
       /\ l[i].kind = "hex" => i < Len(l) /\ ~IsHex(l[i + 1].text[1])
LineMeans ==
  (what = "line" /\ Spelled(line)) =>
    unescape_c(Chars(line)) = [out |-> FlattenSeq([i \in DOMAIN line |-> line[i].val]), ok |-> TRUE]
=============================================================================
