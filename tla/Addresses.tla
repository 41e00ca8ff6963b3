------------------------------ MODULE Addresses -----------------------------
(***************************************************************************)
(* zivug's internet addresses as text.  Both readers are automata that     *)
(* take one character at a time; the writers are loops over the octets and *)
(* the groups.  The width of an IPv4 octet is a parameter, so that all     *)
(* addresses of a small width can be tried; an IPv6 group has its 16 bits. *)
(***************************************************************************)
EXTENDS Integers, Sequences, SequencesExt

CONSTANTS OctetBits,          \* 8 in the code
          Digits4, Seeds4,    \* the characters and beginnings typed as IPv4
          Digits6, Seeds6,    \* and as IPv6
          GroupValues,        \* the groups of the IPv6 addresses written
          Garbage,            \* what an unassigned element of groups may hold
          MaxTyped

VARIABLES family, mode, text, typed, addr, garbage

vars == <<family, mode, text, typed, addr, garbage>>

OctetMax == 2^OctetBits - 1
Word == 2^(4 * OctetBits)

HexChars == <<"0", "1", "2", "3", "4", "5", "6", "7", "8", "9",
              "a", "b", "c", "d", "e", "f">>
IsHex(c) == \E i \in 1..16 : HexChars[i] = c
Value(c) == CHOOSE d \in 0..15 : HexChars[d + 1] = c

Refused(s) == [s EXCEPT !.state = "REFUSED"]

-----------------------------------------------------------------------------
(* IPv4.                                                                   *)
-----------------------------------------------------------------------------

\* NEXT: another digit of the current part, or the dot after it.  Before the
\* first dot a part may be as long as the word, and wraps.
Next4(s, c) ==
  IF c = "."
  THEN IF s.r_pos > 3 \/ s.octet > OctetMax THEN Refused(s)
       ELSE [s EXCEPT !.dotted = TRUE, !.rv = (@ * 2^OctetBits + s.octet) % Word,
                      !.r_pos = @ + 1, !.state = "START"]
  ELSE IF ~IsHex(c) \/ Value(c) >= s.base THEN Refused(s)
  ELSE LET octet == (s.octet * s.base + Value(c)) % Word
       IN  IF s.dotted /\ octet > OctetMax THEN Refused(s) ELSE [s EXCEPT !.octet = octet]

\* START: the first character of a part.  The test lets the letter a pass.
Start4(s, c) ==
  IF ~IsHex(c) \/ Value(c) > 10 THEN Refused(s)
  ELSE [s EXCEPT !.base = IF c = "0" THEN 8 ELSE 10, !.octet = Value(c),
                 !.state = IF c = "0" THEN "BASE_DETECT" ELSE "NEXT"]

\* BASE_DETECT: after a leading zero.
BaseDetect4(s, c) ==
  IF c = "." THEN IF s.r_pos > 3 THEN Refused(s)
                  ELSE [s EXCEPT !.dotted = TRUE, !.r_pos = @ + 1, !.state = "START",
                                 !.rv = (@ * 2^OctetBits) % Word]
  ELSE IF c = "x" THEN [s EXCEPT !.base = 16, !.state = "NEXT_DIG"]
  ELSE IF Value(c) > 7 THEN Refused(s)
  ELSE [s EXCEPT !.octet = Value(c), !.state = "NEXT"]

Step4(s, c) ==
  IF s.state = "REFUSED" \/ ~(IsHex(c) \/ c \in {".", "x"}) THEN Refused(s)
  ELSE CASE s.state = "NEXT"        -> Next4(s, c)
         [] s.state = "NEXT_DIG"    -> IF IsHex(c)
                                       THEN [s EXCEPT !.octet = Value(c), !.state = "NEXT"]
                                       ELSE Refused(s)
         [] s.state = "START"       -> Start4(s, c)
         [] s.state = "BASE_DETECT" -> BaseDetect4(s, c)

ipv4_ascii_to_in_addr(t) ==
  LET s == FoldLeft(Step4, [state |-> "START", base |-> 10, r_pos |-> 0, octet |-> 0,
                            rv |-> 0, dotted |-> FALSE], t)
  IN  [ok |-> /\ s.state # "REFUSED"
              /\ s.dotted => s.r_pos >= 3 /\ s.octet <= OctetMax,
       addr |-> IF s.dotted THEN (s.rv * 2^OctetBits + s.octet) % Word ELSE s.octet]

RECURSIVE Decimal(_)
Decimal(n) ==
  IF n < 10 THEN <<HexChars[n + 1]>> ELSE Append(Decimal(n \div 10), HexChars[(n % 10) + 1])

Octet(a, i) == (a \div 2^(i * OctetBits)) % 2^OctetBits

ipv4_in_addr_to_ascii(a) ==
  Decimal(Octet(a, 3)) \o <<".">> \o Decimal(Octet(a, 2)) \o <<".">>
    \o Decimal(Octet(a, 1)) \o <<".">> \o Decimal(Octet(a, 0))

-----------------------------------------------------------------------------
(* IPv6: an address is the sequence of its eight groups.                   *)
-----------------------------------------------------------------------------

Put(s, pos, v) ==
  IF pos > 9 THEN [s EXCEPT !.state = "OVERRUN"] ELSE [s EXCEPT !.groups[pos] = v]

\* NEXT: a colon, a dot or a digit of the current group.
Next6(s, c) ==
  LET last_pos == s.last_pos + 1
      group == s.groups[s.last_pos] * 16 + Value(c)
  IN  CASE c = ":" -> IF s.dot_cnt > 0 \/ last_pos > 9 THEN Refused(s)
                      ELSE [s EXCEPT !.last_pos = last_pos, !.state = "START_COL"]
        [] c = "." -> IF last_pos > 9 THEN Refused(s)
                      ELSE [s EXCEPT !.last_pos = last_pos, !.dot_cnt = @ + 1,
                                     !.state = "START_DOT"]
        [] IsHex(c) -> IF group > 65535 THEN Refused(s) ELSE Put(s, s.last_pos, group)

\* The two colons: the group at last_pos stands for the zeros.
Skip(s) == [Put(s, s.last_pos, 0) EXCEPT !.skip_pos = s.last_pos, !.state = "NEXT_DIG"]

\* The first digit of a group.
First(s, c) == [Put(s, s.last_pos, Value(c)) EXCEPT !.state = "NEXT"]

Step6(s, c) ==
  IF s.state \in {"REFUSED", "OVERRUN"} THEN s
  ELSE IF ~(IsHex(c) \/ c \in {".", ":"}) THEN Refused(s)
  ELSE CASE s.state = "NEXT" -> Next6(s, c)
         [] s.state = "NEXT_DIG" ->      \* no test that there is room
              IF ~IsHex(c) THEN Refused(s)
              ELSE IF s.last_pos = 9 THEN Put(s, 10, Value(c))
              ELSE First([s EXCEPT !.last_pos = @ + 1], c)
         [] s.state = "START_DOT" ->
              IF ~IsHex(c) \/ s.dot_cnt > 3 THEN Refused(s)
              ELSE IF Value(c) > 9 THEN Refused(s) ELSE First(s, c)
         [] s.state = "START_COL" ->
              IF c = "." \/ (c = ":" /\ s.skip_pos >= 0) THEN Refused(s)
              ELSE IF c = ":" THEN Skip(s) ELSE First(s, c)
         [] s.state = "START_COL_FIRST" -> IF c = ":" THEN Skip(s) ELSE Refused(s)
         [] s.state = "START" ->
              IF c = "." THEN Refused(s)
              ELSE IF c = ":" THEN [s EXCEPT !.state = "START_COL_FIRST"] ELSE First(s, c)

\* The octet of a group whose hexadecimal digits were meant as decimal ones,
\* or a value above any octet.
FromBcd(g) ==
  IF g > 1023 \/ g % 16 > 9 \/ (g \div 16) % 16 > 9 THEN 256
  ELSE (g % 16) + 10 * ((g \div 16) % 16) + 100 * (g \div 256)

\* Four octets at the end become two groups.
Dotted(s) ==
  LET o == [i \in 0..3 |-> FromBcd(s.groups[s.last_pos - 3 + i])]
  IN  IF s.dot_cnt = 0 THEN s
      ELSE IF s.dot_cnt # 3 \/ \E i \in 0..3 : o[i] > 255 THEN Refused(s)
      ELSE [s EXCEPT !.groups[s.last_pos - 3] = o[0] * 256 + o[1],
                     !.groups[s.last_pos - 2] = o[2] * 256 + o[3],
                     !.last_pos = @ - 2]

\* The groups before the zeros, and those after them moved to the end.
Out_Left(s, i) ==
  IF i < s.skip_pos THEN s.groups[i]
  ELSE IF i > s.skip_pos /\ i <= s.last_pos THEN s.groups[i]
  ELSE 0

Out(s, i) ==
  LET diff == IF s.skip_pos = -1 THEN 0 ELSE 7 - s.last_pos
  IN  IF i < s.skip_pos THEN s.groups[i]
      ELSE IF i - diff > s.skip_pos THEN s.groups[i - diff]
      ELSE 0

ipv6_ascii_to_in6_addr(t, junk) ==
  LET s0 == FoldLeft(Step6, [state |-> "START", groups |-> [i \in 0..9 |-> junk], skip_pos |-> -1,
                             last_pos |-> 0, dot_cnt |-> 0], t)
      s == IF s0.state \in {"REFUSED", "OVERRUN"} THEN s0 ELSE Dotted(s0)
  IN  [ok |-> /\ s.state \notin {"REFUSED", "OVERRUN"}
              /\ s.last_pos <= 7
              /\ s.skip_pos = -1 => s.last_pos = 7,
       addr |-> IF s.last_pos > 7 THEN <<>> ELSE [i \in 1..8 |-> Out(s, i - 1)]]

\* A group in hexadecimal without leading zeros.
emit_group(g) ==
  LET gg == <<g \div 4096, (g \div 256) % 16, (g \div 16) % 16, g % 16>>
      n_dig == IF g = 0 THEN 1
               ELSE 5 - (CHOOSE i \in 1..4 : gg[i] # 0 /\ \A j \in 1..(i - 1) : gg[j] = 0)
  IN  [i \in 1..n_dig |-> HexChars[gg[4 - n_dig + i] + 1]]

\* The groups from first on, each after a colon.
EmitFrom(a, first, last) ==
  FoldLeft(LAMBDA t, i : t \o <<":">> \o emit_group(a[i]), <<>>,
           [i \in 1..(last - first + 1) |-> first + i - 1])

\* The first longest run of at least two zero groups becomes two colons.
ipv6_in6_addr_to_ascii(a) ==
  LET Zeros(from, n) == from + n <= 9 /\ \A i \in from..(from + n - 1) : a[i] = 0
      zc == CHOOSE n \in 0..8 : /\ n = 0 \/ \E i \in 1..8 : Zeros(i, n)
                                /\ \A m \in (n + 1)..8 : \A i \in 1..8 : ~Zeros(i, m)
      z_off == CHOOSE i \in 0..7 : Zeros(i + 1, zc) /\ \A j \in 0..(i - 1) : ~Zeros(j + 1, zc)
      head == IF z_off = 0 THEN <<>> ELSE emit_group(a[1]) \o EmitFrom(a, 2, z_off)
  IN  IF zc = 8 THEN <<":", ":">>
      ELSE IF zc > 1
      THEN head \o <<":">> \o (IF z_off + zc > 7 THEN <<":">> ELSE <<>>)
                \o EmitFrom(a, z_off + zc + 1, 8)
      ELSE emit_group(a[1]) \o EmitFrom(a, 2, 8)

-----------------------------------------------------------------------------

Init ==
  /\ typed = 0
  /\ garbage \in Garbage
  /\ \/ family = 4 /\ mode = "read" /\ text \in Seeds4 /\ addr = 0
     \/ family = 6 /\ mode = "read" /\ text \in Seeds6 /\ addr = <<>>
     \/ family = 4 /\ mode = "write" /\ text = <<>> /\ addr \in 0..(Word - 1)
     \/ family = 6 /\ mode = "write" /\ text = <<>> /\ addr \in [1..8 -> GroupValues]

Type ==
  /\ mode = "read"
  /\ typed < MaxTyped
  /\ \E c \in IF family = 4 THEN Digits4 ELSE Digits6 : text' = Append(text, c)
  /\ typed' = typed + 1
  /\ UNCHANGED <<family, mode, addr, garbage>>

Write ==
  /\ mode = "write"
  /\ text' = IF family = 4 THEN ipv4_in_addr_to_ascii(addr) ELSE ipv6_in6_addr_to_ascii(addr)
  /\ mode' = "written"
  /\ UNCHANGED <<family, typed, addr, garbage>>

Next == Type \/ Write

Spec == Init /\ [][Next]_vars

-----------------------------------------------------------------------------

\* The parts of t between the separators.
RECURSIVE Split(_, _)
Split(t, sep) ==
  LET at == {i \in 1..Len(t) : t[i] = sep}
      i == CHOOSE i \in at : \A j \in at : i <= j
  IN  IF at = {} THEN <<t>> ELSE <<SubSeq(t, 1, i - 1)>> \o Split(SubSeq(t, i + 1, Len(t)), sep)

\* t is a number in the given base; its value.
InBase(t, base) == t # <<>> /\ \A i \in 1..Len(t) : IsHex(t[i]) /\ Value(t[i]) < base
Number(t, base) == FoldLeft(LAMBDA v, c : v * base + Value(c), 0, t)

\* The customary notation of a part: 0x hexadecimal, 0 octal, else decimal.
Prefix(t) == IF Len(t) > 1 /\ t[1] = "0" THEN IF t[2] = "x" THEN 2 ELSE 1 ELSE 0
Base(t) == <<10, 8, 16>>[Prefix(t) + 1]
PartOk(t) == InBase(SubSeq(t, Prefix(t) + 1, Len(t)), Base(t))
PartValue(t) == Number(SubSeq(t, Prefix(t) + 1, Len(t)), Base(t))

Valid4(t) ==
  LET p == Split(t, ".")
  IN  /\ Len(p) \in {1, 4}
      /\ \A i \in 1..Len(p) : /\ PartOk(p[i])
                              /\ PartValue(p[i]) <= IF Len(p) = 1 THEN Word - 1 ELSE OctetMax

Meaning4(t) ==
  FoldLeft(LAMBDA a, p : a * 2^OctetBits + PartValue(p), 0, Split(t, "."))

\* The texts the reader takes although they are no addresses.
Lenient4(t) ==
  LET p == Split(t, ".")
  IN  \/ t = <<>> \/ t[Len(t)] \in {".", "x"}
      \/ Len(p) = 5
      \/ \E i \in 1..Len(p) : p[i] # <<>> /\ p[i][1] = "a"
      \/ PartOk(p[1]) /\ PartValue(p[1]) >= Word

\* Colon separated groups, the last of which may be four octets.
GroupsOk(p) ==
  \A i \in 1..Len(p) : \/ InBase(p[i], 16) /\ Number(p[i], 16) <= 65535
                       \/ /\ i = Len(p) /\ Len(Split(p[i], ".")) = 4
                          /\ \A j \in 1..4 : LET o == Split(p[i], ".")[j]
                                             IN  InBase(o, 10) /\ Number(o, 10) <= 255
GroupsOf(p) ==
  FoldLeft(LAMBDA a, g : IF InBase(g, 16) THEN Append(a, Number(g, 16))
                         ELSE LET o == [j \in 1..4 |-> Number(Split(g, ".")[j], 10)]
                              IN  a \o <<o[1] * 256 + o[2], o[3] * 256 + o[4]>>, <<>>, p)

\* The places of two colons, and the groups on either side.
Doubles(t) == {i \in 1..(Len(t) - 1) : t[i] = ":" /\ t[i + 1] = ":"}
Side(t) == IF t = <<>> THEN <<>> ELSE Split(t, ":")
Left(t) == IF Doubles(t) = {} THEN Side(t)
           ELSE Side(SubSeq(t, 1, (CHOOSE i \in Doubles(t) : TRUE) - 1))
Right(t) == IF Doubles(t) = {} THEN <<>>
            ELSE Side(SubSeq(t, (CHOOSE i \in Doubles(t) : TRUE) + 2, Len(t)))

Valid6(t) ==
  LET n == Len(GroupsOf(Left(t))) + Len(GroupsOf(Right(t)))
  IN  /\ \A i, j \in Doubles(t) : i = j
      /\ GroupsOk(Left(t)) /\ GroupsOk(Right(t))
      /\ Doubles(t) # {} => \A i \in 1..Len(Left(t)) : InBase(Left(t)[i], 16)
      /\ IF Doubles(t) = {} THEN n = 8 ELSE n <= 7

Meaning6(t) ==
  LET l == GroupsOf(Left(t))
      r == GroupsOf(Right(t))
  IN  l \o [i \in 1..(8 - Len(l) - Len(r)) |-> 0] \o r

\* A text that stops after a separator: the group after it was never stored.
Lenient6(t) == t # <<>> /\ t[Len(t)] \in {":", "."}

(***************************************************************************)
(* What is written reads back as the same address, and every text in the   *)
(* customary notation is read as the address it means: hexadecimal, octal  *)
(* and decimal parts of IPv4, a double colon and four octets in IPv6.  A   *)
(* text that is no address is refused, but for the few forms Lenient4 and  *)
(* Lenient6 name (a fifth part or a part after the last dot, the digit a   *)
(* in a decimal number, a number beyond the word, a group never typed).    *)
(***************************************************************************)
AddressesRoundTrip ==
  LET r4 == ipv4_ascii_to_in_addr(text)
      r6 == ipv6_ascii_to_in6_addr(text, garbage)
  IN  /\ mode = "written" /\ family = 4 => r4.ok /\ r4.addr = addr
      /\ mode = "written" /\ family = 6 => r6.ok /\ r6.addr = addr
      /\ mode = "read" /\ family = 4 =>
           IF Valid4(text) THEN r4.ok /\ r4.addr = Meaning4(text)
           ELSE r4.ok => Lenient4(text)
      /\ mode = "read" /\ family = 6 =>
           IF Valid6(text) THEN r6.ok /\ r6.addr = Meaning6(text)
           ELSE r6.ok => Lenient6(text)
=============================================================================
