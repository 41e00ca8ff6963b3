----------------------------- MODULE SymbolMaps -----------------------------
(***************************************************************************)
(* zivug's symbol tables: the names of address families, socket types,     *)
(* socket levels and socket options, each compiled into a double array     *)
(* trie (base/check cells) whose unshared suffixes are kept in tail.  The  *)
(* tables are those of the source, cell by cell; a cell <<base, check>> of *)
(* base_ref and a reference <<offset, size>> of tail_ref count from 0 in   *)
(* the source and from 1 here.  A name is looked up at once (find) or in   *)
(* pieces, a locus standing between two pieces (locate_rel, find_rel).     *)
(***************************************************************************)
EXTENDS Integers, Sequences, SequencesExt

VARIABLES table,   \* the table in use
          name,    \* the index of the name being looked up
          read,    \* how many of its characters have been consumed
          loc      \* the locus reached: offset, tail_pos

vars == <<table, name, read, loc>>

address_family_list ==
  <<"unix", "local", "inet", "ax25", "ipx", "appletalk", "netrom", "bridge",
    "atmpvc", "x25", "inet6", "rose", "decnet", "netbeui", "security", "key",
    "netlink", "route", "packet", "ash", "econet", "atmsvc", "rds", "sna",
    "irda", "pppox", "wanpipe", "llc", "ib", "can", "tipc", "bluetooth",
    "iucv", "rxrpc", "isdn", "phonet", "ieee802154", "caif", "alg", "nfc",
    "vsock">>

address_family_map ==
  [char_offset |-> 46, char_count |-> 75, term_char |-> 47,
   tail |-> <<110, 105, 120, 99, 97, 108, 50, 53, 120, 112, 108, 101, 116, 97,
              108, 107, 111, 109, 105, 100, 103, 101, 118, 99, 50, 53, 101,
              101, 99, 110, 101, 116, 101, 117, 105, 99, 117, 114, 105, 116,
              121, 101, 121, 105, 110, 107, 116, 101, 99, 107, 101, 116, 104,
              99, 111, 110, 101, 116, 118, 99, 115, 97, 100, 97, 112, 111,
              120, 97, 110, 112, 105, 112, 101, 99, 105, 112, 99, 117, 101,
              116, 111, 111, 116, 104, 99, 118, 114, 112, 99, 100, 110, 111,
              110, 101, 116, 101, 101, 56, 48, 50, 49, 53, 52, 102, 103, 99,
              115, 111, 99, 107>>,
   tail_ref |-> <<<<0, 3>>, <<3, 3>>, <<6, 0>>, <<6, 2>>, <<8, 1>>, <<9, 7>>,
      <<16, 2>>, <<18, 4>>, <<22, 2>>, <<24, 2>>, <<26, 0>>, <<26, 1>>, <<27,
      5>>, <<32, 3>>, <<35, 6>>, <<41, 2>>, <<43, 3>>, <<46, 2>>, <<48, 4>>,
      <<52, 1>>, <<53, 5>>, <<58, 2>>, <<60, 1>>, <<61, 1>>, <<62, 2>>, <<64,
      3>>, <<67, 6>>, <<73, 1>>, <<74, 0>>, <<74, 0>>, <<74, 3>>, <<77, 7>>,
      <<84, 2>>, <<86, 3>>, <<89, 2>>, <<91, 4>>, <<95, 8>>, <<103, 1>>,
      <<104, 1>>, <<105, 1>>, <<106, 4>>>>,
   base_ref |-> <<<<79, 0>>, <<-3, 70>>, <<0, -1>>, <<0, -1>>, <<0, -1>>, <<0,
      -1>>, <<0, -1>>, <<0, -1>>, <<-11, 70>>, <<0, -1>>, <<0, -1>>, <<0,
      -1>>, <<0, -1>>, <<0, -1>>, <<0, -1>>, <<0, -1>>, <<0, -1>>, <<0, -1>>,
      <<0, -1>>, <<0, -1>>, <<0, -1>>, <<0, -1>>, <<0, -1>>, <<0, -1>>, <<0,
      -1>>, <<0, -1>>, <<0, -1>>, <<0, -1>>, <<0, -1>>, <<0, -1>>, <<0, -1>>,
      <<0, -1>>, <<0, -1>>, <<0, -1>>, <<0, -1>>, <<0, -1>>, <<0, -1>>, <<0,
      -1>>, <<0, -1>>, <<0, -1>>, <<0, -1>>, <<0, -1>>, <<0, -1>>, <<0, -1>>,
      <<0, -1>>, <<0, -1>>, <<0, -1>>, <<0, -1>>, <<0, -1>>, <<0, -1>>, <<0,
      -1>>, <<0, 132>>, <<-14, 72>>, <<0, -1>>, <<-19, 145>>, <<0, 122>>, <<2,
      143>>, <<-40, 143>>, <<-15, 148>>, <<-38, 51>>, <<0, -1>>, <<-36, 145>>,
      <<-17, 72>>, <<9, 115>>, <<-30, 51>>, <<0, -1>>, <<0, -1>>, <<-24,
      148>>, <<-7, 72>>, <<-26, 145>>, <<0, 55>>, <<0, -1>>, <<0, 56>>, <<-23,
      147>>, <<-12, 84>>, <<-9, 63>>, <<-18, 84>>, <<0, -1>>, <<-22, 63>>,
      <<-28, 141>>, <<0, -1>>, <<0, -1>>, <<-2, 141>>, <<0, -1>>, <<5, 147>>,
      <<0, -1>>, <<0, -1>>, <<0, -1>>, <<0, -1>>, <<0, -1>>, <<0, -1>>, <<0,
      -1>>, <<-32, 131>>, <<-34, 147>>, <<0, -1>>, <<0, -1>>, <<0, -1>>, <<0,
      -1>>, <<-8, 131>>, <<0, -1>>, <<0, -1>>, <<0, -1>>, <<0, -1>>, <<0,
      -1>>, <<0, -1>>, <<0, -1>>, <<0, -1>>, <<-39, 130>>, <<0, -1>>, <<0,
      -1>>, <<-29, 138>>, <<-6, 130>>, <<0, -1>>, <<-37, 138>>, <<-20, 130>>,
      <<0, 130>>, <<0, -1>>, <<0, -1>>, <<0, -1>>, <<-4, 130>>, <<0, -1>>,
      <<0, -1>>, <<0, 138>>, <<0, -1>>, <<-5, 138>>, <<0, -1>>, <<-25, 138>>,
      <<-35, 138>>, <<0, -1>>, <<-33, 138>>, <<45, 0>>, <<30, 0>>, <<0, 0>>,
      <<-13, 0>>, <<-21, 0>>, <<0, -1>>, <<0, -1>>, <<0, -1>>, <<58, 0>>, <<0,
      -1>>, <<-16, 0>>, <<17, 0>>, <<0, -1>>, <<1, 0>>, <<0, -1>>, <<3, 0>>,
      <<0, -1>>, <<19, 0>>, <<3, 0>>, <<-31, 0>>, <<-1, 0>>, <<-41, 0>>,
      <<-27, 0>>, <<-10, 0>>>>]

socket_type_list ==
  <<"stream", "dgram", "raw", "rdm", "seqpacket", "dccp", "packet">>

socket_type_map ==
  [char_offset |-> 95, char_count |-> 24, term_char |-> 96,
   tail |-> <<114, 101, 97, 109, 114, 97, 109, 119, 109, 113, 112, 97, 99,
              107, 101, 116, 99, 112, 97, 99, 107, 101, 116>>,
   tail_ref |-> <<<<0, 4>>, <<4, 3>>, <<7, 1>>, <<8, 1>>, <<9, 7>>, <<16, 2>>,
      <<18, 5>>>>,
   base_ref |-> <<<<0, 0>>, <<0, -1>>, <<0, -1>>, <<-3, 19>>, <<-6, 5>>, <<0,
      0>>, <<-4, 19>>, <<-5, 20>>, <<-2, 5>>, <<0, -1>>, <<0, -1>>, <<0, -1>>,
      <<0, -1>>, <<0, -1>>, <<0, -1>>, <<0, -1>>, <<0, -1>>, <<-7, 0>>, <<0,
      -1>>, <<1, 0>>, <<1, 0>>, <<0, -1>>, <<-1, 20>>>>]

socket_level_list ==
  <<"socket", "ip", "tcp", "udp", "ipv6", "icmpv6", "sctp", "udplite", "raw",
    "ipx", "ax25", "atalk", "netrom", "rose", "decnet", "x25", "packet",
    "atm", "aal", "irda", "netbeui", "llc", "dccp", "netlink", "tipc",
    "rxrpc", "pppol2tp", "bluetooth", "pnpipe", "rds", "iucv", "caif", "alg",
    "nfc">>

socket_level_map ==
  [char_offset |-> 48, char_count |-> 72, term_char |-> 49,
   tail |-> <<99, 107, 101, 116, 112, 54, 109, 112, 118, 54, 116, 112, 105,
              116, 101, 119, 50, 53, 108, 107, 111, 109, 115, 101, 99, 110,
              101, 116, 50, 53, 99, 107, 101, 116, 108, 100, 97, 101, 117,
              105, 108, 99, 99, 112, 105, 110, 107, 112, 99, 114, 112, 99,
              112, 111, 108, 50, 116, 112, 108, 117, 101, 116, 111, 111, 116,
              104, 112, 105, 112, 101, 115, 99, 118, 97, 105, 102, 103, 99>>,
   tail_ref |-> <<<<0, 4>>, <<4, 0>>, <<4, 1>>, <<5, 0>>, <<5, 1>>, <<6, 4>>,
      <<10, 2>>, <<12, 3>>, <<15, 1>>, <<16, 0>>, <<16, 2>>, <<18, 2>>, <<20,
      2>>, <<22, 2>>, <<24, 4>>, <<28, 2>>, <<30, 4>>, <<34, 0>>, <<34, 1>>,
      <<35, 2>>, <<37, 3>>, <<40, 2>>, <<42, 2>>, <<44, 3>>, <<47, 2>>, <<49,
      3>>, <<52, 6>>, <<58, 8>>, <<66, 4>>, <<70, 1>>, <<71, 2>>, <<73, 3>>,
      <<76, 1>>, <<77, 1>>>>,
   base_ref |-> <<<<54, 0>>, <<0, -1>>, <<-4, 66>>, <<0, -1>>, <<0, -1>>, <<0,
      -1>>, <<-2, 67>>, <<0, -1>>, <<0, -1>>, <<0, -1>>, <<0, -1>>, <<0, -1>>,
      <<0, -1>>, <<0, -1>>, <<0, -1>>, <<0, -1>>, <<0, -1>>, <<0, -1>>, <<0,
      -1>>, <<0, -1>>, <<0, -1>>, <<0, -1>>, <<0, -1>>, <<0, -1>>, <<0, -1>>,
      <<0, -1>>, <<0, -1>>, <<0, -1>>, <<0, -1>>, <<0, -1>>, <<0, -1>>, <<0,
      -1>>, <<0, -1>>, <<0, -1>>, <<0, -1>>, <<0, -1>>, <<0, -1>>, <<0, -1>>,
      <<0, -1>>, <<0, -1>>, <<0, -1>>, <<0, -1>>, <<0, -1>>, <<0, -1>>, <<0,
      -1>>, <<0, -1>>, <<0, -1>>, <<0, -1>>, <<0, -1>>, <<0, -1>>, <<-12,
      97>>, <<0, -1>>, <<2, 123>>, <<-7, 121>>, <<-6, 111>>, <<0, 116>>,
      <<-34, 116>>, <<0, -1>>, <<-23, 106>>, <<0, -1>>, <<-15, 106>>, <<-8,
      66>>, <<-18, 97>>, <<0, -1>>, <<-3, 122>>, <<-1, 121>>, <<1, 52>>, <<5,
      111>>, <<24, 55>>, <<-20, 111>>, <<-25, 122>>, <<0, -1>>, <<-31, 111>>,
      <<0, -1>>, <<-21, 68>>, <<-5, 67>>, <<0, -1>>, <<-10, 67>>, <<-19,
      103>>, <<0, -1>>, <<0, -1>>, <<0, -1>>, <<0, -1>>, <<0, -1>>, <<-24,
      68>>, <<-9, 120>>, <<0, -1>>, <<-17, 118>>, <<-30, 120>>, <<-33, 103>>,
      <<-13, 68>>, <<0, -1>>, <<0, -1>>, <<0, -1>>, <<0, -1>>, <<0, -1>>, <<0,
      -1>>, <<1, 103>>, <<0, -1>>, <<-14, 120>>, <<-29, 118>>, <<-11, 103>>,
      <<-27, 118>>, <<29, 0>>, <<-28, 0>>, <<-32, 0>>, <<7, 0>>, <<0, -1>>,
      <<-26, 120>>, <<0, -1>>, <<0, -1>>, <<3, 0>>, <<0, -1>>, <<0, -1>>,
      <<-22, 0>>, <<0, -1>>, <<2, 0>>, <<0, -1>>, <<38, 0>>, <<0, -1>>, <<36,
      0>>, <<2, 0>>, <<13, 0>>, <<0, 0>>, <<0, -1>>, <<0, -1>>, <<-16, 0>>>>]

sol_socket_option_list ==
  <<"debug", "reuseaddr", "type", "error", "dontroute", "broadcast", "sndbuf",
    "rcvbuf", "sndbufforce", "rcvbufforce", "keepalive", "oobinline",
    "no_check", "priority", "linger", "bsdcompat", "reuseport", "passcred",
    "peercred", "rcvlowat", "sndlowat", "rcvtimeo", "sndtimeo",
    "security_authentication", "security_encryption_transport",
    "security_encryption_network", "bindtodevice", "attach_filter",
    "detach_filter", "get_filter", "peername", "timestamp", "acceptconn",
    "peersec", "passsec", "timestampns", "mark", "timestamping", "protocol",
    "domain", "rxq_ovfl", "wifi_status", "peek_off", "nofcs", "lock_filter",
    "select_err_queue", "busy_poll", "max_pacing_rate", "bpf_extensions",
    "incoming_cpu", "attach_bpf", "detach_bpf">>

sol_socket_option_map ==
  [char_offset |-> 93, char_count |-> 28, term_char |-> 94,
   tail |-> <<117, 103, 100, 100, 114, 112, 101, 114, 114, 111, 114, 116, 114,
              111, 117, 116, 101, 111, 97, 100, 99, 97, 115, 116, 111, 114,
              99, 101, 111, 114, 99, 101, 101, 101, 112, 97, 108, 105, 118,
              101, 111, 98, 105, 110, 108, 105, 110, 101, 99, 104, 101, 99,
              107, 111, 114, 105, 116, 121, 110, 103, 101, 114, 100, 99, 111,
              109, 112, 97, 116, 111, 114, 116, 114, 101, 100, 114, 101, 100,
              111, 119, 97, 116, 111, 119, 97, 116, 105, 109, 101, 111, 105,
              109, 101, 111, 117, 116, 104, 101, 110, 116, 105, 99, 97, 116,
              105, 111, 110, 114, 97, 110, 115, 112, 111, 114, 116, 101, 116,
              119, 111, 114, 107, 110, 100, 116, 111, 100, 101, 118, 105, 99,
              101, 105, 108, 116, 101, 114, 105, 108, 116, 101, 114, 101, 116,
              95, 102, 105, 108, 116, 101, 114, 97, 109, 101, 99, 101, 112,
              116, 99, 111, 110, 110, 101, 99, 101, 99, 115, 107, 110, 103,
              116, 111, 99, 111, 108, 97, 105, 110, 113, 95, 111, 118, 102,
              108, 105, 102, 105, 95, 115, 116, 97, 116, 117, 115, 95, 111,
              102, 102, 99, 115, 99, 107, 95, 102, 105, 108, 116, 101, 114,
              101, 99, 116, 95, 101, 114, 114, 95, 113, 117, 101, 117, 101,
              115, 121, 95, 112, 111, 108, 108, 95, 112, 97, 99, 105, 110,
              103, 95, 114, 97, 116, 101, 102, 95, 101, 120, 116, 101, 110,
              115, 105, 111, 110, 115, 110, 99, 111, 109, 105, 110, 103, 95,
              99, 112, 117, 112, 102, 112, 102>>,
   tail_ref |-> <<<<0, 2>>, <<2, 3>>, <<5, 2>>, <<7, 4>>, <<11, 6>>, <<17,
      7>>, <<24, 0>>, <<24, 0>>, <<24, 4>>, <<28, 4>>, <<32, 8>>, <<40, 8>>,
      <<48, 5>>, <<53, 5>>, <<58, 4>>, <<62, 7>>, <<69, 3>>, <<72, 3>>, <<75,
      3>>, <<78, 4>>, <<82, 4>>, <<86, 4>>, <<90, 4>>, <<94, 13>>, <<107, 8>>,
      <<115, 6>>, <<121, 10>>, <<131, 5>>, <<136, 5>>, <<141, 9>>, <<150, 3>>,
      <<153, 0>>, <<153, 8>>, <<161, 2>>, <<163, 2>>, <<165, 1>>, <<166, 1>>,
      <<167, 2>>, <<169, 5>>, <<174, 3>>, <<177, 6>>, <<183, 10>>, <<193, 4>>,
      <<197, 2>>, <<199, 9>>, <<208, 13>>, <<221, 7>>, <<228, 12>>, <<240,
      12>>, <<252, 11>>, <<263, 2>>, <<265, 2>>>>,
   base_ref |-> <<<<110, 0>>, <<0, -1>>, <<53, 54>>, <<48, 64>>, <<54, 46>>,
      <<-13, 29>>, <<55, 126>>, <<34, 17>>, <<29, 23>>, <<16, 117>>, <<69,
      66>>, <<44, 60>>, <<-44, 29>>, <<17, 24>>, <<27, 37>>, <<19, 27>>, <<45,
      62>>, <<1, 61>>, <<-7, 13>>, <<62, 117>>, <<-8, 15>>, <<-1, 9>>, <<60,
      40>>, <<0, 30>>, <<4, 49>>, <<29, 109>>, <<-9, 13>>, <<6, 34>>, <<-10,
      15>>, <<3, 127>>, <<1, 111>>, <<-19, 81>>, <<16, 36>>, <<-2, 8>>, <<3,
      25>>, <<16, 85>>, <<10, 129>>, <<2, 35>>, <<66, 32>>, <<88, 9>>, <<14,
      129>>, <<35, 68>>, <<-31, 81>>, <<23, 41>>, <<-20, 25>>, <<23, 43>>,
      <<0, 45>>, <<-34, 81>>, <<-17, 8>>, <<0, 11>>, <<26, 14>>, <<79, 132>>,
      <<-22, 25>>, <<65, 129>>, <<0, 50>>, <<28, 7>>, <<39, 55>>, <<-24, 2>>,
      <<39, 56>>, <<-21, 11>>, <<4, 132>>, <<0, 2>>, <<4, 58>>, <<47, 16>>,
      <<1, 63>>, <<-26, 3>>, <<6, 86>>, <<-23, 11>>, <<25, 133>>, <<-33,
      114>>, <<54, 4>>, <<-25, 3>>, <<-18, 38>>, <<79, 70>>, <<-43, 22>>,
      <<78, 10>>, <<-37, 6>>, <<-14, 53>>, <<-40, 19>>, <<-5, 19>>, <<-32,
      73>>, <<25, 22>>, <<-48, 6>>, <<-39, 53>>, <<-3, 133>>, <<11, 51>>,
      <<43, 114>>, <<-15, 125>>, <<-35, 38>>, <<88, 75>>, <<92, 89>>, <<-38,
      73>>, <<92, 39>>, <<-45, 125>>, <<-46, 51>>, <<-27, 115>>, <<-36, 73>>,
      <<-51, 90>>, <<88, 92>>, <<98, 98>>, <<101, 99>>, <<-28, 90>>, <<-49,
      115>>, <<0, -1>>, <<-6, 115>>, <<-16, 115>>, <<-52, 100>>, <<-47, 115>>,
      <<0, -1>>, <<0, 131>>, <<-29, 100>>, <<6, 131>>, <<0, -1>>, <<0, -1>>,
      <<63, 0>>, <<83, 0>>, <<0, -1>>, <<1, 0>>, <<-4, 0>>, <<0, -1>>, <<-30,
      0>>, <<0, -1>>, <<-50, 0>>, <<0, -1>>, <<-11, 0>>, <<75, 0>>, <<2, 0>>,
      <<11, 0>>, <<-12, 0>>, <<32, 0>>, <<-41, 131>>, <<103, 0>>, <<43, 0>>,
      <<56, 0>>, <<0, -1>>, <<0, -1>>, <<-42, 0>>>>]

cygwin_socket_type_list ==
  <<"stream", "dgram", "raw", "rdm", "seqpacket">>

cygwin_socket_type_map ==
  [char_offset |-> 95, char_count |-> 24, term_char |-> 96,
   tail |-> <<114, 101, 97, 109, 103, 114, 97, 109, 119, 109, 113, 112, 97,
              99, 107, 101, 116>>,
   tail_ref |-> <<<<0, 4>>, <<4, 4>>, <<8, 1>>, <<9, 1>>, <<10, 7>>>>,
   base_ref |-> <<<<0, 0>>, <<0, -1>>, <<0, -1>>, <<-3, 19>>, <<0, -1>>, <<-2,
      0>>, <<-4, 19>>, <<-5, 20>>, <<0, -1>>, <<0, -1>>, <<0, -1>>, <<0, -1>>,
      <<0, -1>>, <<0, -1>>, <<0, -1>>, <<0, -1>>, <<0, -1>>, <<0, -1>>, <<0,
      -1>>, <<1, 0>>, <<1, 0>>, <<0, -1>>, <<-1, 20>>>>]

\* A table with the list its indices select from.
Tables ==
  [af    |-> [map |-> address_family_map,     list |-> address_family_list],
   type  |-> [map |-> socket_type_map,        list |-> socket_type_list],
   level |-> [map |-> socket_level_map,       list |-> socket_level_list],
   so    |-> [map |-> sol_socket_option_map,  list |-> sol_socket_option_list],
   cyg   |-> [map |-> cygwin_socket_type_map, list |-> cygwin_socket_type_list]]

-----------------------------------------------------------------------------
(* Characters: a name is a string, the tables speak of character codes.    *)
-----------------------------------------------------------------------------

Digits  == "0123456789"
Letters == "abcdefghijklmnopqrstuvwxyz"

CodeIn(s, first, c) ==
  first - 1 + CHOOSE i \in 1..Len(s) : SubSeq(s, i, i) = c

Code(c) ==
  IF c = "_" THEN 95
  ELSE IF c = "." THEN 46
  ELSE IF \E i \in 1..10 : SubSeq(Digits, i, i) = c THEN CodeIn(Digits, 48, c)
  ELSE CodeIn(Letters, 97, c)

Codes(s) == [i \in 1..Len(s) |-> Code(SubSeq(s, i, i))]

-----------------------------------------------------------------------------
(* The lookup.                                                             *)
-----------------------------------------------------------------------------

Base(m, pos)  == m.base_ref[pos + 1][1]
Check(m, pos) == m.base_ref[pos + 1][2]

search_root == [offset |-> 0, tail_pos |-> 0]
no_locus    == [offset |-> -1, tail_pos |-> 0]

is_valid(m, c) ==
  IF m.term_char = m.char_offset + 1
  THEN c > m.term_char /\ c <= m.term_char + m.char_count
  ELSE c > m.char_offset /\ c < m.term_char

\* The cell reached from l_pos by c, -1 when the trie has none.
Child(m, l_pos, c) ==
  LET n_pos == Base(m, l_pos) + c - m.char_offset
  IN  IF /\ is_valid(m, c)
         /\ n_pos < Len(m.base_ref)
         /\ Check(m, n_pos) = l_pos
      THEN n_pos
      ELSE -1

\* The descent along s from l_pos through inner cells: where it stops, and
\* how many characters it took; it stops at a leaf.
Walk(m, l_pos, s) ==
  LET Step(w, c) ==
        IF w.pos < 0 \/ w.leaf THEN w
        ELSE LET n_pos == Child(m, w.pos, c)
             IN  [pos |-> n_pos, used |-> w.used + 1,
                  leaf |-> n_pos >= 0 /\ Base(m, n_pos) < 0]
  IN  FoldLeft(Step, [pos |-> l_pos, used |-> 0, leaf |-> FALSE], s)

\* The mutant compares the tail from its start, wherever the locus stands.
InTail_Restart(m, n_pos, tail_pos, s) ==
  LET r == m.tail_ref[-Base(m, n_pos)]
  IN  IF /\ Len(s) <= r[2] - tail_pos
         /\ \A i \in 1..Len(s) : s[i] = m.tail[r[1] + i]
      THEN [offset |-> n_pos, tail_pos |-> tail_pos + Len(s)]
      ELSE no_locus

\* What is left of s against the tail of the leaf n_pos, from tail_pos on.
InTail(m, n_pos, tail_pos, s) ==
  LET r == m.tail_ref[-Base(m, n_pos)]
  IN  IF /\ Len(s) <= r[2] - tail_pos
         /\ \A i \in 1..Len(s) : s[i] = m.tail[r[1] + tail_pos + i]
      THEN [offset |-> n_pos, tail_pos |-> tail_pos + Len(s)]
      ELSE no_locus

locate_rel(m, l, s) ==
  IF Base(m, l.offset) >= 0
  THEN LET w == Walk(m, l.offset, s)
       IN  IF w.pos < 0 THEN no_locus
           ELSE IF ~w.leaf THEN [offset |-> w.pos, tail_pos |-> 0]
           ELSE InTail(m, w.pos, l.tail_pos, SubSeq(s, w.used + 1, Len(s)))
  ELSE InTail(m, l.offset, l.tail_pos, s)

find_rel(m, from, s) ==
  LET l == locate_rel(m, from, s)
      b == Base(m, l.offset)
      n_pos == b + m.term_char - m.char_offset
  IN  IF l.offset < 0 THEN 0
      ELSE IF b >= 0
           THEN IF Check(m, n_pos) # l.offset THEN 0 ELSE -Base(m, n_pos)
           ELSE IF m.tail_ref[-b][2] = l.tail_pos THEN -b ELSE 0

find(m, s) == find_rel(m, search_root, s)

-----------------------------------------------------------------------------

Text == Codes(Tables[table].list[name])

Init ==
  /\ table \in DOMAIN Tables
  /\ name \in DOMAIN Tables[table].list
  /\ read = 0
  /\ loc = search_root

\* The next piece of the name is looked up from the locus reached.
Locate ==
  \E k \in 1..(Len(Text) - read) :
    /\ loc.offset >= 0
    /\ loc' = locate_rel(Tables[table].map, loc, SubSeq(Text, read + 1, read + k))
    /\ read' = read + k
    /\ UNCHANGED <<table, name>>

Next == Locate

Spec == Init /\ [][Next]_vars

-----------------------------------------------------------------------------

IndexOf(s) ==
  LET l == Tables[table].list
      hits == {i \in DOMAIN l : Codes(l[i]) = s}
  IN  IF hits = {} THEN 0 ELSE CHOOSE i \in hits : \A j \in hits : i <= j

(***************************************************************************)
(* Every listed name is found under its own index, however it is cut into  *)
(* pieces; a beginning of a name, and one followed by any one character,   *)
(* is found exactly if it is itself listed, and no lookup leaves the       *)
(* tables (locate_rel, find_rel).                                          *)
(***************************************************************************)
SymbolsResolve ==
  LET m == Tables[table].map
      s == SubSeq(Text, 1, read)
  IN  /\ loc = locate_rel(m, search_root, s)
      /\ find_rel(m, loc, <<>>) = IndexOf(s)
      /\ read = Len(Text) => find(m, s) = name
      /\ \A c \in {46, 47, 48, 95, 96, 97, 109, 115, 116, 122} :
           find_rel(m, loc, <<c>>) = IndexOf(Append(s, c))
=============================================================================
