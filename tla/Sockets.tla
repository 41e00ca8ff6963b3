------------------------------- MODULE Sockets ------------------------------
(***************************************************************************)
(* zivug's sockets: descriptors that own a file descriptor of the kernel,  *)
(* the registry of address families, and socket options set from text.  A  *)
(* text is a sequence of tokens: a name, a number, or one of the characters *)
(* the code looks for.  The registry hands out the specialised families    *)
(* (their virtual tables win over those of the generic template when the   *)
(* program is linked).                                                     *)
(***************************************************************************)
EXTENDS Integers, Sequences, FiniteSets

CONSTANTS Slots,              \* places that can hold a descriptor
          Fds,                \* the kernel's descriptors, naturals
          Hosts,              \* well formed addresses
          Numbers,            \* the tokens that are numbers, with their values
          PortHalf,           \* 256 in the code: a port is two such bytes
          Protocols, Options, Addresses,   \* the texts that are given
          MaxCalls

VARIABLES slot, kernel, error, lost, told, calls

vars == <<slot, kernel, error, lost, told, calls>>

NoSlot == [fd |-> -2, af |-> "none"]       \* no descriptor lives here
Closed == [af |-> "none", bound |-> <<>>, peer |-> <<>>, listening |-> FALSE, opts |-> <<>>]
Untold == [bound |-> <<>>, peer |-> <<>>, opts |-> <<>>]

htons(p) == (p % PortHalf) * PortHalf + p \div PortHalf
PortMax == PortHalf * PortHalf - 1

-----------------------------------------------------------------------------
(* The texts.                                                              *)
-----------------------------------------------------------------------------

\* The first position from "from" on that holds one of stops, or the end.
End(t, from, stops) ==
  LET at == {i \in from..Len(t) : t[i] \in stops}
  IN  IF at = {} THEN Len(t) + 1 ELSE CHOOSE i \in at : \A j \in at : i <= j

Past(t, i) == IF i <= Len(t) THEN i + 1 ELSE i
Part(t, from, to) == SubSeq(t, from, to - 1)

\* The symbol maps: only a whole name is found.
family_of(p) == IF p \in {<<"inet">>, <<"inet6">>, <<"unix">>} THEN p[1] ELSE "none"
type_of(p)   == p \in {<<"stream">>, <<"dgram">>}
level_of(p)  == IF p \in {<<"socket">>, <<"ip">>} THEN p[1] ELSE "none"
option_of(p) == IF p \in {<<"rcvbuf">>, <<"bindtodevice">>, <<"linger">>} THEN p[1] ELSE "none"

IsNumber(x) == x \in DOMAIN Numbers

\* inet_protocol_id: no text is the default.  A name the data base does not
\* know gives an error without a code.
inet_protocol_id(p) ==
  IF p = <<>> \/ p = <<"tcp">> THEN "" ELSE "no error"

\* make_descriptor up to the call of socket: the family or the error.
Parse(t) ==
  LET af_last == End(t, 1, {"."})
      type_last == End(t, af_last + 1, {"."})
      af == family_of(Part(t, 1, af_last))
  IN  IF af = "none" THEN [af |-> af, error |-> "EAFNOSUPPORT"]
      ELSE IF af_last > Len(t) THEN [af |-> af, error |-> "EINVAL"]
      ELSE IF ~type_of(Part(t, af_last + 1, type_last))
      THEN [af |-> af, error |-> "ESOCKTNOSUPPORT"]
      ELSE IF af = "unix" THEN [af |-> af, error |-> "EAFNOSUPPORT"]
      ELSE [af |-> af, error |-> inet_protocol_id(Part(t, Past(t, type_last), Len(t) + 1))]

\* A port saturates, and what follows its digits is not looked at.
Port(t, i) == IF Numbers[t[i]] < PortMax THEN Numbers[t[i]] ELSE PortMax

\* address_parse of AF_INET.
Inet(t) ==
  LET ip_last == End(t, 1, {":"})
  IN  IF /\ ip_last < Len(t)
         /\ ip_last = 2 /\ t[1] \in Hosts
         /\ IsNumber(t[ip_last + 1])
      THEN [error |-> "", sa |-> <<"inet", t[1], htons(Port(t, ip_last + 1))>>]
      ELSE [error |-> "EINVAL", sa |-> <<>>]

\* address_parse of AF_INET6: brackets around the address and its scope, a
\* number or the name of an interface.  The family of the result is not set.
Inet6(t) ==
  LET ip_last == End(t, 2, {"]", "%"})
      scoped == ip_last <= Len(t) /\ t[ip_last] = "%"
      close == IF scoped THEN End(t, ip_last + 1, {"]"}) ELSE ip_last
      scope == Part(t, ip_last + 1, close)
  IN  IF \/ Len(t) = 0 \/ t[1] # "[" \/ ip_last > Len(t)
         \/ ip_last # 3 \/ t[2] \notin Hosts
      THEN [error |-> "EINVAL", sa |-> <<>>]
      ELSE IF close > Len(t) THEN [error |-> "EINVAL", sa |-> <<>>]
      ELSE IF scoped /\ scope = <<>> THEN [error |-> "EINVAL", sa |-> <<>>]
      ELSE IF scoped /\ ~(Len(scope) = 1 /\ (IsNumber(scope[1]) \/ scope[1] = "eth0"))
      THEN [error |-> "ENODEV", sa |-> <<>>]
      ELSE IF close + 1 >= Len(t) THEN [error |-> "EINVAL", sa |-> <<>>]
      ELSE IF t[close + 1] # ":" \/ ~IsNumber(t[close + 2])
      THEN [error |-> "EINVAL", sa |-> <<>>]
      ELSE [error |-> "", sa |-> <<"unspecified", t[2], htons(Port(t, close + 2))>>]

address_parse(af, t) == IF af = "inet" THEN Inet(t) ELSE Inet6(t)

\* set_option: level.option, one separator, blanks, and the value.  A blank
\* is that separator too, so that "option = 5" gives the value "= 5".
Option(t) ==
  LET sol_last == End(t, 1, {"."})
      opt_first == Past(t, sol_last)
      opt_last == End(t, opt_first, {" ", "="})
      level == level_of(Part(t, 1, sol_last))
      opt == option_of(Part(t, opt_first, opt_last))
      after == Past(t, opt_last)
      skip == {i \in after..Len(t) : \A j \in after..i : t[j] = " "}
      val == SubSeq(t, after + Cardinality(skip), Len(t))
      Error(e) == [error |-> e, opt |-> opt, val |-> val]
  IN  IF level = "none" THEN Error("ENOPROTOOPT")
      ELSE IF level # "socket" THEN Error("EINVAL")
      ELSE IF opt = "none" THEN Error("ENOPROTOOPT")
      ELSE IF opt = "linger" THEN Error("ENOPROTOOPT")
      ELSE IF opt = "rcvbuf" /\ (val = <<>> \/ ~IsNumber(val[1])) THEN Error("EINVAL")
      ELSE IF opt = "rcvbuf" THEN [error |-> "", opt |-> opt, val |-> <<val[1]>>]
      ELSE Error("")

-----------------------------------------------------------------------------
(* The kernel.                                                             *)
-----------------------------------------------------------------------------

Free == {f \in Fds : kernel[f] = Closed}
Lowest(S) == CHOOSE f \in S : \A g \in S : f <= g
Open(f) == f \in Fds /\ kernel[f] # Closed

-----------------------------------------------------------------------------

Init ==
  /\ slot = [s \in Slots |-> NoSlot]
  /\ kernel = [f \in Fds |-> Closed]
  /\ told = [f \in Fds |-> Untold]
  /\ error = ""
  /\ lost = {}
  /\ calls = 0

Call == calls < MaxCalls /\ calls' = calls + 1

Throw(e) == error' = e /\ UNCHANGED <<slot, kernel, lost, told>>

\* The result moves through two temporaries, each of which ends empty.
make_descriptor(s, t) ==
  /\ Call
  /\ slot[s] = NoSlot
  /\ LET p == Parse(t)
     IN  \/ p.error # "" /\ Throw(p.error)
         \/ p.error = "" /\ Free = {} /\ Throw("EMFILE")
         \/ /\ p.error = "" /\ Free # {}
            /\ slot' = [slot EXCEPT ![s] = [fd |-> Lowest(Free), af |-> p.af]]
            /\ kernel' = [kernel EXCEPT ![Lowest(Free)] = [Closed EXCEPT !.af = p.af]]
            /\ told' = [told EXCEPT ![Lowest(Free)] = Untold]
            /\ error' = ""
            /\ UNCHANGED lost

\* descriptor(descriptor &&): the other one keeps the family, which is a
\* value of its own, and no descriptor.
move(s, r) ==
  /\ Call
  /\ slot[s] # NoSlot /\ slot[r] = NoSlot
  /\ slot' = [slot EXCEPT ![r] = slot[s], ![s].fd = -1]
  /\ error' = ""
  /\ UNCHANGED <<kernel, lost, told>>

destroy(s) ==
  /\ Call
  /\ slot[s] # NoSlot
  /\ slot' = [slot EXCEPT ![s] = NoSlot]
  /\ kernel' = IF slot[s].fd >= 0 THEN [kernel EXCEPT ![slot[s].fd] = Closed] ELSE kernel
  /\ error' = ""
  /\ UNCHANGED <<lost, told>>

set_option(s, t) ==
  /\ Call
  /\ slot[s] # NoSlot
  /\ LET o == Option(t)
         f == slot[s].fd
     IN  \/ o.error # "" /\ Throw(o.error)
         \/ o.error = "" /\ ~Open(f) /\ Throw("EBADF")
         \/ /\ o.error = "" /\ Open(f)
            /\ kernel' = [kernel EXCEPT ![f].opts = <<o.opt, o.val>>]
            /\ told' = [told EXCEPT ![f].opts = <<o.opt, o.val>>]
            /\ error' = ""
            /\ UNCHANGED <<slot, lost>>

\* The kernel refuses an address whose family is not the socket's, and a
\* second bind.
bind(s, t) ==
  /\ Call
  /\ slot[s] # NoSlot
  /\ LET p == address_parse(slot[s].af, t)
         f == slot[s].fd
     IN  \/ p.error # "" /\ Throw(p.error)
         \/ p.error = "" /\ ~Open(f) /\ Throw("EBADF")
         \/ p.error = "" /\ Open(f) /\ kernel[f].bound # <<>> /\ Throw("EINVAL")
         \/ p.error = "" /\ Open(f) /\ p.sa[1] # kernel[f].af /\ Throw("EAFNOSUPPORT")
         \/ p.error = "" /\ Open(f) /\ Throw("EADDRINUSE")
         \/ /\ p.error = "" /\ Open(f)
            /\ kernel[f].bound = <<>> /\ p.sa[1] = kernel[f].af
            /\ kernel' = [kernel EXCEPT ![f].bound = p.sa]
            /\ told' = [told EXCEPT ![f].bound = t]
            /\ error' = ""
            /\ UNCHANGED <<slot, lost>>

\* A connection in progress is not an error.  An unspecified family takes
\* back the connection there is, without an error.
connect(s, t) ==
  /\ Call
  /\ slot[s] # NoSlot
  /\ LET p == address_parse(slot[s].af, t)
         f == slot[s].fd
     IN  \/ p.error # "" /\ Throw(p.error)
         \/ p.error = "" /\ ~Open(f) /\ Throw("EBADF")
         \/ p.error = "" /\ Open(f) /\ Throw("ECONNREFUSED")
         \/ /\ p.error = "" /\ Open(f)
            /\ kernel' = [kernel EXCEPT ![f].peer =
                            IF p.sa[1] = "unspecified" THEN <<>> ELSE p.sa]
            /\ told' = [told EXCEPT ![f].peer = t]
            /\ error' = ""
            /\ UNCHANGED <<slot, lost>>

listen(s) ==
  /\ Call
  /\ slot[s] # NoSlot
  /\ \/ ~Open(slot[s].fd) /\ Throw("EBADF")
     \/ /\ Open(slot[s].fd)
        /\ kernel' = [kernel EXCEPT ![slot[s].fd].listening = TRUE]
        /\ error' = ""
        /\ UNCHANGED <<slot, lost, told>>

\* A new connection of the kernel: f, from the peer sa.
Accepted(s, f) ==
  [Closed EXCEPT !.af = slot[s].af, !.peer = <<slot[s].af, CHOOSE h \in Hosts : TRUE, 1>>]

\* The mutant forgets to close the connection that the filter refused.
Refuse_Keeps(s, r, f) ==
  /\ slot' = [slot EXCEPT ![r] = [fd |-> -1, af |-> slot[s].af]]
  /\ kernel' = [kernel EXCEPT ![f] = Accepted(s, f)]
  /\ error' = ""
  /\ UNCHANGED <<lost, told>>

\* The filter refuses the peer: the connection is closed, the descriptor empty.
Refuse(s, r, f) ==
  /\ slot' = [slot EXCEPT ![r] = [fd |-> -1, af |-> slot[s].af]]
  /\ kernel' = [kernel EXCEPT ![f] = Closed]
  /\ error' = ""
  /\ UNCHANGED <<lost, told>>

\* An error of accept4 gives an empty descriptor.  A filter that throws
\* leaves the connection to nobody.
accept(s, r) ==
  /\ Call
  /\ slot[s] # NoSlot /\ slot[r] = NoSlot
  /\ \/ /\ slot' = [slot EXCEPT ![r] = [fd |-> -1, af |-> slot[s].af]]
        /\ error' = ""
        /\ UNCHANGED <<kernel, lost, told>>
     \/ /\ Open(slot[s].fd) /\ kernel[slot[s].fd].listening /\ Free # {}
        /\ LET f == Lowest(Free)
           IN  \/ Refuse(s, r, f)
               \/ /\ slot' = [slot EXCEPT ![r] = [fd |-> f, af |-> slot[s].af]]
                  /\ kernel' = [kernel EXCEPT ![f] = Accepted(s, f)]
                  /\ told' = [told EXCEPT ![f] = [Untold EXCEPT !.peer = <<"accepted">>]]
                  /\ error' = ""
                  /\ UNCHANGED lost
               \/ /\ kernel' = [kernel EXCEPT ![f] = Accepted(s, f)]
                  /\ told' = [told EXCEPT ![f] = [Untold EXCEPT !.peer = <<"accepted">>]]
                  /\ lost' = lost \cup {f}
                  /\ error' = "filter"
                  /\ UNCHANGED slot

Next ==
  \/ \E s \in Slots, t \in Protocols : make_descriptor(s, t)
  \/ \E s, r \in Slots : move(s, r)
  \/ \E s \in Slots : destroy(s)
  \/ \E s \in Slots, t \in Options : set_option(s, t)
  \/ \E s \in Slots, t \in Addresses : bind(s, t)
  \/ \E s \in Slots, t \in Addresses : connect(s, t)
  \/ \E s \in Slots : listen(s)
  \/ \E s, r \in Slots : accept(s, r)

Spec == Init /\ [][Next]_vars

-----------------------------------------------------------------------------

Owners(f) == {s \in Slots : slot[s].fd = f}

\* The address of a socket is the one its text said.
AsTold(sa, t) ==
  t # <<"accepted">> /\ t # <<>> =>
    sa[2] = t[1] /\ htons(sa[3]) = Port(t, 3)

(***************************************************************************)
(* Every open descriptor of the kernel belongs to exactly one descriptor   *)
(* object, whatever was moved, refused or thrown in between (but for a     *)
(* filter that throws), no object holds a closed one, and an AF_INET       *)
(* socket has the addresses and the option that the last calls that        *)
(* returned gave it.                                                       *)
(***************************************************************************)
DescriptorsClosed ==
  /\ \A f \in Fds : Open(f) <=> Cardinality(Owners(f)) = 1 \/ f \in lost
  /\ \A f \in Fds : Cardinality(Owners(f)) <= 1
  /\ \A f \in lost : Owners(f) = {}
  /\ \A f \in Fds : Open(f) =>
       /\ kernel[f].opts = told[f].opts
       /\ kernel[f].af = "inet" => /\ AsTold(kernel[f].bound, told[f].bound)
                                   /\ AsTold(kernel[f].peer, told[f].peer)
=============================================================================
