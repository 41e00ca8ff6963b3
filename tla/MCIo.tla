-------------------------------- MODULE MCIo --------------------------------
(***************************************************************************)
(* The io side of zivug: a program with a socket, a source and a pipe of a *)
(* few blocks between them; the descriptors of sockets; the texts that     *)
(* name addresses and symbols; and the generator of the symbol tables.     *)
(* They share nothing; part says which one a behaviour is about, and       *)
(* c1 .. c6 are its variables, in the order in which its module declares   *)
(* them; those it does not need rest.                                      *)
(***************************************************************************)
EXTENDS Integers, Sequences, TLC

CONSTANTS Endpoints, Sock, Src, Capacity,
          OctetBits, Digits4, Seeds4, Digits6, Seeds6, GroupValues, Garbage, MaxTyped,
          Slots, Fds, Hosts, Numbers, PortHalf, Protocols, Options, AddressTexts, MaxCalls,
          Pool, MaxNames, Pieces, MaxPieces

VARIABLES part, c1, c2, c3, c4, c5, c6

Pipe    == INSTANCE SpliceOutput WITH s <- c1, a <- c2, pc <- c3, batch <- c4
Symbols == INSTANCE SymbolMaps WITH table <- c1, name <- c2, read <- c3, loc <- c4
Texts   == INSTANCE Addresses WITH family <- c1, mode <- c2, text <- c3, typed <- c4,
                                   addr <- c5, garbage <- c6
Calls   == INSTANCE Sockets WITH slot <- c1, kernel <- c2, error <- c3, lost <- c4,
                                 told <- c5, calls <- c6, Addresses <- AddressTexts
Tables  == INSTANCE Nomenclate WITH what <- c1, stage <- c2, line <- c3, names <- c4,
                                    done <- c5, fm <- c6

From5 == c5 = 0 /\ c6 = 0

Init ==
  \/ part = "pipe"    /\ Pipe!Init    /\ From5
  \/ part = "symbols" /\ Symbols!Init /\ From5
  \/ part = "texts"   /\ Texts!Init
  \/ part = "calls"   /\ Calls!Init
  \/ part = "tables"  /\ Tables!Init

Next ==
  /\ UNCHANGED part
  /\ \/ part = "pipe"    /\ Pipe!Next    /\ UNCHANGED <<c5, c6>>
     \/ part = "symbols" /\ Symbols!Next /\ UNCHANGED <<c5, c6>>
     \/ part = "texts"   /\ Texts!Next
     \/ part = "calls"   /\ Calls!Next
     \/ part = "tables"  /\ Tables!Next

Spec == Init /\ [][Next]_<<part, c1, c2, c3, c4, c5, c6>>

Symmetry == Permutations(Slots)

MCSeeds4 == {<<>>, <<"1", ".", "0", ".">>, <<"0", "x", "1", ".", "1", "7", ".", "0", ".">>}
MCSeeds6 ==
  {<<>>, <<"1", ":", "f", ":", "1", ":", "0", ":", "1">>,
   <<":", ":", "f", ":", "1", ".", "1", "9", ".", "1">>,
   <<"1", ":", "f", ":", "1", ":", "0", ":", "1", ":", "1", ":", "1", ".", "2", ".", "3">>}

\* Known and unknown families, types and protocols; options of each type of
\* value, one with blanks; addresses with and without ports and scopes.
MCProtocols ==
  {<<"inet", ".", "stream">>, <<"inet6", ".", "dgram", ".", "tcp">>, <<"inet", ".", "stream", ".", "nil">>,
   <<"unix", ".", "stream">>, <<"inet">>, <<"nil", ".", "stream">>, <<"inet", ".", "nil">>}
MCOptions ==
  {<<"socket", ".", "rcvbuf", "=", "5">>, <<"socket", ".", "rcvbuf", " ", "=", "5">>,
   <<"socket", ".", "bindtodevice", "=", " ", "eth0">>, <<"socket", ".", "linger", "=", "1">>,
   <<"ip", ".", "rcvbuf", "=", "1">>, <<"nil", ".", "rcvbuf", "=", "1">>, <<"socket", ".", "nil", "=", "1">>}
MCAddressTexts ==
  {<<"h1", ":", "6">>, <<"h1", ":", "99", "z">>, <<"h1">>, <<"nil", ":", "1">>,
   <<"[", "h1", "]", ":", "7">>, <<"[", "h1", "%", "eth0", "]", ":", "7">>,
   <<"[", "h1", "%", "]", ":", "7">>, <<"[", "h1", "%", "eth9", "]", ":", "7">>, <<"[", "h1", "%", "3">>}
MCNumbers ==
  ("1" :> 1) @@ ("3" :> 3) @@ ("5" :> 5) @@ ("6" :> 6) @@ ("7" :> 7) @@ ("99" :> 99)

\* Names over three letters that begin, continue and cross each other, two of
\* them with the same letters in another order; and one that begins with a
\* code so low that the table has no room for its end below it.
MCPool ==
  {<<97>>, <<97, 98>>, <<98>>, <<97, 98, 99>>, <<98, 97>>, <<99, 97, 98>>, <<97, 99>>,
   <<99, 98, 97, 97>>, <<98, 97, 99, 97>>, <<97, 98, 97>>, <<2, 98>>}

\* a z 8 1 \n \" \101 \400 \7 \x41 \x \q \u07ff \u0000 \u0800 \u1000
\* \U00010000: with what each spells.
Piece(t, v, k) == [text |-> t, val |-> v, kind |-> k]
MCPieces ==
  {Piece(<<97>>, <<97>>, "plain"), Piece(<<122>>, <<122>>, "plain"),
   Piece(<<56>>, <<56>>, "plain"), Piece(<<49>>, <<49>>, "plain"),
   Piece(<<92, 110>>, <<10>>, "plain"), Piece(<<92, 34>>, <<34>>, "plain"),
   Piece(<<92, 49, 48, 49>>, <<65>>, "octal"), Piece(<<92, 52, 48, 48>>, <<>>, "odd"),
   Piece(<<92, 55>>, <<7>>, "odd"), Piece(<<92, 120, 52, 49>>, <<65>>, "hex"),
   Piece(<<92, 120>>, <<>>, "odd"), Piece(<<92, 113>>, <<>>, "odd"),
   Piece(<<92, 117, 48, 55, 102, 102>>, <<223, 191>>, "plain"),
   Piece(<<92, 117, 48, 48, 48, 48>>, <<>>, "odd"),
   Piece(<<92, 117, 48, 56, 48, 48>>, <<224, 160, 128>>, "odd"),
   Piece(<<92, 117, 49, 48, 48, 48>>, <<225, 128, 128>>, "plain"),
   Piece(<<92, 85, 48, 48, 48, 49, 48, 48, 48, 48>>, <<240, 144, 128, 128>>, "plain")}

\* An open end of the pipe has an actor behind it, which is never left
\* asleep for good, nor are both ends, and the program never stands still
\* (rr_scheduler, splice_output_actor).
PipeSound ==
  part = "pipe" =>
    Pipe!EndpointsSound /\ Pipe!PipeHasWriter /\ Pipe!NotBothSuspended /\ ENABLED Pipe!Next

\* A name is found exactly where its symbol is, and a prefix or a
\* neighbour of it nowhere (symbol maps of the address families); the
\* generator builds such a table of any list of names, and those of the
\* source of theirs (nomenclate.cpp).
SymbolsResolve ==
  /\ part = "symbols" => Symbols!SymbolsResolve
  /\ part = "tables"  => /\ Tables!NamesFound /\ Tables!WrittenResolves
                         /\ Tables!TablesGenerated /\ Tables!LineMeans

\* An address that is written reads back as itself, and what is read is what
\* was typed (ipv4_address, ipv6_address).
AddressesRoundTrip == part = "texts" => Texts!AddressesRoundTrip

\* Every descriptor of the kernel is held by one object, whichever step of a
\* call fails (io::socket, io::descriptor).
DescriptorsClosed == part = "calls" => Calls!DescriptorsClosed
=============================================================================
