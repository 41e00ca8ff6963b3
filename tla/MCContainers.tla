---------------------------- MODULE MCContainers ----------------------------
(***************************************************************************)
(* The containers, handles and ranges of the libraries.  They share        *)
(* nothing: part says which one a behaviour is about, and c1 .. c7 are its *)
(* variables, in the order in which its module declares them; those it     *)
(* does not need rest.                                                     *)
(***************************************************************************)
EXTENDS Integers, Sequences, TLC

CONSTANTS
  max_rope_depth, max_copy, lazy_threshold, path_cache_len, iterator_buf_len,
  balance_depth, balance_size, exponentiate_threshold, Pieces, MaxLength, MaxEdits,
  MaxChar, MapKeys, MapChanges,
  data_node_order, ptr_node_order, word_bits, Positions, MaxWrites,
  WordBits, Sizes, BitChanges,
  Threads, HandleSlots, Blocks, Lengths, Nothing, MaxOps,
  MaxChunk, MaxChunks, Capacity, MaxMoves,
  Iterators, BlockItems, BlockSize, MaxSteps,
  Paths, Texts, Sep, Esc, Resources, DataSize, ByteBits, PathWordBits, PtrBytes, PathOps,
  capacity, ArrayValues, Raw, ArrayChanges,
  Tags, Numbers, Keys, MaxSize, MplSteps, bits

VARIABLES part, c1, c2, c3, c4, c5, c6, c7

Ropes    == INSTANCE Rope WITH rope <- c1, text <- c2, edits <- c3, iter <- c4
Maps     == INSTANCE StringMap WITH smap <- c1, dict <- c2, changes <- c3, MaxChanges <- MapChanges
Vectors  == INSTANCE SparseVector WITH vec <- c1, ref <- c2, writes <- c3
BitSets  == INSTANCE Bits WITH n <- c1, bset <- c2, ref <- c3, changes <- c4,
                               W <- WordBits, MaxChanges <- BitChanges
Owners   == INSTANCE Ownership WITH heap <- c1, ptr <- c2, task <- c3, allocated <- c4,
                                    freed <- c5, failures <- c6, ops <- c7, Slots <- HandleSlots,
                                    None <- Nothing
Cursors  == INSTANCE Ranges WITH chunks <- c1, at <- c2, si <- c3, ji <- c4, sub <- c5,
                                 fill <- c6, moves <- c7
Induced  == INSTANCE InducedRange WITH producer <- c1, left <- c2, nodes <- c3, finished <- c4,
                                       range <- c5, iter <- c6, steps <- c7,
                                       Items <- BlockItems
PathVars == INSTANCE StringPath WITH slot <- c1, ref <- c2, blocks <- c3, ops <- c4,
                                     Slots <- Paths, W <- PathWordBits, MaxOps <- PathOps,
                                     None <- Nothing
Arrays   == INSTANCE BoundedArray WITH ordered <- c1, data <- c2, valid_size <- c3, ref <- c4,
                                       good <- c5, changes <- c6, MaxChanges <- ArrayChanges
Types    == INSTANCE Mpl WITH what <- c1, obj <- c2, ref <- c3, steps <- c4, MaxSteps <- MplSteps

cells == <<c1, c2, c3, c4, c5, c6, c7>>
From4 == c4 = 0 /\ c5 = 0 /\ c6 = 0 /\ c7 = 0
From5 == c5 = 0 /\ c6 = 0 /\ c7 = 0

Init ==
  \/ part = "rope"    /\ Ropes!Init    /\ From5
  \/ part = "map"     /\ Maps!Init     /\ From4
  \/ part = "vector"  /\ Vectors!Init  /\ From4
  \/ part = "bits"    /\ BitSets!Init  /\ From5
  \/ part = "owner"   /\ Owners!Init
  \/ part = "cursor"  /\ Cursors!Init
  \/ part = "induced" /\ Induced!Init
  \/ part = "path"    /\ PathVars!Init /\ From5
  \/ part = "array"   /\ Arrays!Init   /\ c7 = 0
  \/ part = "mpl"     /\ Types!Init    /\ From5

Next ==
  /\ UNCHANGED part
  /\ \/ part = "rope"    /\ Ropes!Next    /\ UNCHANGED <<c5, c6, c7>>
     \/ part = "map"     /\ Maps!Next     /\ UNCHANGED <<c4, c5, c6, c7>>
     \/ part = "vector"  /\ Vectors!Next  /\ UNCHANGED <<c4, c5, c6, c7>>
     \/ part = "bits"    /\ BitSets!Next  /\ UNCHANGED <<c5, c6, c7>>
     \/ part = "owner"   /\ Owners!Next
     \/ part = "cursor"  /\ Cursors!Next
     \/ part = "induced" /\ Induced!Next
     \/ part = "path"    /\ PathVars!Next /\ UNCHANGED <<c5, c6, c7>>
     \/ part = "array"   /\ Arrays!Next   /\ UNCHANGED c7
     \/ part = "mpl"     /\ Types!Next    /\ UNCHANGED <<c5, c6, c7>>

Spec == Init /\ [][Next]_<<part, cells>>

Symmetry == Permutations(Threads) \cup Permutations(Blocks) \cup Permutations(Paths)

MCPieces == {<<1>>, <<2, 3>>, <<4, 5, 6>>}
MCMapKeys == {<<>>, <<0>>, <<1>>, <<0, 1>>, <<1, 0>>, <<0, 1, 2>>, <<0, 2, 1>>, <<2, 1>>}
MCDataOrders == <<2, 3>>
MCPtrOrders == <<1, 2>>

\* Two texts end with a separator, one has an escaped one, and two are too
\* long for the place inside the object.
MCTexts ==
  {<<>>, <<2, 100, 3>>, <<2, 3>>, <<100, 2, 2>>, <<2, 4, 100>>, <<2, 101, 100, 2>>, <<2, 100>>,
   <<2, 100, 100, 2, 2, 100, 3>>, <<2, 2, 100, 3, 3, 100, 2, 2, 101>>}

\* Two numbers have the value 8 and two the value 10, of types that differ:
\* looking at the value and looking at the type give different answers.
MCNumbers == {<<8, 1>>, <<10, 1>>, <<8, 2>>, <<10, 3>>}

\* A rope spells its text and so does an iterator over it (rope::concat,
\* append, substr; const_iterator).
RopesRead == part = "rope" => Ropes!RopeSpells /\ Ropes!IteratorReads

\* The trie, the sparse vector, the array in place and the path hold what
\* was put into them, through every move between their shapes (string_map
\* relocate, sparse_vector grow and shrink, restricted_array insert,
\* string_path cat and sub_range), and searches and copies of bits agree
\* with sets of positions (bitset, bitmap).
ContainersHold ==
  /\ part = "map"    => Maps!TrieHoldsKeys /\ Maps!RingOfVacant
  /\ part = "vector" => Vectors!VectorHoldsItems /\ Vectors!FindsVacant /\ Vectors!IndexPacks
  /\ part = "array"  => Arrays!ItemsInPlace
  /\ part = "path"   => PathVars!PathsSpell
  /\ part = "bits"   => BitSets!BitsetAgrees /\ BitSets!BitmapAgrees

\* Handles count their owners, freed bytes balance allocated ones, and the
\* nodes of an induced range live while an iterator needs them (counted_ptr,
\* allocator, induced_range_base).
OwnersSound ==
  /\ part = "owner"   => Owners!OwnersCounted /\ Owners!BytesBalance
  /\ part = "induced" => Induced!NodesServeIterators

\* Cursors over joined and chunked ranges stand where a plain index does
\* (seq_range, joined_range, sub_range, range_fill).
CursorsStand == part = "cursor" => Cursors!CursorsAgree /\ Cursors!StoresBounded

\* Sequences, sets and maps of types hold what was put in (mpl vector, list,
\* set, map), and the algorithms over them give what a plain loop would.
TypesSound == part = "mpl" => Types!SequenceSound /\ Types!ChainSound /\ Types!AlgorithmsAgree
=============================================================================
