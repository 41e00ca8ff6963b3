SPECIFICATION Spec
CONSTANTS
  max_rope_depth = 5
  max_copy = 2
  lazy_threshold = 1
  path_cache_len = 2
  iterator_buf_len = 2
  balance_depth = 4
  balance_size = 1000
  exponentiate_threshold = 2
  Pieces <- MCPieces
  MaxLength = 6
  MaxEdits = 2
  MaxChar = 3
  MapKeys <- MCMapKeys
  MapChanges = 5
  data_node_order <- MCDataOrders
  ptr_node_order <- MCPtrOrders
  word_bits = 4
  Positions = {0, 3, 9, 40, 127}
  MaxWrites = 4
  WordBits = 3
  Sizes = {2, 3, 7, 8, 9}
  BitChanges = 3
  Threads = {t1, t2}
  HandleSlots = {1, 2}
  Blocks = {b1, b2}
  Lengths = {0, 2}
  Nothing = Nothing
  MaxOps = 4
  MaxChunk = 3
  MaxChunks = 3
  Capacity = 2
  MaxMoves = 4
  Iterators = {i1, i2}
  BlockItems = 5
  BlockSize = 2
  MaxSteps = 12
  Paths = {s1, s2, s3}
  Texts <- MCTexts
  Sep = 100
  Esc = 101
  Resources = {r1}
  DataSize = 6
  ByteBits = 2
  PathWordBits = 4
  PtrBytes = 2
  PathOps = 3
  capacity = 5
  ArrayValues = {1, 2, 3}
  Raw = 0
  ArrayChanges = 4
  Tags = {"vector", "list", "package"}
  Numbers <- MCNumbers
  Keys = {k1, k2, k3}
  MaxSize = 3
  MplSteps = 6
  bits = 3
SYMMETRY Symmetry
INVARIANTS RopesRead ContainersHold OwnersSound CursorsStand TypesSound
CHECK_DEADLOCK FALSE
