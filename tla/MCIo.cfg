SPECIFICATION Spec
CONSTANTS
  Sock = sock
  Src = src
  Endpoints = {sock, src}
  Capacity = 3
  OctetBits = 4
  Digits4 = {"0", "1", "7", "8", "a", "x", "."}
  Seeds4 <- MCSeeds4
  Digits6 = {":", "0", "1", "f", "."}
  Seeds6 <- MCSeeds6
  GroupValues = {0, 1, 41216}
  Garbage = {0, 5}
  MaxTyped = 5
  Slots = {s1, s2, s3}
  Fds = {0, 1}
  Hosts = {"h1"}
  PortHalf = 4
  Numbers <- MCNumbers
  Protocols <- MCProtocols
  Options <- MCOptions
  AddressTexts <- MCAddressTexts
  MaxCalls = 6
  Pool <- MCPool
  MaxNames = 4
  Pieces <- MCPieces
  MaxPieces = 3
SYMMETRY Symmetry
INVARIANTS PipeSound SymbolsResolve  DescriptorsClosed
CHECK_DEADLOCK FALSE
