\* Deques of at most three keys, sorted or with one key twice, loaded into an
\* empty index, into one that holds keys, and followed by insertions.
SPECIFICATION CasFairSpec
CONSTANTS
  MaxByte = 2
  Widths <- MCWidths
  Paths <- MCPaths
  Values <- TwoValues
  Ref = {r1}
  Node = {1, 2, 3, 4, 5, 6, 7, 8}
  nullptr = nullptr
  Malloc <- LowestFree
  MaxKeys = 3
  Loads <- Deques
  MaxLoads = 1
  MaxDeque = 3
CHECK_DEADLOCK FALSE
INVARIANTS
  CasTypeOK
  KeysCovered
  LoadedRepresents
  RoomFor
PROPERTY
  LoadEnds
