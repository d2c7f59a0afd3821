\* Keys that are prefixes of each other, as SurrogateCas makes them from paths
\* that are too deep, against the comment of insertion.cpp:48.
SPECIFICATION FairSpec
CONSTANTS
  MaxByte = 2
  Widths <- MCWidths
  Paths <- SurrogatePaths
  Values <- OneValue
  Ref = {r1}
  Node = {1, 2, 3, 4, 5, 6, 7, 8}
  nullptr = nullptr
  Malloc <- LowestFree
  MaxKeys = 4
CHECK_DEADLOCK FALSE
PROPERTY
  PrefixKeyRejected
