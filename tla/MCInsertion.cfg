\* Three byte values and node widths 2 and 3: the trie splits at the root and
\* below it, in both dimensions and in both at once, grows, and holds a key
\* twice.  12 keys, at most 4 insertions; 8 addresses are more than they need.
\* The system stops at MaxKeys.
SPECIFICATION FairSpec
CONSTANTS
  MaxByte = 2
  Widths <- MCWidths
  Paths <- MCPaths
  Values <- MCValues
  Ref = {r1}
  Node = {1, 2, 3, 4, 5, 6, 7, 8}
  nullptr = nullptr
  Malloc <- LowestFree
  MaxKeys = 4
CHECK_DEADLOCK FALSE
INVARIANTS
  TypeOK
  ReadsInRange
  LookupExact
  OneTree
  FanOut
  CountExact
  LabelsExist
PROPERTIES
  ImplementsIndex
  ExecuteTerminates
