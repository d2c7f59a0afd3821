\* Tries of at most three integer keys, asked six patterns and four ranges
\* after every insertion.  8 addresses and buffers of 5 bytes suffice.  The
\* system stops at MaxKeys with the last query.
SPECIFICATION QueryFairSpec
CONSTANTS
  MaxByte = 9
  Widths <- MCWidths
  Paths <- MCPaths
  Values <- Integers
  Ref = {r1}
  Node = {1, 2, 3, 4, 5, 6, 7, 8}
  nullptr = nullptr
  Malloc <- LowestFree
  MaxKeys = 3
  kNullByte = 0
  kPathSep = 5
  Wildcard = 3
  Descendant = 4
  Letter = {1, 2}
  Weight <- MCWeight
  Slash = 6
  QuestionMark = 7
  Caret = 8
  SourceIntegers <- MCIntegers
  SourceBounds <- MCBounds
  Patterns <- MCPatterns
  Bounds <- IntegerBounds
  ValueSize = 2
  BufferSize = 5
CHECK_DEADLOCK FALSE
INVARIANTS
  QueryTypeOK
  IntegerQueryExact
  BufferHoldsWay
  DecidedAtLeaves
PROPERTY
  QueryEnds
