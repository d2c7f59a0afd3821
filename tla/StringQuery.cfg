\* As MCQuery.cfg, with string values that begin each other.
SPECIFICATION QuerySpec
CONSTANTS
  MaxByte = 9
  Widths <- MCWidths
  Paths <- MCPaths
  Values <- Strings
  Ref = {r1}
  Node = {1, 2, 3, 4, 5, 6, 7, 8}
  nullptr = nullptr
  Malloc <- LowestFree
  MaxKeys = 3
  kNullByte = 0
  kPathSep = 5
  Wildcard = 3
  Descendant = 4
  Letter = {1, 2}
  Weight <- MCWeight
  Slash = 6
  QuestionMark = 7
  Caret = 8
  SourceIntegers <- MCIntegers
  SourceBounds <- MCBounds
  Patterns <- StringPatterns
  Bounds <- StringBounds
  ValueSize = 0
  BufferSize = 5
CHECK_DEADLOCK FALSE
INVARIANTS
  QueryExact
