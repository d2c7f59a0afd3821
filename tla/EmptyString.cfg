\* A key whose value is the empty string: an assertion of Execute fails.
SPECIFICATION QuerySpec
CONSTANTS
  MaxByte = 9
  Widths <- MCWidths
  Paths <- MCPaths
  Values <- WithEmptyString
  Ref = {r1}
  Node = {1, 2, 3, 4, 5, 6, 7, 8}
  nullptr = nullptr
  Malloc <- LowestFree
  MaxKeys = 1
  kNullByte = 0
  kPathSep = 5
  Wildcard = 3
  Descendant = 4
  Letter = {1, 2}
  Weight <- MCWeight
  Slash = 6
  QuestionMark = 7
  Caret = 8
  SourceIntegers <- MCIntegers
  SourceBounds <- MCBounds
  Patterns <- StringPatterns
  Bounds <- WithEmptyString
  ValueSize = 0
  BufferSize = 5
CHECK_DEADLOCK FALSE
INVARIANTS
  DecidedAtLeaves
