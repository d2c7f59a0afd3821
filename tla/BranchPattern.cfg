\* The pattern /1 over the paths /1 and /1/2: read behind its end.
SPECIFICATION QuerySpec
CONSTANTS
  MaxByte = 9
  Widths <- MCWidths
  Paths <- MCPaths
  Values <- Integers
  Ref = {r1}
  Node = {1, 2, 3, 4, 5, 6, 7, 8}
  nullptr = nullptr
  Malloc <- LowestFree
  MaxKeys = 2
  kNullByte = 0
  kPathSep = 5
  Wildcard = 3
  Descendant = 4
  Letter = {1, 2}
  Weight <- MCWeight
  Slash = 6
  QuestionMark = 7
  Caret = 8
  SourceIntegers <- MCIntegers
  SourceBounds <- MCBounds
  Patterns <- BranchPatterns
  Bounds <- IntegerBounds
  ValueSize = 2
  BufferSize = 5
CHECK_DEADLOCK FALSE
INVARIANT
  ChildByteInPattern
