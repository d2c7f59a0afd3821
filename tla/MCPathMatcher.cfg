\* All paths and patterns over two letters, all ways to cut a path into calls.
SPECIFICATION FairSpec
CONSTANTS
  kNullByte = 0
  kPathSep = 9
  Wildcard = 7
  Descendant = 8
  Letter = {1, 2}
  FullPaths <- MCFullPaths
  Patterns <- MCPatterns
  MaxPath = 4
  MaxPattern = 4
INVARIANTS
  TypeOK
  VerdictExact
  CompletePathDecided
  OneByteCanFollow
PROPERTY
  CallReturns
CHECK_DEADLOCK FALSE
