\* All four index types, every run of at most three insertions, each of them as
\* by Insert or as by BulkLoad.  The system stops at MaxKeys.
SPECIFICATION StaticSpec
CONSTANTS
  MaxByte = 3
  Widths <- StaticWidths
  Paths <- StaticPaths
  Values <- MCValues
  Ref = {r1}
  Node = {1, 2, 3, 4, 5, 6, 7, 8}
  nullptr = nullptr
  Malloc <- LowestFree
  MaxKeys = 3
  kPathSep = 3
CHECK_DEADLOCK FALSE
INVARIANTS
  TypesCompatible
  UndefinedOnlyMixed
  StaticRepresents
PROPERTY
  ExecuteTerminates
