\* Paths of one to three labels, of which two fit, with two values: a key whose path
\* is used up may still have to be told from others by its value.  At most three
\* insertions, one bulk load and one query, in any order.  The system stops at these
\* bounds, where the Locator's assertion fails, and at undefined behaviour.
SPECIFICATION FacadeSpec
CONSTANTS
  MaxByte = 1
  Widths <- OneWidth
  Paths <- CodePaths
  Values <- TwoBits
  Ref = {"r"}
  Node = {1, 2, 3, 4, 5, 6, 7, 8}
  nullptr = nullptr
  Malloc <- LowestFree
  MaxKeys = 3
  Loads = {}
  MaxLoads = 1
  LabelName = {"a", "b", "c", "d"}
  NoLabel = "-"
  MaxDepth = 2
  BytesPerLabel = 2
  Base = 2
  LabelPaths <- MCLabelPaths
  Patterns <- MCPatterns
  LabelDeques <- MCLabelDeques
  MaxCalls = 3
  MaxQueries = 1
CHECK_DEADLOCK FALSE
INVARIANTS
  TreeConsistent
  SurrogateIndexExact
  MatcherExact
