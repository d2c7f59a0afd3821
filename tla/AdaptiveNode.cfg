\* Six byte values and capacities 2, 3, 5 and 6 stand for 256 byte values and
\* 4, 16, 48 and 256: every layout is filled up and left for the next.
SPECIFICATION Spec
CONSTANTS
  MaxByte = 5
  Cap4 = 2
  Cap16 = 3
  Cap48 = 5
  Child = {c1, c2}
  NULL = NULL
INVARIANTS
  TypeOK
  CountOK
  RoomToGrow
  ScanExact
PROPERTY
  ImplementsChildMap
