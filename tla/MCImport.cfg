\* Four files, loaded or bulk-loaded, twice in any order, with a deletion
\* between and after them.  A deletion may spin for ever, and the system stops
\* at MaxImports.
SPECIFICATION CsvSpec
CONSTANTS
  PathName <- MCPathName
  Pattern <- MCPattern
  Denotes <- MCDenotes
  Extends <- MCExtends
  PlainEnd <- MCPlainEnd
  XValues = {1, 2}
  XRefs = {1, 2, 3, 4}
  Files <- MCFiles
  NoRef = NoRef
  Unparsable = Unparsable
  MaxImports = 2
CHECK_DEADLOCK FALSE
INVARIANTS
  XmlQueryExact
  ImportExact
PROPERTY
  DeleteAlone
