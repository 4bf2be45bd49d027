SPECIFICATION FairSpec
CONSTANTS
  a = a
  b = b
  u = u
  None = None
  Tracks = {a, b, u}
  Untitled = {u}
  Lists <- TwoLists
  Styles <- StyleTable
  Countries <- CountryTable
  Decades = 2
  Rows <- RowNumbers
  Retries = 2
  MaxConns = 4
INVARIANTS
  TypeOK
  InStep
  FilterAsPicked
  CleanExit
PROPERTY
  ShutdownEnds
CHECK_DEADLOCK FALSE
