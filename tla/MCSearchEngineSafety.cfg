SPECIFICATION FairSpec
CONSTANTS
  f = f
  g = g
  None = None
  Providers <- Names
  Queries <- Words
  Filters <- DigFilters
  LoneProviders <- OtherProvider
  ThreadsFail = TRUE
  MaxCmds = 4
  MaxLosses = 2
INVARIANTS
  TypeOK
  FlagCountsThreads
  DoneShowsQuery
  NeverStaleFilter
  FreedIsQuiet
PROPERTIES
  LatestRequestSettles
  ImplementsDesk
CHECK_DEADLOCK FALSE
