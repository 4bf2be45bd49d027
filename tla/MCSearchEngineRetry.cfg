SPECIFICATION Spec
CONSTANTS
  f = f
  g = g
  None = None
  Providers <- Names
  Queries <- DigOnly
  Filters <- OneFilter
  LoneProviders <- NoProviders
  ThreadsFail = FALSE
  MaxCmds = 1
  MaxLosses = 1
INVARIANTS
  FilterApplied
CHECK_DEADLOCK FALSE
