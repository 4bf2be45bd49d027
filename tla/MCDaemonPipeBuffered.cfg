SPECIFICATION Spec
CONSTANTS
  MaxResults = 2
  MaxJobs = 3
  MaxExits = 1
INVARIANTS
  NeverWaitsInVain
CHECK_DEADLOCK FALSE
