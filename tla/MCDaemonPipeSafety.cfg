SPECIFICATION FairSpec
CONSTANTS
  MaxResults = 2
  MaxJobs = 3
  MaxExits = 1
INVARIANTS
  TypeOK
  OwnAnswer
  QuietBetweenJobs
PROPERTIES
  MutexLetGo
  ImplementsCall
CHECK_DEADLOCK FALSE
