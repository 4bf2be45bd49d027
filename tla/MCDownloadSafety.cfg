SPECIFICATION FairSpec
CONSTANTS
  a = a
  b = b
  NoFile = NoFile
  NoName = NoName
  Titles <- TwoTitles
  LastNumber = 3
  MaxDownloads = 4
INVARIANTS
  TypeOK
  DoneIsOnDisk
  
PROPERTIES
  
  CancelEnds
CHECK_DEADLOCK FALSE
