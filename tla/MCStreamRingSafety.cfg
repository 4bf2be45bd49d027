SPECIFICATION Spec
CONSTANTS
  Silence = Silence
  RingSamples = 12
  Limit = 8
  Chunk = 4
  Needed = 2
  Prime = 4
  ReadSizes <- Reads
  Deltas <- Seeks
  MaxBytes = 44
  MaxStreams = 2
INVARIANTS
  TypeOK
  StaysInRing
  PlaysWhatWasSent
PROPERTIES
  RewindReserved
