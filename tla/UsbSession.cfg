SPECIFICATION FairSpec
CONSTANTS
  MaxTimeouts = 2
  MaxFailures = 1
  Segment = 2
  FileLen = 4
  ListLen = 1
  MaxCalls = 3
  MaxRestarts = 1
INVARIANTS
  TypeOK
  RangeIntact
  ShortMeansFault
  BlockedMeansReadFailed
  BothReadingMeansFault
  WriteUndisturbed
PROPERTIES
  SessionEnds
CHECK_DEADLOCK FALSE
