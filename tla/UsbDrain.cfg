SPECIFICATION Spec
CONSTANTS
  MaxTimeouts = 2
  MaxFailures = 0
  Segment = 2
  FileLen = 4
  ListLen = 1
  MaxCalls = 3
  MaxRestarts = 1
INVARIANTS
  HostAlwaysDrains
CHECK_DEADLOCK FALSE
