SPECIFICATION Spec
CONSTANTS
  Buf = 5
  LineLens <- MCLineLens
  MaxOps = 3
  MaxLaunches = 2
INVARIANTS
  EveryLineEnds
CHECK_DEADLOCK FALSE
