SPECIFICATION Spec
CONSTANTS
  Buf = 5
  LineLens <- MCLineLens
  MaxOps = 3
  MaxLaunches = 2
INVARIANTS
  TypeOK
  UsbReleased
  ReportCoherent
  LinesWhole
CHECK_DEADLOCK FALSE
