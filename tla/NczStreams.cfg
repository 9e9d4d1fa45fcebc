SPECIFICATION FairSpec
CONSTANTS
  Header = 3
  Block = 3
  In = 3
  Out = 4
  Pending = 2
  Ratio = 2
  Tables <- MCTables
  Bodies <- MCBodies
INVARIANTS
  TypeOK
  Faithful
  NeverPastTable
  WholeUnlessCut
  AccBounded
PROPERTIES
  SinkSpec
  Ends
CHECK_DEADLOCK FALSE
