SPECIFICATION FairSpec
CONSTANTS
  Size = 2
  Kinds <- MCKinds
  Lengths <- MCLengths
  Tailroom = 3
  MaxXfers = 3
  MaxPackets = 3
  MaxEvents = 2
INVARIANTS TypeOK Accounted WholeToHost InOrder
PROPERTY Progress
CHECK_DEADLOCK FALSE
