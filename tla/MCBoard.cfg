SPECIFICATION FairSpec
CONSTANTS
  FlashSize = 4
  PagePackets = 2
  Garbage = Garbage
  MaxImages = 2
  Phone = 1
INVARIANTS TypeOK AppIsWhole Acknowledged RunsInitialised
PROPERTY Recovers
