SPECIFICATION Spec
CONSTANTS
  FlashSize = 4
  PagePackets = 2
  Garbage = Garbage
  MaxImages = 2
  Phone = 1
INVARIANT AckedIsWritten
