SPECIFICATION FairSpec
CONSTANTS
  Kinds <- SomeKinds
  MaxCmds = 2
  MaxEvents = 4
  StopCost = 2
  UsbMaxQlen = 3
INVARIANTS TypeOK AnswersAreDue ResetForwarded
PROPERTY CommandsAnswered
CHECK_DEADLOCK FALSE
