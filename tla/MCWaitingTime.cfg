SPECIFICATION Spec
CONSTANTS
  Times <- MCTimes
  MaxRound = 3
  AtrDelay = 2
  Lengths <- MCLengths
  AtrLen = 2
INVARIANTS ReaderNeverGivesUp AssertHolds NullsBetweenAnswers AtrOnTime
