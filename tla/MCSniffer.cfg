SPECIFICATION FairSpec
CONSTANTS
  Talks <- MCTalks
  SniffBufLen = 2
  RtorMax = 68
INVARIANTS TypeOK NothingOwed InStep
PROPERTIES ReportsTheLine TalkEnds
