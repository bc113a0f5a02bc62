SPECIFICATION FairSpec
CONSTANTS
  MaxWrites = 2
  MaxOutput = 1
  MaxInterrupts = 2
  MaxFaults = 1
  WaitNeedsPipes = FALSE
INVARIANTS
  AnswerWhole
  UnsureIsUnknown
  PipeServed
  NoStrayMain
PROPERTIES
  AttemptEnds
CHECK_DEADLOCK FALSE
