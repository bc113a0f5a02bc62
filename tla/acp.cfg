SPECIFICATION FairSpec
CONSTANTS
  MaxAttempts = 2
  MaxChunks = 1
  MaxFaults = 1
  MaxSessions = 1
INVARIANTS
  SessionIsOwn
  PromptNotRepeated
  NoLostFuture
  ConnectionKept
PROPERTIES
  AnswerComplete
  AttemptEnds
CHECK_DEADLOCK FALSE
