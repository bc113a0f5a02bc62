SPECIFICATION Spec
CONSTANTS
  MaxAttempts = 2
  MaxChunks = 1
  MaxFaults = 1
  MaxSessions = 1
PROPERTIES
  AnswerIsOwn
CHECK_DEADLOCK FALSE
