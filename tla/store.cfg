SPECIFICATION Spec
CONSTANTS
  NumTasks = 2
  MaxRetries = 1
  RetryBound = 1
  MaxFaults = 2
  MaxCrashes = 1
INVARIANTS
  AuditSound
  DoneIsTrue
  NothingForgotten
  OneTaskPerKey
  LoopsSurvive
PROPERTIES
  RecordedNotReplayed
CHECK_DEADLOCK FALSE
