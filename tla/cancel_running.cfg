SPECIFICATION FairSpec
CONSTANTS
  NumTasks = 1
  NumWorkers = 1
  Targets <- OneTarget
  TargetOf <- SameTarget
  Browser <- OneTarget
  Route <- SameRoute
  Pinned <- AllTasks
  Kept <- OneTarget
  Capped <- NoTasks
  Cap = 1
  MaxQueue = 1
  MaxRetries = 0
  RetryBound = 0
  MaxRestarts = 0
PROPERTIES
  CancelledRunEnds
