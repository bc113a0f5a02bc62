SPECIFICATION FairSpec
CONSTANTS
  NumTasks = 2
  NumWorkers = 1
  Targets <- OneTarget
  TargetOf <- SameTarget
  Browser <- OneTarget
  Route <- SameRoute
  Pinned <- AllTasks
  Kept <- OneTarget
  Capped <- NoTasks
  Cap = 1
  MaxQueue = 1
  MaxRetries = 1
  RetryBound = 0
  MaxRestarts = 1
PROPERTIES
  KeepsPromises
  PendingResolves
  RunningResolves
