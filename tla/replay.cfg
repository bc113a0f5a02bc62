SPECIFICATION Spec
CONSTANTS
  NumTasks = 1
  NumWorkers = 1
  Targets <- OneTarget
  TargetOf <- SameTarget
  Browser <- OneTarget
  Route <- SameRoute
  Pinned <- AllTasks
  Kept <- OneTarget
  Capped <- NoTasks
  Cap = 1
  MaxQueue = 1
  MaxRetries = 1
  RetryBound = 1
  MaxRestarts = 0
INVARIANTS
  NeverReplayed
