SPECIFICATION Spec
CONSTANTS
  NumTasks = 3
  NumWorkers = 2
  Targets <- OneTarget
  TargetOf <- SameTarget
  Browser <- NoTargets
  Route <- SameRoute
  Pinned <- AllTasks
  Kept <- OneTarget
  Capped <- FirstTwo
  Cap = 1
  MaxQueue = 1
  MaxRetries = 1
  RetryBound = 0
  MaxRestarts = 0
INVARIANTS
  NeverReplayed
  PolicyCap
PROPERTIES
  CancelledIsNotSent
