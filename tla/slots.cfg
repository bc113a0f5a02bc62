SPECIFICATION Spec
CONSTANTS
  NumTasks = 2
  NumWorkers = 2
  Targets <- TwoTargets
  TargetOf <- SlotFirst
  Browser <- TwoTargets
  Route <- TaskAnywhere
  Pinned <- AllButFirst
  Kept <- TwoTargets
  Capped <- NoTasks
  Cap = 1
  MaxQueue = 1
  MaxRetries = 1
  RetryBound = 1
  MaxRestarts = 0
INVARIANTS
  TypeOK
  SingleOwner
  QueueSound
  RunningIsWorkedOn
  AttemptNumberFresh
  ConfirmedNotReplayed
PROPERTIES
  TerminalStable
  KeepsPromises
