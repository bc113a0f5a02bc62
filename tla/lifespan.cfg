SPECIFICATION FairSpec
CONSTANTS
  Procs = {p1, p2}
  Tasks = {t1, t2}
  Nobody = nobody
  MaxRuns = 3
  MaxCrashes = 1
INVARIANTS
  OneAtWork
  RowsMatchOwners
PROPERTIES
  LockComesFree
CHECK_DEADLOCK FALSE
