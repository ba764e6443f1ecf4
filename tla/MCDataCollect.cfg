\* Two jobs, a write lock, one interruption.
CONSTANTS
  sync = sync
  snapshot = snapshot
  Jobs = {sync, snapshot}
  Period <- Periods
  MaxRun = 5
  Lateness = 1
SPECIFICATION FairSpec
INVARIANTS
  WritesAlone
PROPERTIES
  EveryCallWrites
CHECK_DEADLOCK FALSE
