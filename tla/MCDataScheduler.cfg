\* Two repeating jobs and one that runs once.
CONSTANTS
  sync = sync
  snapshot = snapshot
  late = late
  Jobs = {sync, snapshot, late}
  Repeating = {sync, snapshot}
  Immediate = {snapshot}
  Period <- Periods
  MaxRun = 2
  Lateness = 1
SPECIFICATION FairSpec
PROPERTIES
  TimetableKept
  KeepsCalling
CHECK_DEADLOCK FALSE
