SPECIFICATION Spec
CONSTANTS
  Worlds <- MCWorlds
  Histories <- MCHistories
  MaxCommittedSizePerReady = 2
  MaxUncommittedSize = 1
  CarefulSnapshots = TRUE
  MaxQueue = 3
  MaxCrashes = 1
  Modes = {TRUE, FALSE}
CHECK_DEADLOCK FALSE
INVARIANTS
  AppliedIsCommitted
  ApplyingSizeIsExact
  UncommittedSizeIsBounded
  NoPanic
  RestartInRange
PROPERTIES
  ImplementsDurableLog
  Drained
