SPECIFICATION ConfSpec
CONSTANTS
  Node = {1, 2, 3, 4}
  MaxUint64 = 4
  MaxChanges = 2
CHECK_DEADLOCK FALSE
INVARIANTS
  AdmittedIsApplied
  RestoreIsExact
  VoteResultIsExact
PROPERTIES
  QuorumsMeet
  VotersKeepProgress
