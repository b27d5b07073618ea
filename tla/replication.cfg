SPECIFICATION Spec
CONSTANTS
  Value = {2}
  Term = 4
  Starts <- MCStarts
  MaxInflight = 2
  MaxInflightBytes = 2
  MaxSizePerMsg = 2
  MaxLog = 4
  MaxFaults = 1
CHECK_DEADLOCK FALSE
INVARIANTS
  MatchIsReal
  RingIsWindow
  WindowIsOutstanding
PROPERTIES
  EventuallyCaughtUp
