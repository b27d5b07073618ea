SPECIFICATION Spec
CONSTANTS
  Proposers = {"p"}
  Steppers = {"m"}
  Stoppers = {"s1", "s2"}
  Leads = {0, 1}
  MaxWork = 1
  MaxCalls = 1
CHECK_DEADLOCK FALSE
INVARIANTS
  NothingLost
  ProposalsNeedLeader
PROPERTIES
  CallsReturn
  Delivered
  LeaderSeen
