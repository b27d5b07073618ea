SPECIFICATION MCSpec
CONSTANTS
  s1 = s1
  s2 = s2
  s3 = s3
  Server <- Trio
  Incoming <- Trio
  Outgoing = {}
  None = None
  PreVote = FALSE
  CheckQuorum = FALSE
  AsyncStorageWrites = FALSE
  DisableProposalForwarding = TRUE
  MaxEntsPerMsg = 2
  MaxInflight = 1
  MaxUint64 = 100
  Value = {"v"}
  MaxTerm = 2
  MaxLog = 3
  MaxQueue = 1
  Budget <- LogBudget
  Prompt <- Trio
  Delivered <- AllTypes
SYMMETRY Symmetry
VIEW LiveView
CHECK_DEADLOCK FALSE
INVARIANTS
  LogMatching
  StateMachineSafety
  LeaderCompleteness
