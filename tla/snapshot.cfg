SPECIFICATION LedSpec
CONSTANTS
  s1 = s1
  s2 = s2
  s3 = s3
  Server <- Pair
  Incoming = {s1}
  Outgoing = {}
  None = None
  PreVote = FALSE
  CheckQuorum = FALSE
  AsyncStorageWrites = FALSE
  DisableProposalForwarding = TRUE
  MaxEntsPerMsg = 2
  MaxInflight = 1
  MaxUint64 = 100
  Value = {"v"}
  MaxTerm = 2
  MaxLog = 2
  MaxQueue = 1
  Budget <- SnapshotBudget
  Prompt <- Pair
  Delivered <- AllTypes
VIEW LiveView
CHECK_DEADLOCK FALSE
INVARIANTS ProgressInv
  CommitInRange
  MatchIsDurable
