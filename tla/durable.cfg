SPECIFICATION LedSpec
CONSTANTS
  s1 = s1
  s2 = s2
  s3 = s3
  Server <- Trio
  Incoming <- Trio
  Outgoing = {s3}
  None = None
  PreVote = FALSE
  CheckQuorum = FALSE
  AsyncStorageWrites = TRUE
  DisableProposalForwarding = FALSE
  MaxEntsPerMsg = 2
  MaxInflight = 1
  MaxUint64 = 100
  Value = {"v"}
  MaxTerm = 2
  MaxLog = 2
  MaxQueue = 2
  Budget <- DurableBudget
  Prompt <- Pair
  Delivered <- AllTypes
VIEW LiveView
SYMMETRY PairSymmetry
CHECK_DEADLOCK FALSE
INVARIANTS
 CommittedOnQuorumDisks
