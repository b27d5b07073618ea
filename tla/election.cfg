SPECIFICATION LedSpec
CONSTANTS
  s1 = s1
  s2 = s2
  s3 = s3
  Server <- Trio
  Incoming <- Trio
  Outgoing = {}
  None = None
  PreVote = TRUE
  CheckQuorum = TRUE
  AsyncStorageWrites = FALSE
  DisableProposalForwarding = FALSE
  MaxEntsPerMsg = 2
  MaxInflight = 1
  MaxUint64 = 100
  Value = {"v"}
  MaxTerm = 2
  MaxLog = 2
  MaxQueue = 1
  Budget <- ElectionBudget
  Prompt <- Trio
  Delivered <- AllTypes
SYMMETRY Symmetry
VIEW LiveView
CHECK_DEADLOCK FALSE
INVARIANTS TypeOK ElectionSafety
  LeadIsElected
  NoForwardPanic
PROPERTIES DurableVote
