CONSTANTS
    Node = {1, 2}
    Bootstrapped = {1}
    Proposals <- MCProposals
    StepDownOnRemoval = FALSE
    MaxUint64 = 9
    MaxTerm = 3
    MaxLog = 5
    MaxRestarts = 1
SPECIFICATION Spec
CHECK_DEADLOCK FALSE
INVARIANTS
    NoRefusedChange OneLeaderPerTerm CommittedAgree AutoLeaveIsProposed
