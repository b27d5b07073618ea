CONSTANTS
    Server = {s1, s2, s3}
    s1 = s1
    s2 = s2
    s3 = s3
    None = None
    Voters <- MCVoters
    MaxUint64 = 9
    MaxTerm = 3
    MaxLog = 3
    MaxReads = 2
    MaxNet = 3
    MaxWork = 2
SPECIFICATION Spec
SYMMETRY Perms
CHECK_DEADLOCK FALSE
INVARIANTS ReadIsFresh ConfirmedWereAsked PostponedAreReleased
