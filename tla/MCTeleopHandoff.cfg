SPECIFICATION Spec
CONSTANTS
    h1 = h1
    h2 = h2
    s1 = s1
    s2 = s2
    s3 = s3
    Transfers <- MCTransfers
    Sessions <- MCSessions
    Requests <- MCRequests
    NoTransfer = NoTransfer
    NoSession = NoSession
INVARIANTS
    SessionsContained
    ConfirmedIsReleased
PROPERTIES
    ConclusionStands
    StraySessionEnds
CHECK_DEADLOCK FALSE
