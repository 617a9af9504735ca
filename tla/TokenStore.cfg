SPECIFICATION Spec
CONSTANTS
    Proc = {p1, p2, p3}
    Server = {s1}
    NoProc = NoProc
    MaxCalls <- OneCall
SYMMETRY Symmetry
\* Commands end.
CHECK_DEADLOCK FALSE
INVARIANTS
    TypeOK
    SnapshotIsCurrent
    LiveTokenAccounted
    OneCarrier
    NeverBurnsDeadToken
    ReplayUsesNewToken
    ExecutedAtMostOnce
    TornOnlyByFailure
    ProactiveAdoptsFresh
PROPERTIES
    NeverRollsBack
    CredentialRefined
