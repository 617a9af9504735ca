SPECIFICATION FairSpec
CONSTANTS
    Proc = {p1, p2}
    Server = {s1, s2}
    NoProc = NoProc
    MaxCalls <- OneMakesTwo
\* Commands end.
CHECK_DEADLOCK FALSE
INVARIANTS
    LiveTokenAccounted
PROPERTIES
    WaiterGetsLock
    CarriedSettles
    CredentialRefined
    CommandsAdvance
