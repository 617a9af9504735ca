SPECIFICATION Spec
CONSTANTS
    Proc = {p1, p2}
    Server = {s1}
    NoProc = NoProc
    MaxCalls <- OneCall
\* Commands end.
CHECK_DEADLOCK FALSE
INVARIANTS
    LogoutSticks
