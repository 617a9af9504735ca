SPECIFICATION SilentPeersSpec
CONSTANTS
    Conn = {c1, c2}
    NoConn = NoConn
\* A login ends.
CHECK_DEADLOCK FALSE
PROPERTIES
    WaitIsBounded
