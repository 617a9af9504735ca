SPECIFICATION FairSpec
CONSTANTS
    Conn = {c1, c2}
    NoConn = NoConn
\* A login ends.
CHECK_DEADLOCK FALSE
INVARIANTS
    TypeOK
    CodeIsBound
    TimeoutMeansNoCallback
PROPERTIES
    LoginEnds
    DecisionRefined
