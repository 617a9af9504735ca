SPECIFICATION FairSpec
CONSTANTS
    Conn = {c1}
    NoConn = NoConn
\* A login ends.
CHECK_DEADLOCK FALSE
PROPERTIES
    PasteIsTaken
