SPECIFICATION FairSpec
CONSTANTS
    MaxAttempts = 2
    POLL_BUDGET = 3
\* The agent stops trying.
CHECK_DEADLOCK FALSE
INVARIANTS
    TypeOK
    ResourcesNamed
    VerdictIsTheServers
PROPERTIES
    AttemptEnds
    AttemptAdvances
