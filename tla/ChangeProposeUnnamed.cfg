SPECIFICATION Spec
CONSTANTS
    MaxAttempts = 1
    POLL_BUDGET = 3
\* The agent stops trying.
CHECK_DEADLOCK FALSE
INVARIANTS
    FailureNamesAll
