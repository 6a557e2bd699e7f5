SPECIFICATION LiveSpec
CONSTANTS
    Workers = {w1, w2}
    MaxAttempts = 2
INVARIANTS
    TrailTellsStatus
    SentWasAccepted
PROPERTIES
    NoWayBack
    Resolves
CHECK_DEADLOCK FALSE
