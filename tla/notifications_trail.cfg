SPECIFICATION Spec
CONSTANTS
    Workers = {w1, w2}
    MaxAttempts = 2
PROPERTIES
    EveryAttemptRecorded
CHECK_DEADLOCK FALSE
