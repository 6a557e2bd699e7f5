SPECIFICATION LiveSpec
CONSTANTS
    MaxAttempts = 2
    Quirks = {}
INVARIANTS
    AtMostOnePayout
    RowsTellTheTruth
    AcknowledgedSuccessKept
PROPERTIES
    KnownPayoutResolves
    ImplementsPromise
CHECK_DEADLOCK FALSE
