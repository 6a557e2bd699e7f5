SPECIFICATION Spec
CONSTANTS
    MaxAttempts = 2
    Quirks = {"late_success"}
PROPERTIES
    PaidAgainOnlyAfterProof
CHECK_DEADLOCK FALSE
