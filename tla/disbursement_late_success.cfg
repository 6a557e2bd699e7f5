SPECIFICATION DeliverySpec
CONSTANTS
    MaxAttempts = 2
    Quirks = {"late_success"}
PROPERTIES
    LateSuccessIsLookedAt
CHECK_DEADLOCK FALSE
