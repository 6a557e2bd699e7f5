SPECIFICATION LiveSpec
CONSTANTS
    MaxAttempts = 1
    Quirks = {}
PROPERTIES
    UnresolvedGoesToReview
CHECK_DEADLOCK FALSE
