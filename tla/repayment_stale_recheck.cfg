SPECIFICATION Spec
CONSTANTS
    MaxPayments = 1
    Interest <- NoInterest
    MaxFee = 0
    Callers = {c1, c2}
    MaxOpen = 5
    Quirks = {}
INVARIANTS
    AcknowledgedSuccessKept
CHECK_DEADLOCK FALSE
