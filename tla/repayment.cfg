SPECIFICATION LiveSpec
CONSTANTS
    MaxPayments = 1
    Interest <- NoInterest
    MaxFee = 1
    Callers = {c1, c2}
    MaxOpen = 5
    Quirks = {"late_success"}
INVARIANTS
    CreditOnlyForMoney
    BooksMatchPayments
PROPERTIES
    ReceivedAndReturnedOnce
    PendingResolves
CHECK_DEADLOCK FALSE
