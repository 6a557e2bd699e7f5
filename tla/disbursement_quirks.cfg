SPECIFICATION Spec
CONSTANTS
    MaxAttempts = 2
    Quirks = {"misreport", "late_landing"}
INVARIANTS
    BooksMatchRows
PROPERTIES
    NoNewsRefused
CHECK_DEADLOCK FALSE
