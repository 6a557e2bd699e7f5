SPECIFICATION CustomerSpec
CONSTANTS
    MaxVersions = 2
    Issuers = {r1, r2}
    MaxAttempts = 2
    RequireArtifact = TRUE
    MaxSessions = 3
    Revokers = {v1}
    MaxCodes = 3
    MaxWindows = 2
    RequestLimit = 1
    MaxOtpAttempts = 1
    Requests = {r1, r2}
    MaxRecords = 1
    Uploads = {r1, r2, r3}
    Contents = {x, y}
    Hints = {h, k}
    Customers = {r1, r2}
    BankAccounts = {r1, r2}
    MaxRows = 2
SYMMETRY Symmetry
INVARIANTS
    OneOpenOffer
    SignedIsConfirmed
    CodesWithinLimit
    OneLivePerFamily
    OneVerificationAtATime
    StoredIsThere
    OneProvenAccount
PROPERTIES
    ClosedOffersStayClosed
    SignedIsFinal
    NobodyElsesLock
    PaymentsStandMisreports
CHECK_DEADLOCK FALSE
