SPECIFICATION AccountsSpec
CONSTANTS
    MaxPayments = 3
    Interest <- TwoInstalments
    MaxFee = 1
    MaxPrices = 2
    MaxToday = 2
    PriceAdmins = {p1, p2}
    Terms <- Prices
    Principals = {2, 999}
    MaxMonths = 3
    PostingEnabled = TRUE
    PrincipalDue = 1000
    InterestDue = 100
    BouncePercent = 5
    BounceCap = 40
    PenalRate = 2
    PenalMaxDays = 5
    CapPercent = 10
    MaxLateDay = 6
    MaxReceipts = 3
    Scores = {599, 600, 650, 700}
    Delinquencies = {0, 1, 2}
    Inquiries = {1, 2, 4}
    Burdens = {20, 50, 100, 120}
    Facts = {f, g}
    MaxRules = 2
INVARIANTS
    TableAcceptsRows
    BooksMatchInstalments
    AllocationIsWaterfall
    ScheduleAsksWhatIsOwed
    ChargesWithinCap
    FirstBlockingRuleDecides
PROPERTIES
    PastPricesStand
    NeverMoreLenient
CHECK_DEADLOCK FALSE
