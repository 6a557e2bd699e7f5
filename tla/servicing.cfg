SPECIFICATION ServicingSpec
CONSTANTS
    Loans = {l1, l2}
    CollectionWorkers = {w1}
    DueOn <- TwoDueDates
    MaxDay = 2
    Milestones = {2}
    EscalateAt <- OneLevel
    BatchSize = 1
    Runners = {w1, w2}
    Refs = {x, y}
    Foreign = {y}
    MaxRunAttempts = 2
    Tickets = {t1, t2}
    Agents = {a, m}
    Managers = {m}
    Sensitive = {t2}
    MaxOpen = 1
    MaxTicketLevel = 2
INVARIANTS
    NothingTooEarly
    FindingsAreSound
    NoMessageLeftBehind
PROPERTIES
    CasesFollowLoans
    CompletedIsFinal
    RunEnds
CHECK_DEADLOCK FALSE
