SPECIFICATION Spec
CONSTANTS
    e1 = e1
    e2 = e2
    w1 = w1
    w2 = w2
    h1 = h1
    Notifications = {n1, n2}
    Engines = {e1, e2}
    Procs = {w1, w2}
    Cyclers = {w1, w2}
    EngineOf <- MCEngineOf
    MaxRetries = 2
    RetryDelays <- MCDelays
    RetryAfters = {0}
    ClaimTimeout = 0
    BatchLimit = 2
    Prompt = FALSE
    Faults = {"crash", "save", "short", "panic", "report"}
    MaxFaults = 2
SYMMETRY NtfSymmetry
INVARIANTS
    TypeOK
    SentAtMostOnce
    OutcomeRemembered
    AttemptsMatch
    BudgetKept
    FailureReportedOnce
