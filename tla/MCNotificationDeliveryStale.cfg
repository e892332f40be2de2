SPECIFICATION Spec
CONSTANTS
    e1 = e1
    e2 = e2
    w1 = w1
    w2 = w2
    h1 = h1
    Notifications = {n1}
    Engines = {e1, e2}
    Procs = {w1, w2}
    Cyclers = {w1, w2}
    EngineOf <- MCEngineOf
    MaxRetries = 2
    RetryDelays <- MCDelays
    RetryAfters = {0}
    ClaimTimeout = 1
    BatchLimit = 1
    Prompt = TRUE
    Faults = {"save"}
    MaxFaults = 1
PROPERTIES
    SettledIsFinal
