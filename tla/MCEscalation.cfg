SPECIFICATION Spec
CONSTANTS
    ReopenAcked = TRUE
    NotifyOnResolve = TRUE
    EpicCount = 2
    EpicAge = 2
    Groups = {g1}
    Keys = {k1}
    Workers = {w1}
    Chains <- MCChains
    Durations = {1}
    MaxTime = 2
    MaxEpisode = 1
    MaxPass = 1
    MaxAlerts = 2
    MaxCrashes = 0
INVARIANTS
    TypeOK
    NoPageSwallowed
    TimerMatchesStatus
    OpenGroupIsScheduled
