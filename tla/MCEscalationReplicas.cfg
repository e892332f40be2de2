SPECIFICATION FairSpec
CONSTANTS
    ReopenAcked = FALSE
    NotifyOnResolve = FALSE
    EpicCount = 0
    EpicAge = 0
    Groups = {g1}
    Keys = {k1}
    Workers = {w1, w2}
    Chains <- OneChain
    Durations = {1}
    MaxTime = 2
    MaxEpisode = 0
    MaxPass = 1
    MaxAlerts = 1
    MaxCrashes = 1
INVARIANTS
    KeysBehind
PROPERTIES
    PagedOnlyWhenDue
    DueGroupIsAdvanced
    SilenceRunsOut
