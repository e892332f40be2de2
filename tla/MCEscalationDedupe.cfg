SPECIFICATION Spec
CONSTANTS
    ReopenAcked = FALSE
    NotifyOnResolve = TRUE
    EpicCount = 0
    EpicAge = 0
    Groups = {g1, g2}
    Keys = {k1}
    Workers = {w1}
    Chains <- OneChain
    Durations = {1}
    MaxTime = 1
    MaxEpisode = 1
    MaxPass = 1
    MaxAlerts = 1
    MaxCrashes = 0
SYMMETRY AllSymmetry
INVARIANTS
    OneActiveGroupPerKey
