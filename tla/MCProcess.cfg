SPECIFICATION ProcessSpec
CONSTANTS
    Ingests = {i1, i2, i3}
    Keys = {k1, k2}
    Slots = {s1, s2}
    Holders = 1
    MaxWaiting = 1
    None = None
INVARIANTS
    ProcessTypeOK
    AtMostHolders
    BoundedQueue
    SlotLivesWithUsers
    ReleaseNeverBlocks
    LoadsSeeOwnWrites
    StaleAtMostTTL
    LoadsAreShared
    OneTrial
PROPERTIES
    Served
    CallsReturn
    RecoversAfterHeal
