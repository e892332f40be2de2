SPECIFICATION Spec
CONSTANTS
    Callers = {c1, c2}
    Writers = {w1}
    Ids = {1}
    TTL = 1
    LongestLoad = 1
    MaxWrites = 1
    MaxRemote = 0
    None = None
INVARIANTS
    ReadsOwnWrites
