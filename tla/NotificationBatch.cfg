SPECIFICATION Spec
CONSTANTS
    Groups = {g1}
    Batches = {b1, b2}
    Notifications = {n1, n2}
    Workers = {w1}
    Ingesters = {i1}
    Timeout = 1
    Deadline = 2
    MaxAborts = 0
INVARIANTS
    NotStranded
