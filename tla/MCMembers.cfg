SPECIFICATION FairSpec
CONSTANTS
    Members = {m1}
    Admins = {a1, a2}
    None = None
    MaxRequests = 2
    MaxChanges = 2
    MaxFaults = 1
INVARIANTS  RemovalsTrue
PROPERTIES TableFollows
