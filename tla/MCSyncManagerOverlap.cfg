SPECIFICATION Spec
CONSTANTS
    Networks = {n1}
    Sockets = {s1, s2}
    Contents = {c1, c2}
    Blank = Blank
    MaxRequests = 2
INVARIANTS TicksNeverOverlap
