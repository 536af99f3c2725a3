SPECIFICATION FairSpec
CONSTANTS
    Members = {m1}
    Admins = {a1, a2}
    None = None
    MaxRequests = 2
    MaxChanges = 3
    MaxFaults = 0
PROPERTIES ColumnsHeal
