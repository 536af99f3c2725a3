SPECIFICATION MCSpec
CONSTANTS
    Users = {x1, x2, x3}
    Invites = {i1}
    Nodes = {d1}
    Slots = {s1, s2}
    MaxCalls = 5
    MaxMessages = 1
    MaxFaults = 1
    None = None
    NetUsers = {plain, adm}
    Admin = adm
    OrgUsers = {plain}
    OrgReaders = {adm}
    Nets = {x1, x2, x3}
    NetSlots = {s1, s2}
    Limit = 1
    MaxNetCalls = 3
    MaxNetFaults = 1
    NoNet = NoNet
SYMMETRY Symmetry
CHECK_DEADLOCK FALSE
INVARIANTS
    MembershipHolds
    
    NetworksHold
PROPERTIES
    DeauthorisedFirst
