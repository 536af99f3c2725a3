SPECIFICATION Spec
CONSTANTS
    MaxWork = 1
    MaxScripts = 3
    MaxHostFaults = 3
    Worlds = {"w1", "w2"}
    PlanetSlots = {s1, s2}
    MaxWorldCalls = 3
    MaxWorldFaults = 1
    RegConfigs <- MCRegConfigs
    FirstRegConfig <- MCFirst
    ComposeEnv <- MCFirst
    Savers = {p1, p2}
    SysPages = {p1, p2}
    NoRequest = NoRequest
    MaxPageCalls = 3
    MaxPageFaults = 1
    Rotators = {r1, r2}
    Lookups = {l1, l2}
    CacheTTL = 2
    MaxTicks = 4
    MaxRotations = 3
    MaxSaves = 3
    MaxRestarts = 2
    Tabs = {t1, t2}
    MaxTyped = 2
    MaxPressed = 2
    MaxLoaded = 1
    MaxRefused = 1
    MaxCopies = 2
    OnlineWindow = 3
    Hold = 2
    Gap = 1
    MaxClock = 5
    MaxMoves = 2
    MaxMisses = 1
    BackupPages = {p1, p2}
    TypedNames = {0}
    ServerMajor = 2
    ClientMajors = {1, 2, 3}
    MaxPresses = 3
    MaxBackupFaults = 1
    Members = {m1, m2}
    MemberNames = {0, 1}
    Tables <- MCTables
    MaxMemberChanges = 1
    MaxUserSteps = 2
    MaxReloads = 1
INVARIANTS
    Recoverable
    Together
    OneController
    WorldAgrees
    PageHolds
    AccessCurrent
    StatusHolds
    BackupsHold
    TableHolds

    
CHECK_DEADLOCK FALSE
