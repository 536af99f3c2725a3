SPECIFICATION FairSpec
CONSTANTS
    Acceptors = {a1}
    Conns = {c1, c2}
    Ips = {i1, i2, i3}
    Dests = {d1, d2}
    Sizes = {1}
    MaxConnections = 2
    MaxPerIp = 1
    MaxDestinations = 1
    PacketLimit = 1
    ByteLimit = 1
    GlobalPacketLimit = 1
    GlobalByteLimit = 2
    Factor = 1
    MinCredit = 1
    MaxCredit = 1
    None = None
    MaxFrames = 2
    MaxReplies = 2
CHECK_DEADLOCK FALSE
INVARIANTS LimitsHeld RepliesHold
PROPERTY SlotReturned
