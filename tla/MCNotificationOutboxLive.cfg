SPECIFICATION FairSpec
CONSTANTS
    Sessions = {login}
    Events = {}
    Destinations = {d1, d2}
    Workers = {w1}
    Nobody = Nobody
    Batch = 1
    MaxRetries = 0
INVARIANTS DestinationKept
PROPERTIES OutboxSettles
