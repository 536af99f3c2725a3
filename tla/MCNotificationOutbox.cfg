SPECIFICATION Spec
CONSTANTS
    Sessions = {}
    Events = {event}
    Destinations = {d1}
    Workers = {w1, w2}
    Nobody = Nobody
    Batch = 2
    MaxRetries = 2
SYMMETRY Symmetry
INVARIANTS NoBlindResend ClaimExclusive
