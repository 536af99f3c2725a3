SPECIFICATION Spec
CONSTANTS
    Pages = {p1, p2}
    Targets = {t1, t2}
    Gateways = {g1}
    MaxEdits = 2
    MaxFaults = 1
    None = None
PROPERTIES
    
    RoutesConverge
