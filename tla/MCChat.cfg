SPECIFICATION Spec
CONSTANTS
    Clients = {u1, u2}
    MaxCalls = 2
    Tasks = {t1, t2}
    MaxFaults = 1
    None = None
    u1 = u1
    u2 = u2
    t1 = t1
    t2 = t2
SYMMETRY Symm
INVARIANTS TypeOK  NobodyLeftAlone Negotiated
CHECK_DEADLOCK FALSE
