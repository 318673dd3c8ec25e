SPECIFICATION Spec
CONSTANTS
    Users = {u1, u2}
    Tabs = {x, y}
    Nicknames = {nick}
    MaxCalls = 1
    MaxInputs = 2
    MaxFaults = 1
    Tasks = {k1, k2}
    None = None
    u1 = u1
    u2 = u2
    x = x
    y = y
    nick = nick
    k1 = k1
    k2 = k2
INVARIANTS TypeOK BothConsented AcceptedIsSaved
PROPERTIES AcceptShowsContact HandshakeSteps
SYMMETRY Symm
CHECK_DEADLOCK FALSE
