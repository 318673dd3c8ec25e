SPECIFICATION Spec
CONSTANTS
    Users = {u1, u2}
    Tabs = {x, y}
    Nicknames = {nick}
    MaxCalls = 1
    MaxInputs = 0
    MaxFaults = 2
    Tasks = {k1, k2}
    None = None
    u1 = u1
    u2 = u2
    x = x
    y = y
    nick = nick
    k1 = k1
    k2 = k2
PROPERTIES Handshake
CHECK_DEADLOCK FALSE
