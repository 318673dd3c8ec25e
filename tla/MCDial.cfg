SPECIFICATION DialSpec
CONSTANTS
    alice = alice
    bob = bob
    Users = {alice, bob}
    MaxPages = 2
    Sockets <- MCSockets
    UserOf <- MCUserOf
    Dials <- MCDials
    CallIds = {c1}
    Tasks = {t1, t2}
    MaxRequests = 2
    None = None
    c1 = c1
    t1 = t1
    t2 = t2
INVARIANT CallerHearsAccept
CHECK_DEADLOCK FALSE
