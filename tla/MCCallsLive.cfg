SPECIFICATION FairSpec
CONSTANTS
    alice = alice
    bob = bob
    a1 = a1
    b1 = b1
    b2 = b2
    Users = {alice, bob}
    Sockets = {a1, b1, b2}
    UserOf <- MCUserOf
    Dials <- MCDials
    CallIds = {c1}
    Tasks = {t1, t2}
    MaxRequests = 2
    None = None
    c1 = c1
    t1 = t1
    t2 = t2
INVARIANT Reachable
PROPERTY RingingEnds
CHECK_DEADLOCK FALSE
