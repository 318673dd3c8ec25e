SPECIFICATION Spec
CONSTANTS
    alice = alice
    bob = bob
    a1 = a1
    b1 = b1
    b2 = b2
    Users = {alice, bob}
    Sockets = {a1, b1}
    UserOf <- MCUserOf
    Dials <- MCDials
    CallIds = {c1}
    Tasks = {t1}
    MaxRequests = 3
    None = None
    c1 = c1
    t1 = t1
INVARIANT AnsweredNotMissed
CHECK_DEADLOCK FALSE
