SPECIFICATION Spec
CONSTANTS
    alice = alice
    bob = bob
    a1 = a1
    b1 = b1
    b2 = b2
    Users = {alice, bob}
    Sockets = {a1, b1}
    UserOf <- MCUserOf
    Dials <- MCDialsBoth
    CallIds = {c1, c2}
    Tasks = {t1, t2}
    MaxRequests = 2
    None = None
    c1 = c1
    c2 = c2
    t1 = t1
    t2 = t2
SYMMETRY Symm
INVARIANT TypeOK
INVARIANT RingingHasTimer
INVARIANT TargetGuarded
INVARIANT CallIdInRoom
CHECK_DEADLOCK FALSE
