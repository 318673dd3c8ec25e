\* Two peers open the same new room at once.
CONSTANTS
    None = None
    Sockets = {s1, s2}
    RoomIds = {r1}
    Tasks = {t1, t2}
    Transports = {x1, x2}
    Producers = {p1}
    Consumers = {c1}
    NumWorkers = 2
    MaxRouters = 2
    MaxDeaths = 0
SPECIFICATION Spec
INVARIANT SameRouter
CHECK_DEADLOCK FALSE
