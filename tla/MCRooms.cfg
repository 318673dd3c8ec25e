\* Two peers and two rooms, up to two routers; a worker and its replacement die.
CONSTANTS
    None = None
    Sockets = {s1, s2}
    RoomIds = {r1, r2}
    Tasks = {t1, t2}
    Transports = {x1, x2}
    Producers = {p1}
    Consumers = {c1}
    NumWorkers = 1
    MaxRouters = 2
    MaxDeaths = 2
SPECIFICATION Spec
SYMMETRY Symmetry
INVARIANTS TypeOK ParticipantsHaveTransports RoutersAreMapped GoneIsStray 
PROPERTY OnlyOwnLeaveCloses
CHECK_DEADLOCK FALSE
