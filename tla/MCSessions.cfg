SPECIFICATION FairSpec
CONSTANTS
    alice = alice
    SessionIds = {s1}
    Users = {alice}
    UserOf <- MCUserOf
    Tasks = {t1, t2, t3}
    TTL = 1
    MaxTime = 2
    MaxRefreshes = 4
    MaxFaults = 1
    None = None
    s1 = s1
    t1 = t1
    t2 = t2
    t3 = t3
INVARIANT TypeOK
INVARIANT OneLiveToken
INVARIANT NeverBurnt
INVARIANT NoLateSuccess
PROPERTY ReuseRevokes
CHECK_DEADLOCK FALSE
