SPECIFICATION SignInSpec
CONSTANTS
    Emails = {e}
    Passwords = {p, q, weak}
    Weak = {weak}
    MaxFailed = 2
    LockTime = 1
    MaxTime = 1
    Tasks = {r1, r2}
    Tabs = {x, y}
    MaxSessions = 2
    None = None
    e = e
    p = p
    q = q
    weak = weak
    r1 = r1
    r2 = r2
    x = x
    y = y
INVARIANTS TypeOK LimitLocks  
PROPERTIES LockClearedOnlyByEarlier FirstRegistrationWins
SYMMETRY Symm
CHECK_DEADLOCK FALSE
