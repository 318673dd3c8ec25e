SPECIFICATION FairSpec
CONSTANTS
    Sockets = {s1,s2,s3}
    Tasks = {t1, t2}
    QUEUE_TTL = 1
    MaxTime = 1
    MaxJoins <- MCMaxJoins
    Eager = {s1}
    None = None
    s1 = s1
    s2 = s2
    s3 = s3
    t1 = t1
    t2 = t2
INVARIANT TypeOK
INVARIANT StrandedOnlyByPutBack
INVARIANT IndexPointsIntoQueue
INVARIANT MatchedAtMostAsJoined
PROPERTY FreshNeverDropped
PROPERTY PairEventually
CHECK_DEADLOCK FALSE
