SPECIFICATION FairSpec
CONSTANTS
    t1 = t1
    t2 = t2
    Single = Single
    Transaction = {t1, t2}
    Topic <- Interleaved
    StartTime = 1
    EndTime = 6
    Limit = 5
    MaxAttempts = 3
INVARIANTS
    TypeOK
    NoMessageSkipped
    PassedMessagesAreWhole
    StreamsBounded
PROPERTIES
    EveryMessageArrives
CHECK_DEADLOCK FALSE
