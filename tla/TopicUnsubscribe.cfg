SPECIFICATION Spec
CONSTANTS
    t1 = t1
    t2 = t2
    Single = Single
    Transaction = {t1, t2}
    Topic <- OneChunked
    StartTime = 1
    EndTime = 0
    Limit = 0
    MaxAttempts = 3
PROPERTIES
    NoMessageAfterUnsubscribe
CHECK_DEADLOCK FALSE
