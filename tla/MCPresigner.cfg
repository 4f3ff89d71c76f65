CONSTANTS
    Callers = {a, b}
    Credentials = {k1}
    Validities = {5}
    Second = 2
    Minute = 3
    DefaultValidity = 6
    DefaultCacheTime = 1
    Timeout = 1
    Lag = 0
    MaxTime = 7
    None = None
SPECIFICATION FairSpec
INVARIANTS TypeOK AcceptedNotLongEnded NotExpiredWhileWaiting
PROPERTIES CallsReturn
