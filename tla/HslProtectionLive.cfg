SPECIFICATION FairSpec
CONSTANTS
    a = a
    b = b
    Scopes = {a, b}
    Grace = 1
    MaxTime = 1
    Rollback = FALSE
    Faults = FALSE
    Skew = 0
PROPERTIES
    WatchGoesOn
    RecoveryEnds
