SPECIFICATION Spec
CONSTANTS
    a = a
    b = b
    Scopes = {a}
    Grace = 1
    MaxTime = 1
    Rollback = TRUE
    Faults = TRUE
    Skew = 0
INVARIANT ExitRemembered
