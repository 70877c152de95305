SPECIFICATION Spec
CONSTANTS
    a = a
    b = b
    Scopes = {a}
    Grace = 1
    MaxTime = 2
    Rollback = FALSE
    Faults = TRUE
    Skew = 1
INVARIANTS
    TypeOK
    ExitRemembered
    GraceIsBounded
    FlattenIsExplained
PROPERTIES
    NoEntryAfterExit
    ClockNeverRenewed
    KeepsExits
