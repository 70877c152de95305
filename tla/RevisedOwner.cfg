SPECIFICATION FairSpec
CONSTANTS
    e = e
    p = p
    Ordinary = {e}
    Panic = p
    Wanted = {e}
    MaxDisturbances = 2
INVARIANTS
    TypeOK
PROPERTIES
    OneWritePerRead
    NoWriteOnTornRead
    NoEntryUnderRed
    ProtectionGoesOn
    PlanGoesOut
    SentOnOwnSnapshot
