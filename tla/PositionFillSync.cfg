SPECIFICATION Spec
CONSTANTS
    Symbols = {s1, s2}
    Psides = {"long"}
    Sizes = {flat, open}
    Flat = flat
    Settle = 1
    MaxWait = 3
    HslMode = "pside"
    HslPsides = {"long"}
    Writes = {w1}
    MaxTime = 5
    MaxRevision = 4
    MaxAttempts = 2
INVARIANTS
    TypeOK
    BlockedIsBounded
    SubmissionProvenance
PROPERTIES
    ReleaseIsSettled
    SentOnFetchedFills
SYMMETRY Symmetry
