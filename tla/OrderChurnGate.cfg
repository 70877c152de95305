CONSTANTS
    a = a
    b = b
    Ideals <- MCIdeals
    Window = 6
    Stability = 2
    MaxGap = 1
    Tolerance = 1
    Unit = 100
    ActivationCount = 1
    MaxOthers = 1
SPECIFICATION FairSpec
INVARIANTS TypeOK EvidenceSinceStable
PROPERTIES FarWithinAllowance SettledOrderPlaced
