SPECIFICATION Spec
CONSTANTS
    MaxTime = 5
    MaxFills = 2
    MaxDisturbances = 2
    Starts = {1}
    DayLength = 2
    Overlap = 1
    RecentOverlap = 2
    Lag = 2
    MaxSave = 1
    Hyperliquid = TRUE
INVARIANT VouchedIsHeld
