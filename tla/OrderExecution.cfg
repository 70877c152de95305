SPECIFICATION FairSpec
CONSTANTS
    o1 = o1
    o2 = o2
    s1 = s1
    Orders = {o1, o2}
    Symbols = {s1}
    SymbolOf <- MCSymbolOf
    Panics = {}
    CancelFirst = TRUE
    MaxCancellations = 1
    MaxCreations = 2
    Window = 2
    Recall = 3
    Lag = 1
    MaxCycle = 1
    MaxAdded = 1
    Wanted = {o1}
INVARIANTS
    TypeOK
    NoDuplicateOrder
    ReplacedAfterConfirmation
PROPERTIES
    SentOnCurrentState
    BookConverges
