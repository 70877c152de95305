SPECIFICATION FairSpec
INVARIANTS
    TypeOK
    UnreadIsPending
    ReadyPositionsExplained
PROPERTIES
    OpensOnConfirmedState
    ResumesUnlessHalted
