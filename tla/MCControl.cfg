SPECIFICATION FairSpec
CONSTANT
    Systems <- AllSystems
INVARIANTS
    TypeOK
    ContinuationsIntact
    RecordsApart
    Restored
    CutsToLive
    SlotsAlive
    AlternativesByBacktracking
    ReturnsHome
    CountsRestored
    ClosureAlive
PROPERTIES
    QueryEnds
CHECK_DEADLOCK FALSE
