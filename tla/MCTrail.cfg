SPECIFICATION FairSpec
CONSTANTS
    StackBeg = 1
    StackEnd = 3
    TrailMax = 2
    CPMax = 3
    t1 = t1
    t2 = t2
    ty = ty
    bck = bck
    FreeType = FreeType
    Terms <- MCTerms
    Types <- MCTypes
    Counts <- MCCounts
INVARIANTS TypeOK CPsOrdered BacktrackPointSound Restorable
PROPERTIES ImplementsBacktracking FailureHandled
CHECK_DEADLOCK FALSE
