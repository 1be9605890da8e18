SPECIFICATION Spec
CONSTANTS
    Pervasives <- MCPervasives
    KindOf <- MCKindOf
    Width = 65536
    Depth = 4
    Programs <- ContextPrograms
INVARIANT CIOfClause
CHECK_DEADLOCK FALSE
