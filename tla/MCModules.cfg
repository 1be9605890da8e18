SPECIFICATION Spec
CONSTANTS
    Pervasives <- MCPervasives
    KindOf <- MCKindOf
    Width = 65536
    Depth = 4
    Programs <- MCPrograms
INVARIANTS OperandsDenote TypesResolve CallsReach ContextAsSource StaleRejected
CHECK_DEADLOCK FALSE
