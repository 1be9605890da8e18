SPECIFICATION Spec
CONSTANTS
    Programs <- SharedKeys
    Args <- ArgHeads
INVARIANTS
    NoneSkipped
