SPECIFICATION FairSpec
CONSTANTS
    Programs <- AllDefinitions
    Args <- ArgHeads
INVARIANTS
    SourceOrder
    NoneSkippedApart
    LastIsDeterministic
PROPERTIES
    Fails
