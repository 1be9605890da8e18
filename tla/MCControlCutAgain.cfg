SPECIFICATION Spec
CONSTANT
    Systems <- CutAgainSystems
INVARIANTS
    CutsToLive
CHECK_DEADLOCK FALSE
