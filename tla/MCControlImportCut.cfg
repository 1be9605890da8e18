SPECIFICATION Spec
CONSTANT
    Systems <- ImportCutSystems
INVARIANTS
    CountsRestored
CHECK_DEADLOCK FALSE
