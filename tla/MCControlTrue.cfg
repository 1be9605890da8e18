SPECIFICATION Spec
CONSTANT
    Systems <- TrueSystems
INVARIANTS
    AlternativesByBacktracking
CHECK_DEADLOCK FALSE
