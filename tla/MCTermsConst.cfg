SPECIFICATION Spec
CONSTANTS
    CstUniv <- MCCstUniv
    CstTyEnvSize <- MCCstTyEnvSize
    KstArity <- MCKstArity
    Values <- MCValues
    Programs <- ConstPrograms
INVARIANT HeadUnified
