SPECIFICATION Spec
CONSTANTS
    CstUniv <- MCCstUniv
    CstTyEnvSize <- MCCstTyEnvSize
    KstArity <- MCKstArity
    Values <- MCValues
    Programs <- MCPrograms
INVARIANTS TypeOK HeapClosed ArgsBuilt OnlyInstantiated HeadUnified Scoped Restored NoSolutionLost MostGeneral FullyNormal
