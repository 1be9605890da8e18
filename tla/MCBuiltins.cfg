SPECIFICATION Spec
CONSTANTS
    WordSize = 4
    IntWidth = 8
    MaxFreeVars = 12
    Consts <- MCConsts
    CstTyEnvSize <- MCCstTyEnvSize
    Files <- MCFiles
    Readable <- MCReadable
    Environment <- MCEnvironment
    Queries <- MCQueries
INVARIANTS StreamsInOrder RoundTrip AnswersRead
PROPERTIES EvaluatesTo
CHECK_DEADLOCK FALSE
