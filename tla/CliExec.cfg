SPECIFICATION FairSpec
CONSTANTS
    Outputs <- MCOutputs
    Cap <- MCCap
    PipeCap = 1
INVARIANTS
    TypeOK
    OutputIsFirstMatching
    TruncatedMeansCut
    PipesAreDrained
PROPERTY CommandReturns
CHECK_DEADLOCK FALSE
