SPECIFICATION FairSpec
CONSTANTS
    a = a
    b = b
    Namespaces = {a, b}
    NoNs = NoNs
    Keys <- MCKeys
    NsOf <- MCNsOf
    Requested <- MCRequested
    PageLimit = 2
    MaxRecoveries = 2
INVARIANTS
    TypeOK
    CompleteIsExhaustive
    PartitionsAreExact
PROPERTY ListingEnds
CHECK_DEADLOCK FALSE
