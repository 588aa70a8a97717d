SPECIFICATION FairSpec
CONSTANTS
    n1 = n1
    n2 = n2
    NoNs = NoNs
    Names = {n1, n2}
    Objs <- MCObjs
    Transient <- MCTransient
    Types <- MCTypes
    SourceTypes <- MCSourceTypes
    Inputs <- MCInputs
    Unstorable <- MCUnstorable
    Clusters <- MCClusters
    Inventories <- MCInventories
    Outcomes = {"complete", "failed"}
    BatchSize = 2
    MaxChanges = 2
INVARIANTS
    TypeOK
    NothingSteadyIsDeleted
    CompletePartitionsAreAccurate
    ExactlyOnePartitionEach
    AncestorsFirstWhenNamespacesKnown
PROPERTIES
    ImplementsContract
    RunEnds
CHECK_DEADLOCK FALSE
