SPECIFICATION FairSpec
CONSTANTS
    r1 = r1
    r2 = r2
    NoUuid = NoUuid
    Runs = {r1, r2}
    Settings <- MCSettings
    MaxRetries = 1
    MaxSyncs = 3
INVARIANTS
    TypeOK
    CommittedIsWhole
    OwnSyncOnly
    OwnSyncIsAdopted
PROPERTY
    RunsEndAndSyncsClose
CHECK_DEADLOCK FALSE
