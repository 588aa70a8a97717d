SPECIFICATION Spec
CONSTANTS
    r1 = r1
    r2 = r2
    NoUuid = NoUuid
    Runs = {r1}
    Settings <- NoUuidSettings
    MaxRetries = 1
    MaxSyncs = 2
INVARIANT
    OwnSyncIsAdopted
CHECK_DEADLOCK FALSE
