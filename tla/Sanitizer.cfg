SPECIFICATION ItemSpec
CONSTANTS
    Keys <- MCKeys
    Positions <- MCPositions
    Bodies <- MCBodies
    Statuses <- MCStatuses
    Modes = {"store", "keysOnly"}
    WordsOf <- MCWordsOf
    InsideOf <- MCInsideOf
    EndsOf <- MCEndsOf
    AllowedKeys = {"helm"}
    Redactions <- MCRedactions
    NoKey = ""
    Longs = {"long", "dlong", "dlong2"}
    Secrets = {"s1", "s2", "redacted"}
    Refs = {"n", "uid", "owner", "creds", "tls", "release"}
    DataValues = {"d1", "dlong", "dlong2"}
    MaxWrites = 2
INVARIANTS
    ItemTypeOK
    NothingHiddenLeaves
    StatusRefreshKeepsDocument
    ReferencesSurvive
    HashesTellValues
