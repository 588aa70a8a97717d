SPECIFICATION Spec
CONSTANTS
    CoreKinds <- MCCoreKinds
    Apis <- MCApis
    Lower <- MCLower
    Reviews = {}
    LegacyGroups = {"extensions"}
    NoGroup = ""
    Objs <- MCObjs
    NoUid = "none"
    CronJobUids = {"c", "c0"}
    Clusters <- MCClusters
    MaxChanges = 2
INVARIANTS
    TypeOK
    EveryTypeOnce
    PushedChainsAreTaken
    ReadRollupsAreTruthful
CHECK_DEADLOCK FALSE
