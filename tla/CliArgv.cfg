SPECIFICATION ArgvSpec
CONSTANTS
    Atoms <- MCAtoms
    Commands <- MCCommands
    Flags <- MCFlags
    Verbs <- MCVerbs
    Letters <- MCLetters
    NoValue = NoValue
    Booleans <- MCBooleans
    Sensitive <- MCSensitive
    SensitiveOutputs <- MCSensitiveOutputs
    ShellTokens <- MCShellTokens
    ShellPrefixes <- MCShellPrefixes
    ShellSuffix = ";"
    BadPatterns <- MCBadPatterns
    Labels <- MCLabels
    Durations <- MCDurations
    PlainAtoms <- MCPlainAtoms
    Objects <- MCObjects
    NoNs = "none"
    Containers <- MCContainers
INVARIANTS
    ArgvTypeOK
    NormalisedReadsBack
    LogsAreBounded
    HintCovers
CHECK_DEADLOCK FALSE
