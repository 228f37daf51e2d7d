SPECIFICATION FairSpec
CONSTANTS
    Client <- MCClient
    Kind <- MCKind
    MAX_SIGNALS = 2
PROPERTIES ShutdownEnds AdmittedEnds LoadingEnds
CHECK_DEADLOCK FALSE
