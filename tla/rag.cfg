SPECIFICATION FairSpec
CONSTANTS
    Requests <- MCRequests
    Tasks <- MCTasks
    Mixes <- MCMixes
    Documents = {"d"}
    N_CHUNKS = 2
    N_RETRIEVALS = 1
    MayDisconnect = {"p"}
    TaskMayFail = TRUE
    DbMayFail = TRUE
INVARIANTS IngestedOnSuccess NoOrphanContents NothingLeft
PROPERTIES SchemaAnswersTrue ImplementsRagStore RequestEnds
