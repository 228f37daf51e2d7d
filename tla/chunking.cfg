SPECIFICATION FairSpec
CONSTANTS
    Inputs <- MCInputs
    IDEAL = 13
    CHUNK = 6
    TaskMayFail = TRUE
    InsertMayFail = TRUE
    MayDisconnect = TRUE
INVARIANTS StreamsArePrompts VectorsInOrder WindowsOverlap PromptStored
PROPERTY IngestionEnds
