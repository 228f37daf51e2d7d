SPECIFICATION Spec
CONSTANTS
    Inputs <- LongInput
    IDEAL = 13
    CHUNK = 6
    TaskMayFail = FALSE
    InsertMayFail = FALSE
    MayDisconnect = FALSE
INVARIANT VectorOfContents
