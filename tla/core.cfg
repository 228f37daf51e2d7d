SPECIFICATION FairSpec
CONSTANTS
    Tasks <- CoreTasks
    TypeOf <- CoreTypeOf
    Requests <- CoreRequests
    ReqTasks <- CoreReqTasks
    Mode <- CoreMode
    N_SLOTS = 2
    SlotOf <- CoreSlotOf
    NPrompt <- CoreNPrompt
    NPredict <- CoreNPredict
    Lora <- CoreLora
    Invalid = {}
    Oversized = {3}
    N_BATCH = 2
    ContBatching = TRUE
    ContextLimit = FALSE
    DecodeMayFail = FALSE
    MayDisconnect = {"stream"}
INVARIANTS NoTaskLost OnePlace AnswerComplete DistinctRows NoneStranded NoResultLeft EndsOnce
PROPERTIES SlotKeepsTask ImplementsService EveryRequestServed AbandonedWorkEnds ServiceAnswers
