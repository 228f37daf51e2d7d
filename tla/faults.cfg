SPECIFICATION Spec
CONSTANTS
    Tasks <- FaultTasks
    TypeOf <- FaultTypeOf
    Requests <- FaultRequests
    ReqTasks <- FaultReqTasks
    Mode <- FaultMode
    N_SLOTS = 2
    SlotOf <- FaultSlotOf
    NPrompt <- FaultNPrompt
    NPredict <- FaultNPredict
    Lora <- FaultLora
    Invalid = {2}
    Oversized = {}
    N_BATCH = 2
    ContBatching = TRUE
    ContextLimit = TRUE
    DecodeMayFail = TRUE
    MayDisconnect = {}
INVARIANTS TypeOK NoTaskLost AnswerComplete NoPromptForgotten
CONSTRAINT FewSingle
CHECK_DEADLOCK FALSE
