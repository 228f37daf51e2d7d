SPECIFICATION Spec
CONSTANTS
    Tasks <- MCTasks
    TypeOf <- MCTypeOf
    Requests <- MCRequests
    ReqTasks <- MCReqTasks
    Mode <- MCMode
    N_SLOTS = 1
    SlotOf <- MCSlotOf
    NPrompt <- MCNPrompt
    NPredict <- MCNPredict
    Lora <- MCLora
    Invalid = {1}
    Oversized = {}
    N_BATCH = 2
    ContBatching = TRUE
    ContextLimit = FALSE
    DecodeMayFail = FALSE
    MayDisconnect = {}
INVARIANT NoneStranded
