SPECIFICATION Spec
CONSTANTS
    Tasks <- MCTasks
    TypeOf <- MCTypeOf
    Requests <- MCRequests
    ReqTasks <- MCReqTasks
    Mode <- MCMode
    N_SLOTS = 2
    SlotOf <- MCSlotOf
    NPrompt <- MCNPrompt
    NPredict <- MCNPredict
    Lora <- MCLora
    Invalid = {}
    Oversized = {}
    N_BATCH = 2
    ContBatching = TRUE
    ContextLimit = FALSE
    DecodeMayFail = FALSE
    MayDisconnect = {"multi"}
INVARIANT CancelledNotPending
