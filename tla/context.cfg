SPECIFICATION FairSpec
CONSTANTS
    Token <- MCToken
    EOG <- MCEOG
    N_CTX = 6
    Servers <- AllServers
INVARIANTS SlotTypeOK CachedInKv SamplesTranscript AssertionsHold BudgetKept RetainsKeep
PROPERTY GenerationEnds
