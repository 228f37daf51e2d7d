SPECIFICATION Spec
CONSTANTS
    Token <- MCToken
    EOG <- MCEOG
    N_CTX = 6
    Servers <- DraftServers
INVARIANT LimitMeansBudget
