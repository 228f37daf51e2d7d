SPECIFICATION Spec
CONSTANTS
    LeadSize <- MCLeadSize
    Newline = "n"
    Space = " "
    Pieces <- Letters
    StopWords <- OneStopWord
    Indents = {0}
    MAX_TOKENS = 4
INVARIANT ContentSent
