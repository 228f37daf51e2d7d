SPECIFICATION Spec
CONSTANTS
    LeadSize <- MCLeadSize
    Newline = "n"
    Space = " "
    Pieces <- MCPieces
    StopWords <- MCStopWords
    Indents = {0, 2}
    MAX_TOKENS = 4
INVARIANTS StopsAtFirst StreamedText
