SPECIFICATION Spec
CONSTANTS
    Keys <- MCKeys
    Values <- MCValues
    U64s <- MCU64s
    WordBits = 5
    GroupBits = 2
    SentWords <- Words
    Foreign <- MCForeign
    MaxUnread = 2
INVARIANTS
    LoadsCompleteLines
    ReadsBack
    ReadsWhatWasWritten
    DecodeAgreesWithRead
    HexInverts
    EscapeInverts
