SPECIFICATION Spec
CONSTANTS
    LittleEndian = TRUE
    Dangling = {}
    Ips <- MCIps
    Ports = {0, 258}
    Texts <- MCTexts
    PrefixBits = {0, 1, 7, 8, 9, 10, 12, 15, 24, 31, 32, 33, 40, 41, 64, 127, 128, 129}
    MaxUnread = 1
INVARIANTS
    ScopeAsCommented
