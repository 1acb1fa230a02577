SPECIFICATION Spec
CONSTANTS
    LittleEndian = TRUE
    Dangling = {}
    Ips <- MCIps
    Ports = {0, 258}
    Texts <- MCTexts
    PrefixBits = {0, 12, 24, 32, 64}
    MaxUnread = 1
INVARIANTS
    WithinAsDocumented
