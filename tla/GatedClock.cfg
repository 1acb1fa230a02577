SPECIFICATION GateFairSpec
CONSTANTS
    Threads = {t1, t2, t3}
    Pollers = {t1, t2}
    TicksPerMs = 2
    MaxNow = 5
    FREQ = 2
    I64Values = 64
    InitialTs = {0}
    None = None
INVARIANTS
    IndInv
    RateLimited
    FirstPollPasses
PROPERTIES
    Monotonic
    CallsReturn
