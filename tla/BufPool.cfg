SPECIFICATION FairSpec
CONSTANTS
    Threads = {t1, t2, t3}
    PoolCapacity = 2
    Heap = {h1}
    None = None
INVARIANTS
    TypeOK
    ExclusiveOwnership
    NoUseAfterFree
    NeverOverfull
    FreeBufsCleared
    RemainingAccurate
    FlagNeverPoisoned
    IndInv
PROPERTIES
    UntouchedAfterFree
    ImplementsAbs
    EventuallyFreed
