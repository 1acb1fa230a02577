SPECIFICATION Spec
CONSTANTS
    Threads = {t1}
    PoolCapacity = 1
    Heap = {h1}
    None = None
INVARIANTS
    NoPoolAbandoned
