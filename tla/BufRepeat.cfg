SPECIFICATION Spec
CONSTANTS
    Pooled = {p}
    Heap = {h}
    PoolBufCap = 2
    Align = 2
    MaxCapacity = 5
    UsizeValues = 16
    Byte = {x, y}
    Junk = Junk
    Slices <- MCSlices
    Counts = {0, 2, 15}
    Positions = {0, 1, 2}
INVARIANTS
    RepeatWithinCapacity
