SPECIFICATION Spec
CONSTANTS
    C = 3
    UsizeValues = 16
    MaxAdds = 11
    Elements = {e1, e2, e3, e4, e5}
    Fragile = {e1, e2}
    Uninit = Uninit
INVARIANTS
    TypeOK
    OwnsWhatItShows
    DroppedOnce
PROPERTIES
    ImplementsFifo
