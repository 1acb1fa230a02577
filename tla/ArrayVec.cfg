SPECIFICATION Spec
CONSTANTS
    C = 2
    Vecs = {v, w}
    Values = {1, 2}
    Uninit = Uninit
    Inputs <- MCInputs
SYMMETRY Symmetry
INVARIANTS
    TypeOK
    NothingLeakedOrDroppedTwice
PROPERTIES
    UsesImplement
