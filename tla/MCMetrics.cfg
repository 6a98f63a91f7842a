SPECIFICATION Spec
CONSTANTS
    RPCs = {r1, r2, r3}
SYMMETRY Symmetry
INVARIANTS
    TypeOK
    WholeInstrument
    NothingLost
