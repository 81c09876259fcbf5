SPECIFICATION Spec
CONSTANTS
    Requests = {r1, r2}
    ReadSize = 3
    MaxPauses = 1
    Patience = 2
SYMMETRY Symmetry
INVARIANTS
    TypeOK
    BookedInFull
    BookedAtMost
