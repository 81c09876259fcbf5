SPECIFICATION Spec
CONSTANTS
    Requests = {r1}
    ReadSize = 3
    MaxPauses = 2
    Patience = 2
INVARIANT NeverSilent
