SPECIFICATION Spec
CONSTANTS
    MaxRounds = 2
    MaxCalls = 3
    MaxCallsPerRound = 2
    Deadline = 8
    Grace = 2
    Margin = 2
    MinWait = 1
    MinCall = 1
    HttpTimeout = 12
    Batches <- Mixed
    MaxLate = 2
    Horizon = 38
INVARIANTS
    TypeOK
    MarginSuffices
    SpendsNoMore
    TurnBounded
