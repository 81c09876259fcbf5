SPECIFICATION Spec
CONSTANTS
    N = 4
    MaxConcurrency = 2
INVARIANTS
    TypeOK
    RowsFollowPlan
    QuietWhenOver
    ChargesAddUp
PROPERTY BatchEnds
