SPECIFICATION Spec
CONSTANTS
    t1 = t1
    t2 = t2
    h1 = h1
    Turns = {t1, t2}
    Helpers = {h1}
    Main = main
    NoTurn = NoTurn
    NoThread = NoThread
    MaxRounds = 1
    MaxAsks <- ThreeThenNone
    Offered = {t1, t2}
INVARIANTS
    TypeOK
    RejectedOnlyAfterExpiry
    InvalidOnlyAfterExpiry
    NeverUnknownSession
PROPERTY ImplementsBlockingCalls
