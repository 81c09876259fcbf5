SPECIFICATION Spec
CONSTANTS
    HeaderSize = 2
    ReadSize = 3
    HeadCap = 1
    TailCap = 1
    Timeout = 2
    PollAttempts = 2
    MaxOutput = 5
    MaxPayload = 2
INVARIANTS
    TypeOK
    NeverFalseSuccess
    OutputWhole
PROPERTY AnswerComes
