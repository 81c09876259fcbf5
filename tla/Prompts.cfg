SPECIFICATION Spec
CONSTANTS
    Messages <- All
    Requests <- Sent
    Compressed <- Returned
INVARIANTS
    UnchangedIsUnchanged
    ProtectedSurvive
    OpeningKept
