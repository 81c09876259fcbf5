SPECIFICATION TalkSpec
CONSTANTS
    MaxTurns = 2
    MaxCalls = 2
    Tools <- TwoTools
INVARIANTS
    SaidComesBack
    ResultsFollowCalls
    NoCallLeft
PROPERTY PrefixStable
