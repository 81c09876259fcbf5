SPECIFICATION Spec
CONSTANTS
    Runs = {r1, r2, r3}
    MaxConcurrency = 2
    Targets <- ProxyAndDind
    BrokerTargets <- Broker
    MaxKills = 2
INVARIANTS
    TypeOK
    MandatoryFence
    NoStaleRules
    CleanExit
PROPERTIES
    FencedWhileRunning
    ForeignRulesKept
SYMMETRY Symmetry
