SPECIFICATION Spec
CONSTANTS
    Runs = {r1, r2}
    MaxConcurrency = 2
    Targets <- ProxyAndDind
    BrokerTargets <- Broker
    MaxKills = 0
PROPERTY PurgesOnlyLeftovers
