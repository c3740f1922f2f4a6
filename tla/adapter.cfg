SPECIFICATION FairSpec
CONSTANTS
    Regions <- MCRegions
    Network <- PairNetwork
    Alerts <- AdapterAlerts
    RunProviders = {"adapter"}
    SettingsSpace <- AdapterSettings
    RecursionLimit = 10
    LastErrorCarried = TRUE
    AdapterTools = {"risk_scorer", "carrier_lookup"}
    GroundTruth <- AdapterTruth
INVARIANTS
    UnbookedSuccessIsMiscalled
    RetryCountsMatchTrajectory
    RetryLinks
    FailureIsFinal
    TransitionsAreLegal
    RetriesMatchCounters
    UnexpectedBookingsAreSeen
PROPERTIES
    EventuallyStops
