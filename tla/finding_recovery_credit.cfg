SPECIFICATION Spec
CONSTANTS
    Regions <- MCRegions
    Network <- FreeCarrierNetwork
    Alerts <- AdapterAlerts
    RunProviders = {"adapter"}
    SettingsSpace <- AdapterSettings
    RecursionLimit = 12
    LastErrorCarried = TRUE
    AdapterTools = {}
    GroundTruth <- AdapterTruth
INVARIANTS
    RecoveredErrorsAreCredited
