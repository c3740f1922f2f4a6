SPECIFICATION Spec
CONSTANTS
    Regions <- MCRegions
    Network <- FreeCarrierNetwork
    Alerts <- FreeCarrierAlerts
    RunProviders = {"mock", "mock_flaky"}
    SettingsSpace <- LoopSettings
    RecursionLimit = 12
    LastErrorCarried = TRUE
    AdapterTools = {}
INVARIANTS
    WithinRecursionBudget
    AttemptCeilings
PROPERTIES
    ImplementsContract
