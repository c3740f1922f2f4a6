SPECIFICATION Spec
CONSTANTS
    Regions <- MCRegions
    Network <- FreeCarrierNetwork
    Alerts <- FreeCarrierAlerts
    RunProviders = {"mock", "mock_flaky"}
    SettingsSpace <- LoopSettings
    RecursionLimit = 50
    LastErrorCarried = TRUE
    AdapterTools = {}
INVARIANTS
    EscalationIsJustified
