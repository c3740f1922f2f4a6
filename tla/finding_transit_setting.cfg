SPECIFICATION Spec
CONSTANTS
    Regions <- MCRegions
    Network <- PricedNetwork
    Alerts <- PricedAlerts
    RunProviders = {"mock", "mock_flaky"}
    SettingsSpace <- TightTransitSettings
    RecursionLimit = 50
    LastErrorCarried = TRUE
    AdapterTools = {}
INVARIANTS
    TransitWithinSettings
