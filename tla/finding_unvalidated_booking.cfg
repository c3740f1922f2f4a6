SPECIFICATION Spec
CONSTANTS
    Regions <- MCRegions
    Network <- PricedNetwork
    Alerts <- AdapterAlerts
    RunProviders = {"adapter"}
    SettingsSpace <- AdapterSettings
    RecursionLimit = 50
    LastErrorCarried = TRUE
    AdapterTools = {}
INVARIANTS
    ExecutedRouteWasValidated
