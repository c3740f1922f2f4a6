SPECIFICATION Spec
CONSTANTS
    Regions <- MCRegions
    Network <- PricedNetwork
    Alerts <- PricedAlerts
    RunProviders = {"mock", "mock_flaky"}
    SettingsSpace <- RetrySettings
    RecursionLimit = 50
    LastErrorCarried = FALSE
    AdapterTools = {}
INVARIANTS
    ExecutedRouteWasValidated
    LostErrorsAreNeverRetried
    NoSuccessWithoutViableCarrier
