SPECIFICATION FairSpec
CONSTANTS
    Regions <- MCRegions
    Network <- PricedNetwork
    Alerts <- PricedAlerts
    RunProviders = {"mock", "mock_flaky", "claude"}
    SettingsSpace <- RetrySettings
    RecursionLimit = 50
    LastErrorCarried = TRUE
    AdapterTools = {}
    GroundTruth <- PricedTruth
INVARIANTS
    TypeOK
    ExecutedRouteWasValidated
    BookedCarrierIsCheapestViable
    SuccessIsConfirmed
    HighRiskIsEscalated
    RunsArePredicted
    EscalationIsJustified
    AuditIsFaithful
    RecoveryTellsOutcome
    ExpectedRunsAreCoherent
    CompositeTellsOutcome
PROPERTIES
    RoutineAlertsSucceed
