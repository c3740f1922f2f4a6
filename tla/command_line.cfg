SPECIFICATION FairCliSpec
CONSTANTS
    Regions <- ShippedRegions
    Network <- ShippedNetwork
    Alerts <- ShippedAlerts
    RunProviders = {"mock", "mock_flaky", "claude"}
    SettingsSpace <- EvaluatedSettings
    RecursionLimit = 50
    LastErrorCarried = TRUE
    AdapterTools = {}
    GroundTruth <- ShippedTruth
    Suites <- AllSuites
    ProviderLists <- AllProviders
    DEFAULT_SETTINGS <- ShippedSettings
    Seconds = 2
    RequestedProviders = {"mock_flaky", "claude"}
    MaxInvocations = 2
INVARIANTS
    HarnessTypeOK
    AuditFileTracksDemos
    ShippedReportIsGolden
    ReportsAreComplete
    InjectedFaultsAreAbsorbed
    PercentilesHaveTheirRank
    EvaluationIsReproducible
PROPERTIES
    EvaluationLeavesAuditFileAlone
    CommandsEnd
