SPECIFICATION Spec
CONSTANTS
    Requests <- MCRequests
INVARIANTS
    TypeOK
    RecordsTellTheTruth
    MockCallsAreUnderstood
    ToolsGetDeclaredTypes
    SchemasFitSignatures
