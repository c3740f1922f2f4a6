SPECIFICATION Spec
CONSTANTS
    Requests <- MCRequests
INVARIANTS
    MalformedArgumentsAreSchemaErrors
