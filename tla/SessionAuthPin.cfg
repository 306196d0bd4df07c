SPECIFICATION Spec
CONSTANTS
    Callers = {c1, c2}
    Requests <- MCPinRequests
    Ladder <- MCLadder
    Origins = {here, elsewhere}
    NoOrigin = NoOrigin
    ConfiguredOrigin = NoOrigin
    LoginIds = {1}
    EmbedderOwners = {}
    MaxSessions = 2
INVARIANT WorkflowStateKept
