SPECIFICATION Spec
CONSTANTS
    Requests <- MCRequests
    DenyEnv <- MCDenyEnv
    AllowEnv <- MCAllowEnv
    LayerNames = {"read-only flag", "exec flag", "default", "write grant"}
    Ladders <- MCLadders
INVARIANTS
    TypeOK
    DenyIsFinal
    GrantedFromAbove
    FloorIsNarrow
    AuditNamesEveryGrant
