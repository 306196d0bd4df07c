SPECIFICATION Spec
CONSTANTS
    u1 = u1
    u2 = u2
    Callers = {u1, u2}
    maxCalls <- MCMaxCalls
    maxMoves <- MCMaxMoves
    Calls = {1, 2}
    Applications <- MCApplications
    Sets <- MCSets
    Captures <- MCCaptures
    applicationOf <- MCApplicationOf
    defaultOf <- MCDefaultOf
    fileOf <- MCFileOf
    newerThan <- MCNewerThan
    childOf <- MCChildOf
    newSet <- MCNewSet
    Files <- MCFiles
    newFile <- MCNewFile
    Roles <- MCRoles
    automatic = "internal"
    newAcl <- MCNewAcl
    RecordOrder <- MCRecordOrder
    Versions = {1, 2}
    WorkflowVersions = {1, 2}
    CIs <- MCCIs
    CIOrder <- MCCIOrder
    RelatedCIs <- MCRelatedCIs
    relationLimit = 2
    Behaviors <- MCBehaviors
    Requests <- MCRequests
    Moves <- MCMoves
    Present <- MCPresent
    Methods <- MCMethods
INVARIANTS
    
    
    SubmittedInItsSession
    CopiesAreListed
    RolesBeforeActive
SYMMETRY Symmetry
CHECK_DEADLOCK FALSE
