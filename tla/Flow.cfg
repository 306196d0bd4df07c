SPECIFICATION FairSpec
CONSTANTS
    Clients = {a}
    Ops = {"inspect", "command", "setBreakpoints", "cancel", "start", "withSession", "runTo", "runToResume", "runToStay"}
    MaxDepth = 2
    Polls = 1
    Attempts = 0
    Initial <- MCInitial
    MaxContexts = 5
    MaxOrder = 1
    MaxCalls = 1
    MaxWork = 1
INVARIANTS
    TypeOK
    RealRunsUntouched
    CancelledRunsEnd
    SessionsClosed
    CommandSeesProgress
PROPERTY CallsReturn
CHECK_DEADLOCK FALSE
