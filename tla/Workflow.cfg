SPECIFICATION Spec
CONSTANTS
    ann = ann
    bob = bob
    Users = {ann, bob}
    Versions = {"v1", "v2", "v3"}
    Workflows = {"w1", "w2"}
    Names = {"begin", "x", "y", "end"}
    Exits = {1, 2}
    Live = "v1"
    LiveWorkflow = "w1"
    LiveGraph <- MCGraph
    Requests <- MCRequests
    MaxCalls = 3
INVARIANTS
    TypeOK
PROPERTIES
    RefusalLeavesNothing
    KeepsDraftRules
    AnswerIsTrue
SYMMETRY MCSymmetry
CHECK_DEADLOCK FALSE
