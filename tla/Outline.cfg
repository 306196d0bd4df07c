SPECIFICATION Spec
CONSTANTS
    Activities = {1, 2, 3, 4, 5}
    ExportOrder <- MCExportOrder
    Start = 0
    Begins = {1}
    Ends = {5}
    ExitsOf <- MCExits
    JoinChoices = {{}, {4}}
    Drawable <- MCDrawable
    MaxTransitions = 5
INVARIANTS
    LoopsBroken
    MergeIsPassed
    OneMerge
    EveryActivityOnce
    OutlineIsTheWorkflow
CHECK_DEADLOCK FALSE
