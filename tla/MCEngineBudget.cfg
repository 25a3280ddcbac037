SPECIFICATION Spec
CONSTANTS
    p1 = p1  p2 = p2  status = status  punchlist = punchlist
    NoProc = NoProc  NoState = NoState
    Procs <- MCProcs
    Views <- MCViews
    States <- MCStates
    InitialState = "idle"
    Targets <- MCTargets
    EventTypes <- MCEventTypes
    CommandNames <- MCCommandNames
    Transitions <- MCTransitions
    RendersOn <- MCRendersOn
    Jobs <- MCMoveJobs
    GateJobs <- MCGateJobs
    Faults = {}
    MaxEntries = 8
    MaxItems = 2
SYMMETRY Symmetric
INVARIANTS BudgetRespected
