SPECIFICATION Spec
CONSTANTS
    p1 = p1  p2 = p2  p3 = p3
    NoProc = NoProc
    Procs <- MCProcs
    Apart = TRUE
    Faults = {"kill", "io"}
    MaxRuns = 3  MaxSize = 2  MaxDirs = 1  MaxFaults = 1
SYMMETRY MCSymmetry
INVARIANTS Whole RunsKept RollbackTakesOwn Usable
PROPERTIES ImplementsRuns
CHECK_DEADLOCK FALSE
