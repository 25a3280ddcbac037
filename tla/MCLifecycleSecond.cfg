SPECIFICATION Spec
CONSTANTS
    p1 = p1  p2 = p2  p3 = p3
    NoProc = NoProc
    Procs <- MCTwo
    Apart = FALSE
    Faults = {}
    MaxRuns = 3  MaxSize = 2  MaxDirs = 1  MaxFaults = 0
INVARIANTS RunsKept
CHECK_DEADLOCK FALSE
