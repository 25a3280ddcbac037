SPECIFICATION Spec
CONSTANTS
    p1 = p1  p2 = p2
    NoName = NoName  Absent = Absent  Torn = Torn
    Procs <- MCProcs
    Jobs <- MCJobs
    MaxCommands = 5
SYMMETRY MCSymmetry
INVARIANTS RegisteredOnce ReportedStays NamedIsWritten
CHECK_DEADLOCK FALSE
