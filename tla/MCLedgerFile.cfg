SPECIFICATION FairSpec
CONSTANTS
    p1 = p1  p2 = p2  p3 = p3
    NoProc = NoProc  Nonce = Nonce
    Procs <- MCProcs
    Bodies = {"a", "b"}
    Hash <- MCHash
    Faults = {"kill", "io"}
    MaxLines = 3
INVARIANTS WholeUnlessDamaged MemoryIsPrefix AcknowledgedStays
PROPERTIES UnreadableIsFrozen ImplementsEventLog EveryAppendReturns
CHECK_DEADLOCK FALSE
