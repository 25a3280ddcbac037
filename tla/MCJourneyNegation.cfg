SPECIFICATION Spec
CONSTANTS
    U32 = 4
    MaxDepth = 3
    Protocols <- NegatedProtocols
    Worlds <- MCWorlds
    Values <- MCValues
    Further <- MCFurther
    Strays <- MCStrays
    Requests <- MCRequests
    MaxEntries = 6
INVARIANTS
    FindingsAreReal
CHECK_DEADLOCK FALSE
