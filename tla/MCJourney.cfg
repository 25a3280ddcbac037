SPECIFICATION Spec
CONSTANTS
    U32 = 4
    MaxDepth = 2
    Protocols <- MCProtocols
    Worlds <- MCWorlds
    Values <- MCValues
    Further <- MCFurther
    Strays <- MCStrays
    Requests <- MCRequests
    MaxEntries = 6
INVARIANTS
    FindingsAreReal
    StampsAreProducible
    BoundaryHeld
    EvidenceSpentOnce
    RulesSpeak
PROPERTIES
    ImplementsWalk
    SiblingsApart
    DeadIsInert
CHECK_DEADLOCK FALSE
