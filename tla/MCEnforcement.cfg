SPECIFICATION Spec
CONSTANTS
    a1 = a1  a2 = a2  NoActor = NoActor
    Actors <- MCActors
    States = {"idle", "open"}  Unknown = "unknown"
    Policed = {"open"}
    MaxStores = 3  MaxValue = 0
SYMMETRY MCSymmetry
INVARIANTS NoLostBump OwnBucketKept
PROPERTIES ConflictIsReal SecretByPolicy
CHECK_DEADLOCK FALSE
