SPECIFICATION Spec
CONSTANTS
    Capacity <- MCCapacity
    Kinds <- MCKinds
    DedupeCapacity = 1
    BurstLimit = 1
    NoKey = NoKey
    q1 = q1
    MaxCaptured = 3
INVARIANTS
    CompleteMeansRecorded
PROPERTIES
    CriticalFailureEndsSession
CHECK_DEADLOCK FALSE
