SPECIFICATION Spec
CONSTANTS
    Thread <- TwoThreads
    Value <- TwoValues
    Script <- TwoRoles
    MaxIndex = 2
    MaxEvents = 4
    MaxAssignments = 2
    MaxCheckpoints = 1
INVARIANTS
    CachesExact
    KnownAcyclicSound
    PorfCacheExact
    ProgramOrderIsTotal
    TraceBufferExact
PROPERTY
    ImplementsHistory
CHECK_DEADLOCK FALSE
