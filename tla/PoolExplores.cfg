SPECIFICATION Spec
CONSTANTS
    Workers = {w1, w2, w3}
    None = None
    Node <- MixNode
    Root = "r"
    Children <- MixChildren
    Kind <- MixKind
    Faulty = {}
    Spawnable <- MixNode
    Outcomes = {"continue"}
    MaxQueuedTasks = 1
    SyncSteps = 0
    SplitPoll = 1
    FlushInterval = 0
SYMMETRY WorkerSymmetry
INVARIANTS
    PoolInvariant
    NothingTwice
PROPERTIES
    ImplementsContract
