SPECIFICATION Spec
CONSTANTS
    Workers = {w1, w2}
    None = None
    Node <- LeanNode
    Root = "r"
    Children <- LeanChildren
    Kind <- LeanKind
    Faulty = {}
    Spawnable <- LeanNode
    Outcomes = {"continue", "stop", "throw"}
    MaxQueuedTasks = 1
    SyncSteps = 6
    SplitPoll = 2
    FlushInterval = 2
SYMMETRY WorkerSymmetry
INVARIANTS
    StopLag
    WorkInvariant
    WorkerStateIsReset
