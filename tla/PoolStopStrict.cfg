SPECIFICATION Spec
CONSTANTS
    Workers = {w1, w2, w3}
    None = None
    Node <- WideNode
    Root = "r"
    Children <- WideChildren
    Kind <- WideKind
    Faulty = {"t3"}
    Spawnable <- WideNode
    Outcomes = {"continue", "stop", "throw"}
    MaxQueuedTasks = 2
    SyncSteps = 0
    SplitPoll = 1
    FlushInterval = 0
SYMMETRY WorkerSymmetry
INVARIANTS
    StopIsPrompt
    StopInvariant
PROPERTIES
    NoCountAfterException
    ImplementsContract
