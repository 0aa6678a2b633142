SPECIFICATION FairSpec
CONSTANTS
    Workers = {w1, w2}
    None = None
    Node <- MixNode
    Root = "r"
    Children <- MixChildren
    Kind <- MixKind
    Faulty = {}
    Spawnable <- MixNode
    Outcomes = {"continue", "stop"}
    MaxQueuedTasks = 1
    SyncSteps = 0
    SplitPoll = 1
    FlushInterval = 0
PROPERTIES
    Returns
