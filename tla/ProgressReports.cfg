SPECIFICATION Spec
CONSTANTS
    Workers = {"main", "helper"}
    Main = "main"
    NumKinds = 2
    Depths = {1, 2}
    Intervals = {0, 2}
    FlushIntervals = {1, 2}
    PollInterval = 2
    MaxTerminals = 2
    MaxTime = 4
    MaxReports = 2
INVARIANTS
    ReportsThrottled
    ExactMeansExact
PROPERTY
    SnapshotsMonotone
