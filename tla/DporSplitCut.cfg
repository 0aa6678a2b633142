SPECIFICATION FairOracleSpec
CONSTANTS
    Thread <- MCThread
    Value <- MCValue
    ThreadFn <- MCThreadFn
    Program <- LimitPrograms
    Model = "Async"
    NumParticipants = 1
    BugOnP1No = FALSE
    InjectCrash = TRUE
    MaxThreadEvents = 2
    MaxDepth = 6
    Splits <- SplitPrograms
    Outcomes = {"continue", "stop"}
INVARIANTS
    CheckpointsNest
    NoDuplicates
    FullIsMaximal
    CompleteUnlessCut
PROPERTIES
    Terminates
