SPECIFICATION OracleSpec
CONSTANTS
    Thread <- MCThread
    Value <- MCValue
    ThreadFn <- MCThreadFn
    Program <- ErrorPrograms
    Model = "Async"
    NumParticipants = 1
    BugOnP1No = FALSE
    InjectCrash = TRUE
    MaxThreadEvents = 0
    MaxDepth = 100
    Splits = {}
    Outcomes = {"continue"}
INVARIANTS
    Complete
