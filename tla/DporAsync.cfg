SPECIFICATION FairOracleSpec
CONSTANTS
    Thread <- MCThread
    Value <- MCValue
    ThreadFn <- MCThreadFn
    Program <- AsyncPrograms
    Model = "Async"
    NumParticipants = 1
    BugOnP1No = FALSE
    InjectCrash = TRUE
    MaxThreadEvents = 0
    MaxDepth = 100
    Splits = {}
    Outcomes = {"continue"}
INVARIANTS
    GraphFollowsProgram
    NoDuplicates
    RevisitsAreWhole
    Complete
PROPERTIES
    Terminates
