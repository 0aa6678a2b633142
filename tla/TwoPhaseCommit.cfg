SPECIFICATION FairSpec
CONSTANTS
    NumParticipants = 2
    BugOnP1No = TRUE
    MayCrash = TRUE
    Unreliable = TRUE
INVARIANTS
    Agreement
    Validity
    CrashSafety
    TimersFollowPhase
PROPERTIES
    ImplementsCommit
    EveryWaitEnds
CHECK_DEADLOCK FALSE
