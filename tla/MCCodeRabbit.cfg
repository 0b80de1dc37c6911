CONSTANTS
    ThisHead = "head"
    Run = {r1, r2}
    NoRun = NoRun
    Automatic = 1
    TriggerAnswer = 1
    InProgress = 2
    UnknownWait = 1
    Interval = 2
    Deadline <- OneDeadline
    StatedWait = {1}
    MaxTime = 4
    MaxEvents = 2
SPECIFICATION ReviewSpec
SYMMETRY Symmetry
INVARIANTS
    EveryWaitIsBounded
    WakesInTime
    CompleteIsReviewed
    TriggersAreAnswered
CHECK_DEADLOCK FALSE
