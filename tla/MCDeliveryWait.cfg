CONSTANTS
    t1 = t1
    t2 = t2
    Targets <- MCTargets
    NoTarget = NoTarget
    NoDigest = NoDigest
    MaxWaits <- MCMaxWaits
    CheckName = {n1}
    ExpectedCheck = {n1}
    Source = {push, pull_request}
    MaxSuite = 2
    Run = {1, 2}
    Job = {1}
    MaxJobs = 1
    MaxAttempts <- MCMaxAttempts
    Disturbed = {"checks"}
    Thread = {x, y}
    MaxChanges = 2
    MaxAttempt = 3
    MaxClock = 5
    PullRequest = {"a", "b", "c", "d"}
    Packet <- MCPacket
    MaxMoves = 2
    Kind = {"checks", "workflows", "threads", "evidence", "stack"}
SPECIFICATION Spec
INVARIANTS
    ChangeReportedUnlessKilled
    VerdictIsCurrent
    SatisfiedRunsWereGreen
    ReviewWasTrue
    ReviewIsTerminal
    StackWasTrue
PROPERTIES
    WaitsEnd
CHECK_DEADLOCK FALSE
