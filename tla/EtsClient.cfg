SPECIFICATION FairSpec
CONSTANTS
    worker = worker
    Callers = {c1}
    Threads = {c1, worker}
    Files = {f}
    NoFile = NoFile
    Tasks = {1, 2}
    NoTask = NoTask
    QueuedVerbs = {"write", "remove", "read"}
    DirectVerbs = {"queryState", "barrier"}
    MaxTasks = 2
INVARIANTS
    TypeOK
    RepliesFindTheirRequests
    AckedSurvives
PROPERTIES
    FuturesResolve
    DestructorReturns
CHECK_DEADLOCK FALSE
