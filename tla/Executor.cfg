SPECIFICATION LiveSpec
CONSTANTS
    Workers = {w1, w2}
    Scenarios <- ReplayScenarios
    NoWorker = NoWorker
    NoTask = NoTask
    NoExecutor = NoExecutor
    w1 = w1
    w2 = w2
INVARIANTS
    TypeOK
    ReplayNeverFails
    ReplayAgrees
    RecordedOnce
    ClosesAsWritten
    NoPanic
PROPERTIES
    WorkflowCloses
CHECK_DEADLOCK FALSE
