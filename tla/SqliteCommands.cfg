SPECIFICATION Spec
CONSTANTS
    Handlers = {h1, h2}
    Workers = {w1, w2}
    Instances = {p}
    MaxExecutions = 1
    MaxID = 9
    Commands = {"activity", "timer", "cancelTimer"}
    ClientOps = {"cancel", "purge"}
    UniqueEventIDs = TRUE
    LockChecked = FALSE
    EventsMayFail = FALSE
    RemoveContinuedAsNewInstances = FALSE
    WorkerOf <- Owner
    NoWorker = NoWorker
    NoTask = NoTask
    h1 = h1
    h2 = h2
    h3 = h3
    w1 = w1
    w2 = w2
    p = p
    c = c
INVARIANTS
    ActivityOutcome
    TimerOutcome
SYMMETRY Symmetry
CHECK_DEADLOCK FALSE
