SPECIFICATION Spec
CONSTANTS
    Handlers = {h1, h2}
    Workers = {w1, w2}
    Instances = {p}
    MaxExecutions = 1
    MaxID = 4
    Commands = {}
    ClientOps = {}
    UniqueEventIDs = FALSE
    LockChecked = TRUE
    EventsMayFail = FALSE
    RemoveContinuedAsNewInstances = FALSE
    WorkerOf <- Owner
    NoWorker = NoWorker
    NoTask = NoTask
    h1 = h1
    h2 = h2
    h3 = h3
    w1 = w1
    w2 = w2
    p = p
    c = c
INVARIANTS
    HistoryContiguous
CHECK_DEADLOCK FALSE
