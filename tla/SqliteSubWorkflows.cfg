SPECIFICATION Spec
CONSTANTS
    Handlers = {h1, h2}
    Workers = {w1, w2}
    Instances = {p, c}
    MaxExecutions = 3
    MaxID = 11
    Commands = {"subWorkflow", "cancelSubWorkflow"}
    ClientOps = {}
    UniqueEventIDs = TRUE
    LockChecked = FALSE
    EventsMayFail = FALSE
    RemoveContinuedAsNewInstances = TRUE
    WorkerOf <- Owner
    NoWorker = NoWorker
    NoTask = NoTask
    h1 = h1
    h2 = h2
    h3 = h3
    w1 = w1
    w2 = w2
    p = p
    c = c
INVARIANTS
    OneActiveExecution
    SubWorkflowOutcome
SYMMETRY Symmetry
CHECK_DEADLOCK FALSE
