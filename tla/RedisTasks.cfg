SPECIFICATION Spec
CONSTANTS
    Ids = {i, j}
    MaxExecutions <- Once
    i = i
    j = j
    Workers = {w1, w2}
    MaxSteps = 1
    ClientOps = {"signal", "cancel", "remove", "expire"}
    Commands = {"none", "activity", "timer", "cancelTimer", "sub", "continue", "finish"}
    NoExec = NoExec
    NoInst = NoInst
    NoTask = NoTask
INVARIANTS
    TypeOK
    HistoryFenced
    TasksMatchPending
    ResultsOnce

    
SYMMETRY Symmetry
CHECK_DEADLOCK FALSE
