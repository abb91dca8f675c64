SPECIFICATION Spec
CONSTANTS
    Ids = {i, j}
    MaxExecutions <- Thrice
    Workers = {w1}
    MaxSteps = 0
    ClientOps = {"remove"}
    Commands = {"continue"}
    i = i
    j = j
    NoExec = NoExec
    NoInst = NoInst
    NoTask = NoTask
INVARIANTS
    OneActiveExecution
CHECK_DEADLOCK FALSE
