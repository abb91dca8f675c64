SPECIFICATION LiveSpec
CONSTANTS
    Pollers = {p1, p2, p3}
    Tasks = {t1, t2}
    MaxParallelTasks = 2
    Cause = "canceled"
    ReportsErrors = TRUE
    NoTask = NoTask
INVARIANTS
    TypeOK
    SlotsOwned
    ShutdownInOrder
PROPERTIES
    ShutdownCompletes
    TasksSettle
