SPECIFICATION LiveSpec
CONSTANTS
    Instances = {"i", "j"}
    Pollers <- MCPollers
    Queue <- MCQueue
    Queues <- MCQueues
    MaxEvents = 3
    MaxFaults = 1
INVARIANTS
    NoLostWakeup
PROPERTIES
    TasksFetched
CHECK_DEADLOCK FALSE
