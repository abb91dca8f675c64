SPECIFICATION LiveSpec
CONSTANTS
    Menus <- MCMenus
    Delays = {1, 2}
    Callbacks <- MCCallbacks
    MaxWorkflows = 2
    MaxIDs = 2
    MaxSignals = 1
    NoTimer = NoTimer
INVARIANTS
    ResultsConserved
    NothingLeftBehind
    TimeTravelTimers
PROPERTIES
    TimeGoesForward
    ActivitiesAnswered
CHECK_DEADLOCK FALSE
