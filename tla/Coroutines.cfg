SPECIFICATION Spec
CONSTANTS
    Co = {"main", "a", "b"}
    Main = "main"
    Outside = "outside"
    Chan <- MCChan
    Size <- MCSize
    Signals = {"s"}
    Ctx = {"root", "g", "x", "y"}
    Root = "root"
    Fut = {"t"}
    Groups = {"w", "g"}
    Menus <- MCMenus
    MaxCalls = 4
    MaxSignals = 4
    NoCtx = "noctx"
INVARIANTS
    TypeOK
    RoundEndsBlocked
    CancellationReaches
PROPERTIES
    
    FifoSpec
CHECK_DEADLOCK FALSE
