SPECIFICATION Spec
CONSTANTS
    t1 = t1
    t2 = t2
    Tasks = {t1, t2}
    NoTask = NoTask
    MaxId = 5
    RootPolls = TRUE
    RestartRunning = TRUE
CHECK_DEADLOCK FALSE
INVARIANT IInv
PROPERTY Implements
