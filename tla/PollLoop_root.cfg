SPECIFICATION Spec
CONSTANTS
    t1 = t1
    t2 = t2
    Tasks = {t1, t2}
    NoTask = NoTask
    MaxId = 3
    RootPolls = TRUE
    RestartRunning = FALSE
CHECK_DEADLOCK FALSE
INVARIANT NoNullDeref
SYMMETRY TaskSymmetry
