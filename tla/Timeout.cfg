SPECIFICATION FairSpec
CONSTANTS
    W = 4
    Start = 2
    MaxClock = 5
    Delays = {0, 2}
    MaxTimers = 3
INVARIANTS
    NeverEarly
    ServedInPass
PROPERTIES
    NeverAgain
    DueRuns
