SPECIFICATION FairSpec
CONSTANTS
    t1 = t1
    t2 = t2
    Tasks = {t1, t2}
    NoTask = NoTask
    MaxId = 6
    RootPolls = FALSE
    RestartRunning = FALSE
INVARIANTS
    PassServesAll
    NoOrphanPoll
    RestartReady
    RunsAsLiveTask
PROPERTIES
    QuietTaskEnds
    LivePollServed
