SPECIFICATION Spec
CONSTANT MaxCoros = 4
INVARIANTS NoUseAfterFree RunningWhileWaiting AwaitedResumes
PROPERTY QuietFreed
CHECK_DEADLOCK FALSE
