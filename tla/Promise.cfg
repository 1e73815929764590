CONSTANTS
    MaxPromises = 3
    MaxWaiters = 3
    MaxMembers = 2
SPECIFICATION FairSpec
INVARIANTS AwaitedResolves AllComplete
PROPERTIES CalledOnce ResolvedServed
