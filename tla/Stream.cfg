SPECIFICATION FairSpec
CONSTANTS
    Cap = 2
    Echo = FALSE
    MaxReceivers = 3
    MaxSent = 4
INVARIANT Shared
PROPERTIES Delivered Released
