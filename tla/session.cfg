SPECIFICATION FairSpec
CONSTANTS
    Day = 4
    Resync = 2
    MaxLag = 2
    MaxJobs = 2
    MaxSubs = 1
    MaxProcs = 2
    MaxDepth = 2
    MaxMore = 1
CHECK_DEADLOCK FALSE
INVARIANTS TypeOK JobsMatch StreamsClosed
PROPERTIES AtItsTime WaitEnds
