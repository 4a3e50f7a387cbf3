\* A refused batch and the end of the shard.
SPECIFICATION Spec

CONSTANTS
    a = a
    b = b
    c = c
    none = none
    p1 = p1
    p2 = p2
    w1 = w1
    w2 = w2
    noOwner = noOwner

    Shard = {a, b}
    NoShard = none
    Parents <- SplitParents
    ParentShardId <- SplitParent
    MaxHead = 2

    Worker = {w1, w2}
    NoOwner = noOwner
    LeaseDuration = 1
    RefreshMargin = 1
    MaxClock = 0
    StaleReads = FALSE

    Process = {p1}
    WorkerID <- SharedID
    MaxRecords = 2
    Faults = {"sink"}
    MaxLeases = 2
    MaxStarts = 1

INVARIANTS
    ShardEndMeansProcessed

\* Every start may have been used: then the system is down for good.
CHECK_DEADLOCK FALSE
