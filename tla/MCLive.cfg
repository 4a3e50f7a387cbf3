\* One process that is restarted once, a shard and one child of its split, no
\* failing call: what must happen in the end.
SPECIFICATION FairSpec

CONSTANTS
    a = a
    b = b
    c = c
    none = none
    p1 = p1
    p2 = p2
    w1 = w1
    w2 = w2
    noOwner = noOwner

    Shard = {a, b}
    NoShard = none
    Parents <- SplitParents
    ParentShardId <- SplitParent
    MaxHead = 1

    Worker = {w1, w2}
    NoOwner = noOwner
    LeaseDuration = 1
    RefreshMargin = 1
    MaxClock = 0
    StaleReads = FALSE

    Process = {p1}
    WorkerID <- SharedID
    MaxRecords = 1
    Faults = {}
    MaxLeases = 2
    MaxStarts = 2

PROPERTIES
    EveryRecordOffered
    ClosedShardFinishes
    BlockedChildStarts

\* Every start may have been used: then the system is down for good.
CHECK_DEADLOCK FALSE
