\* One process with one lease, restarted once, a shard and one child of its split;
\* calls of table and Kinesis may fail, and the table answers reads from a replica that lags.
SPECIFICATION Spec

CONSTANTS
    a = a
    b = b
    c = c
    none = none
    p1 = p1
    p2 = p2
    w1 = w1
    w2 = w2
    noOwner = noOwner

    Shard = {a, b}
    NoShard = none
    Parents <- SplitParents
    ParentShardId <- SplitParent
    MaxHead = 1

    Worker = {w1, w2}
    NoOwner = noOwner
    LeaseDuration = 1
    RefreshMargin = 1
    MaxClock = 0
    StaleReads = TRUE

    Process = {p1}
    WorkerID <- SharedID
    MaxRecords = 1
    Faults = {"table", "kinesis"}
    MaxLeases = 1
    MaxStarts = 2

INVARIANTS
    WithinLeaseLimit

PROPERTIES
    GoesBackOnlyWhenOutdated
    DeliversInOrder

\* Every start may have been used: then the system is down for good.
CHECK_DEADLOCK FALSE
