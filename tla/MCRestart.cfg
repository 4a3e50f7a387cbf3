\* One process that is restarted once, one shard, any call may fail.
SPECIFICATION Spec

CONSTANTS
    a = a
    b = b
    c = c
    none = none
    p1 = p1
    p2 = p2
    w1 = w1
    w2 = w2
    noOwner = noOwner

    Shard = {a}
    NoShard = none
    Parents <- NoParents
    ParentShardId <- NoParent
    MaxHead = 3

    Worker = {w1, w2}
    NoOwner = noOwner
    LeaseDuration = 1
    RefreshMargin = 1
    MaxClock = 2
    StaleReads = FALSE

    Process = {p1}
    WorkerID <- SharedID
    MaxRecords = 2
    Faults = {"table", "kinesis", "sink"}
    MaxLeases = 2
    MaxStarts = 2

INVARIANTS
    PostsOnlyBeyondCheckpoint

PROPERTIES
    CheckpointNeverGoesBack
    DeliversInOrder

\* Every start may have been used: then the system is down for good.
CHECK_DEADLOCK FALSE
