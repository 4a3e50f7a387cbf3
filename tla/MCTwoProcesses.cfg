\* Two processes of one source overlap, as during a rolling update, on one shard,
\* while requests to the table and the sink fail.
SPECIFICATION Spec

CONSTANTS
    a = a
    b = b
    c = c
    none = none
    p1 = p1
    p2 = p2
    w1 = w1
    w2 = w2
    noOwner = noOwner

    Shard = {a}
    NoShard = none
    Parents <- NoParents
    ParentShardId <- NoParent
    MaxHead = 2

    Worker = {w1, w2}
    NoOwner = noOwner
    LeaseDuration = 1
    RefreshMargin = 1
    MaxClock = 1
    StaleReads = FALSE

    Process = {p1, p2}
    WorkerID <- SharedID
    MaxRecords = 2
    Faults = {"table", "sink"}
    MaxLeases = 2
    MaxStarts = 1

INVARIANTS
    TypeOK
    NoSilentLoss
    OneConsumerPerShard

PROPERTIES
    
    OrphanedOnlyByGetLease

\* Every start may have been used: then the system is down for good.
CHECK_DEADLOCK FALSE
