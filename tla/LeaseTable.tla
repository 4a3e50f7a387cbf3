----------------------------- MODULE LeaseTable -----------------------------
(* The DynamoDB table through which KCL workers lease shards and persist      *)
(* their checkpoints, and the requests DynamoCheckpoint sends to it           *)
(* (checkpointer.go).  A row holds the attributes AssignedTo, LeaseTimeout    *)
(* and Checkpoint; time is a bounded integer clock all processes read.        *)
EXTENDS Shards

CONSTANTS
    Worker,         \* the worker ids, values of AssignedTo
    NoOwner,        \* the empty worker id ""
    LeaseDuration,  \* LeaseDuration (FailoverTimeMillis), in clock ticks
    StaleReads,     \* whether a read may be answered by a replica that lags
    MaxClock        \* bound: the clock stops here

ASSUME LeaseAssumption ==
    /\ NoOwner \notin Worker
    /\ LeaseDuration \in Nat \ {0}
    /\ StaleReads \in BOOLEAN
    /\ MaxClock \in Nat

VARIABLES
    table,    \* table[s]: the row of shard s, NoRow when there is none
    replica,  \* replica[s]: an earlier row of s, which a read may still return
    clock

tableVars == <<table, replica, clock>>

(* Checkpoint values: none yet, a sequence number 1, 2, ..., or SHARD_END.    *)
NoCheckpoint == 0
ShardEnd == -1
Checkpoint == {ShardEnd} \cup Nat

Row == [owner : Worker \cup {NoOwner}, timeout : Nat, ckpt : Checkpoint]

(* The same record is the cached shardStatus of a shard just found.           *)
NoRow == [owner |-> NoOwner, timeout |-> 0, ckpt |-> NoCheckpoint]

TableTypeOK ==
    /\ table \in [Shard -> Row]
    /\ replica \in [Shard -> Row]
    /\ clock \in 0..MaxClock

TableInit ==
    /\ table = [s \in Shard |-> NoRow]
    /\ replica = [s \in Shard |-> NoRow]
    /\ clock = 0

(* getItem asks for no consistent read: DynamoDB may answer it from a replica *)
(* that has not seen the latest writes.                                       *)
Readable(s) == IF StaleReads THEN {table[s], replica[s]} ELSE {table[s]}

Replicate(s) ==
    /\ StaleReads
    /\ replica[s] # table[s]
    /\ replica' = [replica EXCEPT ![s] = table[s]]
    /\ UNCHANGED <<table, clock>>

(* GetLease after its getItem: the lease may be asked for when nobody holds   *)
(* it, when it ran out, or when it is already ours.                           *)
Grantable(row, w) ==
    \/ row.owner = NoOwner
    \/ clock > row.timeout
    \/ row.owner = w

(* The condition expression of GetLease's write, evaluated on the row found   *)
(* at the time of the write, for the row seen by its read.                    *)
ConditionHolds(seen, row) ==
    IF seen.owner = NoOwner
    THEN row.owner = NoOwner
    ELSE row.owner = seen.owner /\ row.timeout = seen.timeout

(* PutItem replaces the whole row, the checkpoint included.                   *)
PutRow(s, row) ==
    /\ table' = [table EXCEPT ![s] = row]
    /\ UNCHANGED replica

(* CheckpointSequence: an unconditional PutItem of the cached status.         *)
CheckpointSequence(s, status) == PutRow(s, status)

(* FetchCheckpoint: what the cached status becomes when the row read has a    *)
(* checkpoint; without one the cached status is left as it is.                *)
Fetched(row, status) ==
    IF row.ckpt = NoCheckpoint
    THEN status
    ELSE [owner |-> row.owner, timeout |-> status.timeout, ckpt |-> row.ckpt]

(* RemoveLeaseInfo for a set of shards.                                       *)
RemoveRows(S) ==
    /\ table' = [s \in Shard |-> IF s \in S THEN NoRow ELSE table[s]]
    /\ UNCHANGED replica

Tick ==
    /\ clock < MaxClock
    /\ clock' = clock + 1
    /\ UNCHANGED <<table, replica>>

=============================================================================
