---------------------------- MODULE ShardConsumer ----------------------------
(* One goroutine per leased shard: ShardConsumer.getRecords                   *)
(* (shard-consumer.go) with the adapter's record processor, which posts each  *)
(* batch to the sink as one event and then checkpoints it (adapter.go).       *)
(* Every network call is a step of its own, so the consumers of one process,  *)
(* its event loop and the other processes interleave between any two calls.   *)
EXTENDS KinesisStream, LeaseTable

CONSTANTS
    Process,        \* adapter processes that share the lease table
    WorkerID,       \* WorkerID[p]: the KCL worker id p was configured with
    MaxRecords,     \* WithMaxRecords: the limit of one GetRecords call
    RefreshMargin,  \* a lease is refreshed this long before it runs out
    Faults          \* which calls may fail: "table", "kinesis", "sink"

ASSUME ConsumerAssumption ==
    /\ WorkerID \in [Process -> Worker]
    /\ MaxRecords \in Nat \ {0}
    /\ RefreshMargin \in Nat
    /\ Faults \subseteq {"table", "kinesis", "sink"}

VARIABLES
    status,   \* status[p][s]: the shardStatus p caches for s
    stop,     \* stop[p]: the worker's stop channel is closed
    pc,       \* pc[p][s]: where the consumer of s in p is, "idle" if none
    iter,     \* iter[p][s]: its iterator points behind this record
    last,     \* last[p][s]: the last record of the batch it holds
    closing,  \* closing[p][s]: the batch came without a NextShardIterator
    lease,    \* lease[p][s]: the GetLease call in progress between read and write
    fate      \* fate[s][n]: what became of record n of s, for checking only

consumerVars == <<status, stop, pc, iter, last, closing, lease, fate>>

NoLease == [seen |-> NoRow, until |-> 0]

(* The states in which the iterator is in use, and those in which the batch   *)
(* up to last has been handed to the record processor.                        *)
Reading == {"poll", "renew", "read", "post"}
Offered == {"ckpt", "next"}
ConsumerStates == {"idle", "parent", "fetch", "iter", "release"} \cup Reading \cup Offered

(* unseen: never offered to the sink; skipped: passed over by an iterator of  *)
(* type LATEST; refused: its event was not accepted; delivered: it was.       *)
Fates == {"unseen", "skipped", "refused", "delivered"}

ConsumerTypeOK ==
    /\ status \in [Process -> [Shard -> Row]]
    /\ stop \in [Process -> BOOLEAN]
    /\ pc \in [Process -> [Shard -> ConsumerStates]]
    /\ iter \in [Process -> [Shard -> Nat]]
    /\ last \in [Process -> [Shard -> Nat]]
    /\ closing \in [Process -> [Shard -> BOOLEAN]]
    /\ lease \in [Process -> [Shard -> [seen : Row, until : Nat]]]
    /\ fate \in [Shard -> [1..MaxHead -> Fates]]

ConsumerInit ==
    /\ status = [p \in Process |-> [s \in Shard |-> NoRow]]
    /\ stop = [p \in Process |-> FALSE]
    /\ pc = [p \in Process |-> [s \in Shard |-> "idle"]]
    /\ iter = [p \in Process |-> [s \in Shard |-> 0]]
    /\ last = [p \in Process |-> [s \in Shard |-> 0]]
    /\ closing = [p \in Process |-> [s \in Shard |-> FALSE]]
    /\ lease = [p \in Process |-> [s \in Shard |-> NoLease]]
    /\ fate = [s \in Shard |-> [n \in 1..MaxHead |-> "unseen"]]

-----------------------------------------------------------------------------
(* Helpers *)

Goto(p, s, state) == pc' = [pc EXCEPT ![p][s] = state]

SetStatus(p, s, st) == status' = [status EXCEPT ![p][s] = st]

(* GetLease up to its getItem; the new timeout is computed before the read.   *)
LeaseRead(row) == [seen |-> row, until |-> clock + LeaseDuration]
SetLease(p, s, l) == lease' = [lease EXCEPT ![p][s] = l]

(* Bug variant: GetLease writes the row without the Checkpoint attribute.      *)
LeaseRowWithoutCheckpoint(p, s) == [owner   |-> WorkerID[p],
                                    timeout |-> lease[p][s].until,
                                    ckpt    |-> NoCheckpoint]

(* The row GetLease writes carries the cached checkpoint, not the one of the  *)
(* row it read; after a write without error the cached status is the same.    *)
LeaseRow(p, s) == [owner   |-> WorkerID[p],
                   timeout |-> lease[p][s].until,
                   ckpt    |-> status[p][s].ckpt]
LeaseWriteAllowed(p, s) == ConditionHolds(lease[p][s].seen, table[s])

LeaseDue(p, s) == clock + RefreshMargin > status[p][s].timeout

(* Records from..to of s meet the fate f; one that was already offered keeps  *)
(* the better fate.                                                           *)
Better(f) == CASE f = "skipped"   -> {"unseen"}
               [] f = "refused"   -> {"unseen", "skipped"}
               [] f = "delivered" -> Fates
Meet(s, from, to, f) ==
    fate' = [fate EXCEPT ![s] =
        [n \in 1..MaxHead |->
            IF n \in from..to /\ fate[s][n] \in Better(f) THEN f ELSE fate[s][n]]]

streamUnchanged == UNCHANGED streamVars
positionUnchanged == UNCHANGED <<iter, last, closing>>

-----------------------------------------------------------------------------
(* Start of the goroutine *)

(* waitOnParentShard: no parent, or its checkpoint is SHARD_END, or it has no *)
(* checkpoint, which is taken for a parent deleted from the table.            *)
ParentDone(p, s) ==
    /\ pc[p][s] = "parent"
    /\ LET parent == ParentShardId[s] IN
          \/ parent = NoShard
          \/ /\ parent # NoShard
             /\ \E row \in Readable(parent) : row.ckpt \in {NoCheckpoint, ShardEnd}
    /\ Goto(p, s, "fetch")
    /\ UNCHANGED <<status, stop, lease, fate, tableVars>>
    /\ streamUnchanged /\ positionUnchanged

(* waitOnParentShard when the table cannot be read: the goroutine returns.    *)
ParentError(p, s) ==
    /\ pc[p][s] = "parent"
    /\ ParentShardId[s] # NoShard
    /\ "table" \in Faults
    /\ Goto(p, s, "release")
    /\ UNCHANGED <<status, stop, lease, fate, tableVars>>
    /\ streamUnchanged /\ positionUnchanged

(* getShardIterator, first call: FetchCheckpoint.                             *)
FetchCheckpoint(p, s) ==
    /\ pc[p][s] = "fetch"
    /\ \/ /\ \E row \in Readable(s) : SetStatus(p, s, Fetched(row, status[p][s]))
          /\ Goto(p, s, "iter")
       \/ /\ "table" \in Faults
          /\ Goto(p, s, "release")
          /\ UNCHANGED status
    /\ UNCHANGED <<stop, lease, fate, tableVars>>
    /\ streamUnchanged /\ positionUnchanged

(* Bug variant: LATEST whatever the checkpoint says.                          *)
IteratorAlwaysLatest(p, s) ==
    /\ pc[p][s] = "iter"
    /\ s \in Listed
    /\ iter' = [iter EXCEPT ![p][s] = head[s]]
    /\ Meet(s, 1, head[s], "skipped")
    /\ Goto(p, s, "poll")
    /\ UNCHANGED <<status, stop, last, closing, lease, tableVars>>
    /\ streamUnchanged

(* getShardIterator, second call: without a checkpoint the iterator starts at *)
(* LATEST, behind every record put so far.                                    *)
IteratorLatest(p, s) ==
    /\ pc[p][s] = "iter"
    /\ status[p][s].ckpt = NoCheckpoint
    /\ s \in Listed
    /\ iter' = [iter EXCEPT ![p][s] = head[s]]
    /\ Meet(s, 1, head[s], "skipped")
    /\ Goto(p, s, "poll")
    /\ UNCHANGED <<status, stop, last, closing, lease, tableVars>>
    /\ streamUnchanged

(* Bug variant: AT_SEQUENCE_NUMBER instead of AFTER_SEQUENCE_NUMBER.          *)
IteratorAtCheckpoint(p, s) ==
    /\ pc[p][s] = "iter"
    /\ status[p][s].ckpt \notin {NoCheckpoint, ShardEnd}
    /\ s \in Listed
    /\ iter' = [iter EXCEPT ![p][s] = status[p][s].ckpt - 1]
    /\ Goto(p, s, "poll")
    /\ UNCHANGED <<status, stop, last, closing, lease, fate, tableVars>>
    /\ streamUnchanged

IteratorAfterCheckpoint(p, s) ==
    /\ pc[p][s] = "iter"
    /\ status[p][s].ckpt \notin {NoCheckpoint, ShardEnd}
    /\ s \in Listed
    /\ iter' = [iter EXCEPT ![p][s] = status[p][s].ckpt]
    /\ Goto(p, s, "poll")
    /\ UNCHANGED <<status, stop, last, closing, lease, fate, tableVars>>
    /\ streamUnchanged

(* Kinesis refuses the iterator: SHARD_END is no sequence number, the shard   *)
(* is gone, or the call failed.                                               *)
IteratorError(p, s) ==
    /\ pc[p][s] = "iter"
    /\ \/ status[p][s].ckpt = ShardEnd
       \/ s \notin Listed
       \/ "kinesis" \in Faults
    /\ Goto(p, s, "release")
    /\ UNCHANGED <<status, stop, lease, fate, tableVars>>
    /\ streamUnchanged /\ positionUnchanged

-----------------------------------------------------------------------------
(* The loop of getRecords *)

(* The lease is about to run out: GetLease reads the row ...                  *)
RenewRead(p, s) ==
    /\ pc[p][s] = "poll"
    /\ LeaseDue(p, s)
    /\ \/ /\ \E row \in Readable(s) :
                /\ Grantable(row, WorkerID[p])
                /\ SetLease(p, s, LeaseRead(row))
          /\ Goto(p, s, "renew")
       \/ /\ \/ "table" \in Faults
             \/ \E row \in Readable(s) : ~Grantable(row, WorkerID[p])
          /\ Goto(p, s, "release")
          /\ UNCHANGED lease
    /\ UNCHANGED <<status, stop, fate, tableVars>>
    /\ streamUnchanged /\ positionUnchanged

(* ... and writes it if the condition holds.                                  *)
RenewWrite(p, s) ==
    /\ pc[p][s] = "renew"
    /\ LeaseWriteAllowed(p, s)
    /\ PutRow(s, LeaseRow(p, s))
    /\ SetStatus(p, s, LeaseRow(p, s))
    /\ SetLease(p, s, NoLease)
    /\ Goto(p, s, "read")
    /\ UNCHANGED <<stop, fate, clock>>
    /\ streamUnchanged /\ positionUnchanged

(* The write is refused, or it fails: with its answer lost, it took effect.   *)
RenewError(p, s) ==
    /\ pc[p][s] = "renew"
    /\ \/ ~LeaseWriteAllowed(p, s) /\ UNCHANGED <<table, replica>>
       \/ "table" \in Faults /\ UNCHANGED <<table, replica>>
       \/ "table" \in Faults /\ LeaseWriteAllowed(p, s) /\ PutRow(s, LeaseRow(p, s))
    /\ SetLease(p, s, NoLease)
    /\ Goto(p, s, "release")
    /\ UNCHANGED <<status, stop, fate, clock>>
    /\ streamUnchanged /\ positionUnchanged

(* GetRecords: at most MaxRecords records behind the iterator, possibly none. *)
(* The answer that reaches the end of a closed shard may come without a       *)
(* NextShardIterator.  Only a batch with records is handed to ProcessRecords. *)
GetRecords(p, s) ==
    /\ pc[p][s] = "read" \/ (pc[p][s] = "poll" /\ ~LeaseDue(p, s))
    /\ s \in Listed
    /\ \E to \in iter[p][s]..head[s], end \in BOOLEAN :
          /\ to <= iter[p][s] + MaxRecords
          /\ end => phase[s] = "closed" /\ to = head[s]
          /\ last' = [last EXCEPT ![p][s] = to]
          /\ closing' = [closing EXCEPT ![p][s] = end]
          /\ Goto(p, s, IF to = iter[p][s] THEN "next" ELSE "post")
    /\ UNCHANGED <<status, stop, iter, lease, fate, tableVars>>
    /\ streamUnchanged

(* Throttled: back to the top of the loop, past the check of the stop         *)
(* channel; any other error ends the goroutine.                               *)
GetRecordsError(p, s) ==
    /\ pc[p][s] = "read" \/ (pc[p][s] = "poll" /\ ~LeaseDue(p, s))
    /\ \/ "kinesis" \in Faults /\ Goto(p, s, "poll")
       \/ "kinesis" \in Faults /\ Goto(p, s, "release")
       \/ s \notin Listed /\ Goto(p, s, "release")
    /\ UNCHANGED <<status, stop, lease, fate, tableVars>>
    /\ streamUnchanged /\ positionUnchanged

(* Bug variant: the batch is checkpointed without having been posted.         *)
PostMessageSkipped(p, s) ==
    /\ pc[p][s] = "post"
    /\ Goto(p, s, "ckpt")
    /\ UNCHANGED <<status, stop, lease, fate, tableVars>>
    /\ streamUnchanged /\ positionUnchanged

(* sourceRecordProcessor.ProcessRecords, postMessage: the batch goes out as   *)
(* one event.  After an error (the event refused, or accepted and the answer  *)
(* lost) it returns without a checkpoint, and the consumer is not told.       *)
PostMessage(p, s) ==
    /\ pc[p][s] = "post"
    /\ \/ /\ Meet(s, iter[p][s] + 1, last[p][s], "delivered")
          /\ Goto(p, s, "ckpt")
       \/ /\ "sink" \in Faults
          /\ \E f \in {"refused", "delivered"} : Meet(s, iter[p][s] + 1, last[p][s], f)
          /\ Goto(p, s, "next")
    /\ UNCHANGED <<status, stop, lease, tableVars>>
    /\ streamUnchanged /\ positionUnchanged

(* RecordProcessorCheckpointer.Checkpoint: the cached checkpoint first, then  *)
(* the row; ProcessRecords and Shutdown both ignore the error.                *)
Checkpointed(p, s, c) == [status[p][s] EXCEPT !.ckpt = c]
WriteCheckpoint(p, s, c) ==
    /\ SetStatus(p, s, Checkpointed(p, s, c))
    /\ \/ CheckpointSequence(s, Checkpointed(p, s, c))
       \/ "table" \in Faults /\ UNCHANGED <<table, replica>>

ProcessRecordsCheckpoint(p, s) ==
    /\ pc[p][s] = "ckpt"
    /\ WriteCheckpoint(p, s, last[p][s])
    /\ Goto(p, s, "next")
    /\ UNCHANGED <<stop, lease, fate, clock>>
    /\ streamUnchanged /\ positionUnchanged

(* Bug variant: Shutdown(TERMINATE) without its checkpoint (adapter.go:222).  *)
ShardClosedUnmarked(p, s) ==
    /\ pc[p][s] = "next"
    /\ closing[p][s]
    /\ Goto(p, s, "release")
    /\ UNCHANGED <<status, stop, lease, fate, tableVars>>
    /\ streamUnchanged /\ positionUnchanged

(* No NextShardIterator: Shutdown(TERMINATE) checkpoints SHARD_END.           *)
ShardClosed(p, s) ==
    /\ pc[p][s] = "next"
    /\ closing[p][s]
    /\ WriteCheckpoint(p, s, ShardEnd)
    /\ Goto(p, s, "release")
    /\ UNCHANGED <<stop, lease, fate, clock>>
    /\ streamUnchanged /\ positionUnchanged

(* Bug variants: the next iterator points one record too far back ...         *)
NextIteratorBehind(p, s) ==
    /\ pc[p][s] = "next"
    /\ ~closing[p][s]
    /\ iter' = [iter EXCEPT ![p][s] = last[p][s] - 1]
    /\ \/ Goto(p, s, "poll")
       \/ stop[p] /\ Goto(p, s, "release")
    /\ UNCHANGED <<status, stop, last, closing, lease, fate, tableVars>>
    /\ streamUnchanged

(* ... or behind all records put meanwhile.                                   *)
NextIteratorLatest(p, s) ==
    /\ pc[p][s] = "next"
    /\ ~closing[p][s]
    /\ iter' = [iter EXCEPT ![p][s] = head[s]]
    /\ \/ Goto(p, s, "poll")
       \/ stop[p] /\ Goto(p, s, "release")
    /\ UNCHANGED <<status, stop, last, closing, lease, fate, tableVars>>
    /\ streamUnchanged

(* The next round, or Shutdown(REQUESTED) if the stop channel is closed; the  *)
(* timer of one nanosecond beside it may win.                                 *)
NextIterator(p, s) ==
    /\ pc[p][s] = "next"
    /\ ~closing[p][s]
    /\ iter' = [iter EXCEPT ![p][s] = last[p][s]]
    /\ \/ Goto(p, s, "poll")
       \/ stop[p] /\ Goto(p, s, "release")
    /\ UNCHANGED <<status, stop, last, closing, lease, fate, tableVars>>
    /\ streamUnchanged

(* Bug variant: the goroutine returns without releaseLease.                   *)
ReturnWithoutRelease(p, s) ==
    /\ pc[p][s] = "release"
    /\ Goto(p, s, "idle")
    /\ iter' = [iter EXCEPT ![p][s] = 0]
    /\ last' = [last EXCEPT ![p][s] = 0]
    /\ closing' = [closing EXCEPT ![p][s] = FALSE]
    /\ UNCHANGED <<status, stop, lease, fate, tableVars>>
    /\ streamUnchanged

(* The deferred releaseLease, which changes the cached owner and not the row. *)
ReleaseLease(p, s) ==
    /\ pc[p][s] = "release"
    /\ SetStatus(p, s, [status[p][s] EXCEPT !.owner = NoOwner])
    /\ Goto(p, s, "idle")
    /\ iter' = [iter EXCEPT ![p][s] = 0]
    /\ last' = [last EXCEPT ![p][s] = 0]
    /\ closing' = [closing EXCEPT ![p][s] = FALSE]
    /\ UNCHANGED <<stop, lease, fate, tableVars>>
    /\ streamUnchanged

ConsumerStep(p, s) ==
    \/ ParentDone(p, s)       \/ ParentError(p, s)
    \/ FetchCheckpoint(p, s)
    \/ IteratorLatest(p, s)   \/ IteratorAfterCheckpoint(p, s) \/ IteratorError(p, s)
    \/ RenewRead(p, s)        \/ RenewWrite(p, s)              \/ RenewError(p, s)
    \/ GetRecords(p, s)       \/ GetRecordsError(p, s)
    \/ PostMessage(p, s)      \/ ProcessRecordsCheckpoint(p, s)
    \/ ShardClosed(p, s)      \/ NextIterator(p, s)
    \/ ReleaseLease(p, s)

=============================================================================
