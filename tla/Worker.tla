------------------------------- MODULE Worker -------------------------------
(* The adapter processes of one source: each runs the event loop of a KCL     *)
(* Worker (worker.go), which lists the shards, leases at most one per round   *)
(* and starts a consumer for it.  Processes are started by the Deployment of  *)
(* the receive adapter, receive SIGTERM, and end at any time.                 *)
EXTENDS ShardConsumer, FiniteSets

CONSTANTS
    MaxLeases,  \* WithMaxLeasesForWorker
    MaxStarts   \* bound: how often each process is started

ASSUME WorkerAssumption ==
    /\ MaxLeases \in Nat \ {0}
    /\ MaxStarts \in Nat

VARIABLES
    starts,  \* starts[p]: how often p was started
    known,   \* known[p]: the keys of the map Worker.shardStatus
    loop,    \* loop[p]: where the event loop is
    todo,    \* todo[p]: shards the scan of this round has not visited yet
    cand     \* cand[p]: the shard whose lease the loop is asking for

workerVars == <<starts, known, loop, todo, cand>>
vars == <<streamVars, tableVars, consumerVars, workerVars>>

LoopStates == {"off", "sync", "scan", "get", "put", "select"}

TypeOK ==
    /\ StreamTypeOK
    /\ TableTypeOK
    /\ ConsumerTypeOK
    /\ starts \in [Process -> 0..MaxStarts]
    /\ known \in [Process -> SUBSET Shard]
    /\ loop \in [Process -> LoopStates]
    /\ todo \in [Process -> SUBSET Shard]
    /\ cand \in [Process -> Shard \cup {NoShard}]

Init ==
    /\ StreamInit /\ TableInit /\ ConsumerInit
    /\ starts = [p \in Process |-> 0]
    /\ known = [p \in Process |-> {}]
    /\ loop = [p \in Process |-> "off"]
    /\ todo = [p \in Process |-> {}]
    /\ cand = [p \in Process |-> NoShard]

GotoLoop(p, state) == loop' = [loop EXCEPT ![p] = state]

(* A process is up while its event loop runs, or while Worker.Shutdown waits  *)
(* for its consumers.                                                         *)
Up(p) == loop[p] # "off" \/ stop[p]

Owns(p, s) == status[p][s].owner = WorkerID[p]

consumersUnchanged == UNCHANGED <<stop, pc, iter, last, closing, fate>>

-----------------------------------------------------------------------------
(* syncShard and the count of leases *)

(* New shards enter the map with an empty status.                             *)
AddShards(p, new) ==
    status' = [status EXCEPT ![p] =
        [s \in Shard |-> IF s \in new THEN NoRow ELSE @[s]]]

(* Bug variant: the count includes only shards checkpointed before.           *)
HeldWithCheckpoint(p, S) == {s \in S : Owns(p, s) /\ status[p][s].ckpt \in Nat \ {NoCheckpoint}}

(* Leases held, the shards processed to their end not counted.                *)
Held(p, S) == {s \in S : Owns(p, s) /\ status[p][s].ckpt # ShardEnd}

(* A round begins at the start, after a failed round, or when the timer of    *)
(* ShardSyncIntervalMillis fires in the select.                               *)
RoundBegins(p) == loop[p] \in {"sync", "select"}

(* syncShard without error: the map becomes the list of DescribeStream, and   *)
(* the rows of shards no longer listed are removed from the table, unless     *)
(* that fails.  A scan follows while the limit of leases is not reached.      *)
SyncShard(p) ==
    /\ RoundBegins(p)
    /\ AddShards(p, Listed \ known[p])
    /\ known' = [known EXCEPT ![p] = Listed]
    /\ \E removed \in SUBSET (known[p] \ Listed) :
          /\ "table" \in Faults \/ removed = known[p] \ Listed
          /\ RemoveRows(removed)
    /\ IF Cardinality(Held(p, known[p] \cap Listed)) < MaxLeases
       THEN /\ todo' = [todo EXCEPT ![p] = Listed]
            /\ GotoLoop(p, "scan")
       ELSE /\ GotoLoop(p, "select")
            /\ UNCHANGED todo
    /\ UNCHANGED <<starts, cand, lease, clock>>
    /\ streamUnchanged /\ consumersUnchanged

(* getShardIDs fails, perhaps after some pages: the shards of those stay in   *)
(* the map, nothing is removed, and the loop starts over without looking at   *)
(* its signals.                                                               *)
SyncShardError(p) ==
    /\ RoundBegins(p)
    /\ "kinesis" \in Faults
    /\ \E found \in SUBSET (Listed \ known[p]) :
          /\ AddShards(p, found)
          /\ known' = [known EXCEPT ![p] = @ \cup found]
    /\ GotoLoop(p, "sync")
    /\ UNCHANGED <<starts, todo, cand, lease, tableVars>>
    /\ streamUnchanged /\ consumersUnchanged

-----------------------------------------------------------------------------
(* The scan for a shard to lease *)

Visited(p, s) == todo' = [todo EXCEPT ![p] = @ \ {s}]

(* Already owner of the shard.                                                *)
SkipOwned(p, s) ==
    /\ loop[p] = "scan"
    /\ s \in todo[p]
    /\ Owns(p, s)
    /\ Visited(p, s)
    /\ UNCHANGED <<starts, known, loop, cand, status, lease, tableVars>>
    /\ streamUnchanged /\ consumersUnchanged

(* Bug variant: the scan does not pass over shards the process owns.          *)
FetchForAnyLease(p, s) ==
    /\ loop[p] = "scan"
    /\ s \in todo[p]
    /\ Visited(p, s)
    /\ \E row \in Readable(s) :
          LET st == Fetched(row, status[p][s]) IN
          /\ SetStatus(p, s, st)
          /\ IF st.ckpt = ShardEnd
             THEN UNCHANGED <<loop, cand>>
             ELSE /\ GotoLoop(p, "get")
                  /\ cand' = [cand EXCEPT ![p] = s]
    /\ UNCHANGED <<starts, known, lease, tableVars>>
    /\ streamUnchanged /\ consumersUnchanged

(* FetchCheckpoint of a shard of another owner or none.  A shard at SHARD_END *)
(* is passed over; for any other its lease is asked for.                      *)
FetchForLease(p, s) ==
    /\ loop[p] = "scan"
    /\ s \in todo[p]
    /\ ~Owns(p, s)
    /\ Visited(p, s)
    /\ \E row \in Readable(s) :
          LET st == Fetched(row, status[p][s]) IN
          /\ SetStatus(p, s, st)
          /\ IF st.ckpt = ShardEnd
             THEN UNCHANGED <<loop, cand>>
             ELSE /\ GotoLoop(p, "get")
                  /\ cand' = [cand EXCEPT ![p] = s]
    /\ UNCHANGED <<starts, known, lease, tableVars>>
    /\ streamUnchanged /\ consumersUnchanged

FetchForLeaseError(p, s) ==
    /\ loop[p] = "scan"
    /\ s \in todo[p]
    /\ ~Owns(p, s)
    /\ "table" \in Faults
    /\ Visited(p, s)
    /\ UNCHANGED <<starts, known, loop, cand, status, lease, tableVars>>
    /\ streamUnchanged /\ consumersUnchanged

(* GetLease reads the row of the candidate ...                                *)
GetLeaseRead(p) ==
    /\ loop[p] = "get"
    /\ \E row \in Readable(cand[p]) :
          /\ Grantable(row, WorkerID[p])
          /\ SetLease(p, cand[p], LeaseRead(row))
    /\ GotoLoop(p, "put")
    /\ UNCHANGED <<starts, known, todo, cand, status, tableVars>>
    /\ streamUnchanged /\ consumersUnchanged

(* ... and fails, or finds it held by another worker: on to the next shard,   *)
(* whatever FetchCheckpoint left in the cached owner.                         *)
GetLeaseRefused(p) ==
    /\ loop[p] = "get"
    /\ \/ "table" \in Faults
       \/ \E row \in Readable(cand[p]) : ~Grantable(row, WorkerID[p])
    /\ GotoLoop(p, "scan")
    /\ cand' = [cand EXCEPT ![p] = NoShard]
    /\ UNCHANGED <<starts, known, todo, status, lease, tableVars>>
    /\ streamUnchanged /\ consumersUnchanged

(* The conditional write takes the lease: a consumer is started for the       *)
(* shard and the scan of this round ends.                                     *)
GetLeaseWrite(p) ==
    /\ loop[p] = "put"
    /\ LET s == cand[p] IN
          /\ LeaseWriteAllowed(p, s)
          /\ PutRow(s, LeaseRow(p, s))
          /\ SetStatus(p, s, LeaseRow(p, s))
          /\ SetLease(p, s, NoLease)
          /\ Goto(p, s, "parent")
    /\ cand' = [cand EXCEPT ![p] = NoShard]
    /\ todo' = [todo EXCEPT ![p] = {}]
    /\ GotoLoop(p, "select")
    /\ UNCHANGED <<starts, known, stop, iter, last, closing, fate, clock>>
    /\ streamUnchanged

(* The condition fails, or the write does, before or after it took effect.    *)
GetLeaseWriteError(p) ==
    /\ loop[p] = "put"
    /\ LET s == cand[p] IN
          /\ \/ ~LeaseWriteAllowed(p, s) /\ UNCHANGED <<table, replica>>
             \/ "table" \in Faults /\ UNCHANGED <<table, replica>>
             \/ /\ "table" \in Faults
                /\ LeaseWriteAllowed(p, s)
                /\ PutRow(s, LeaseRow(p, s))
          /\ SetLease(p, s, NoLease)
    /\ cand' = [cand EXCEPT ![p] = NoShard]
    /\ GotoLoop(p, "scan")
    /\ UNCHANGED <<starts, known, todo, status, clock>>
    /\ streamUnchanged /\ consumersUnchanged

ScanDone(p) ==
    /\ loop[p] = "scan"
    /\ todo[p] = {}
    /\ GotoLoop(p, "select")
    /\ UNCHANGED <<starts, known, todo, cand, status, lease, tableVars>>
    /\ streamUnchanged /\ consumersUnchanged

-----------------------------------------------------------------------------
(* The select at the end of a round, and the life of the process *)

(* SIGTERM: Worker.Shutdown closes the stop channel, and the loop returns     *)
(* once the consumers did.  A signal that is waiting for the select changes   *)
(* nothing yet, so its arrival is no step of its own.                         *)
Shutdown(p) ==
    /\ loop[p] = "select"
    /\ stop' = [stop EXCEPT ![p] = TRUE]
    /\ GotoLoop(p, "off")
    /\ UNCHANGED <<starts, known, todo, cand, status, lease, tableVars>>
    /\ UNCHANGED <<pc, iter, last, closing, fate>>
    /\ streamUnchanged

(* The adapter starts: Worker.initialize makes an empty map of shards.        *)
StartProcess(p) ==
    /\ ~Up(p)
    /\ starts[p] < MaxStarts
    /\ starts' = [starts EXCEPT ![p] = @ + 1]
    /\ GotoLoop(p, "sync")
    /\ UNCHANGED <<known, todo, cand, status, lease, tableVars>>
    /\ streamUnchanged /\ consumersUnchanged

(* The process ends and everything it cached is lost: killed, crashed, or     *)
(* main returned, which after a signal does not wait for Worker.Shutdown.     *)
EndProcess(p) ==
    /\ Up(p)
    /\ known' = [known EXCEPT ![p] = {}]
    /\ loop' = [loop EXCEPT ![p] = "off"]
    /\ todo' = [todo EXCEPT ![p] = {}]
    /\ cand' = [cand EXCEPT ![p] = NoShard]
    /\ status' = [status EXCEPT ![p] = [s \in Shard |-> NoRow]]
    /\ stop' = [stop EXCEPT ![p] = FALSE]
    /\ pc' = [pc EXCEPT ![p] = [s \in Shard |-> "idle"]]
    /\ iter' = [iter EXCEPT ![p] = [s \in Shard |-> 0]]
    /\ last' = [last EXCEPT ![p] = [s \in Shard |-> 0]]
    /\ closing' = [closing EXCEPT ![p] = [s \in Shard |-> FALSE]]
    /\ lease' = [lease EXCEPT ![p] = [s \in Shard |-> NoLease]]
    /\ UNCHANGED <<starts, fate, tableVars>>
    /\ streamUnchanged

-----------------------------------------------------------------------------
LoopStep(p) ==
    \/ SyncShard(p)
    \/ SyncShardError(p)
    \/ \E s \in Shard :
          SkipOwned(p, s) \/ FetchForLease(p, s) \/ FetchForLeaseError(p, s)
    \/ GetLeaseRead(p)
    \/ GetLeaseRefused(p)
    \/ GetLeaseWrite(p)
    \/ GetLeaseWriteError(p)
    \/ ScanDone(p)

LifeStep(p) == StartProcess(p) \/ Shutdown(p) \/ EndProcess(p)

ConsumersStep(p) == (\E s \in Shard : ConsumerStep(p, s)) /\ UNCHANGED workerVars

ServiceStep ==
    /\ \/ StreamNext /\ UNCHANGED tableVars
       \/ Tick /\ streamUnchanged
       \/ (\E s \in Shard : Replicate(s)) /\ streamUnchanged
    /\ UNCHANGED <<consumerVars, workerVars>>

Next ==
    \/ \E p \in Process : LoopStep(p) \/ ConsumersStep(p) \/ LifeStep(p)
    \/ ServiceStep

Spec == Init /\ [][Next]_vars

-----------------------------------------------------------------------------
(* Properties *)

(* What a checkpoint promises: every record up to it, or every record of the  *)
(* closed shard for SHARD_END, was offered to the sink or passed over by an   *)
(* iterator of type LATEST.                                                   *)
SeenUpTo(s, n) == \A m \in 1..n : fate[s][m] # "unseen"
Covered(s, c) ==
    IF c = ShardEnd
    THEN phase[s] \in {"closed", "gone"} /\ SeenUpTo(s, head[s])
    ELSE c <= head[s] /\ SeenUpTo(s, c)

(* NoSilentLoss: however many processes share the table, whatever calls fail  *)
(* and whenever a process ends, no row of the lease table is ahead of what    *)
(* was offered: a restart from it (getShardIterator) misses no record that    *)
(* the adapter did not at least try to post.                                  *)
NoSilentLoss == \A s \in Shard : Covered(s, table[s].ckpt)

(* OneConsumerPerShard: within a process the event loop never asks for the    *)
(* lease of a shard whose consumer has not returned, so no shardStatus and no *)
(* record processor is shared by two goroutines (worker.go:268-306).          *)
OneConsumerPerShard ==
    \A p \in Process, s \in Shard :
        pc[p][s] # "idle" => Owns(p, s) /\ cand[p] # s

(* WithinLeaseLimit: a process consumes at most MaxLeases of the shards it    *)
(* lists, those processed to their end not counted (worker.go:258-267).       *)
WithinLeaseLimit ==
    \A p \in Process :
        Cardinality({s \in known[p] : pc[p][s] # "idle" /\ status[p][s].ckpt # ShardEnd})
            <= MaxLeases

(* OrphanedOnlyByGetLease: a shard that the loop passes over as "already      *)
(* owner of the shard" (worker.go:269) although it has no consumer and is not *)
(* at its end comes about in one way only, a GetLease that fails after        *)
(* FetchCheckpoint put the shared worker id into the cache.  No return of a   *)
(* consumer, no reshard and no restart leaves one behind, and while no        *)
(* request of the table fails it takes another process that was faster.       *)
Orphaned(p, s) ==
    Owns(p, s) /\ cand[p] # s /\ pc[p][s] = "idle" /\ status[p][s].ckpt # ShardEnd
LosesRace(p, s) == loop[p] = "put" /\ ~LeaseWriteAllowed(p, s)
OrphanedOnlyByGetLease ==
    [][\A p \in Process, s \in Shard :
          ~Orphaned(p, s) /\ Orphaned(p, s)' =>
              cand[p] = s /\ ("table" \in Faults \/ LosesRace(p, s))]_vars

(* The checkpoints of a shard in the order they are reached.                  *)
NotBehind(c, d) == d = ShardEnd \/ (c # ShardEnd /\ c <= d)

(* CheckpointNeverGoesBack: no write to the lease table, by a checkpoint or   *)
(* by GetLease with the cached checkpoint, moves a listed shard back.         *)
CheckpointNeverGoesBack ==
    [][\A s \in Shard :
          phase'[s] # "gone" => NotBehind(table[s].ckpt, table'[s].ckpt)]_vars

(* GoesBackOnlyWhenOutdated: with overlapping processes and lagging reads     *)
(* rows do go back, but only to what a process cached before someone else     *)
(* moved the row on or what a replica that lags told it: whoever has the      *)
(* checkpoint of the row in its cache does not take it back (Checkpoint, and  *)
(* GetLease with the cached checkpoint).                                      *)
Writes(p, s) == pc[p][s] # "idle" \/ cand[p] = s
GoesBackOnlyWhenOutdated ==
    [][\A s \in Shard :
          phase'[s] # "gone" /\ ~NotBehind(table[s].ckpt, table'[s].ckpt) =>
              \E p \in Process :
                  Writes(p, s) /\ ~NotBehind(table[s].ckpt, status[p][s].ckpt)]_vars

(* PostsOnlyBeyondCheckpoint: a batch about to be posted holds only records   *)
(* beyond the persisted checkpoint, also after a restart.                     *)
PostsOnlyBeyondCheckpoint ==
    \A p \in Process, s \in Shard :
        pc[p][s] = "post" => table[s].ckpt # ShardEnd /\ table[s].ckpt <= iter[p][s]

(* PostsOnlyBeyondCached: however processes overlap and reads lag, a batch    *)
(* about to be posted holds no record up to the checkpoint that the process   *)
(* itself has read or written for the shard.                                  *)
PostsOnlyBeyondCached ==
    \A p \in Process, s \in Shard :
        pc[p][s] = "post" => status[p][s].ckpt # ShardEnd /\ status[p][s].ckpt <= iter[p][s]

-----------------------------------------------------------------------------
(* The promise of Delivery.tla                                                *)

(* Whether one process at a time uses the table, and reads what it wrote.     *)
Alone == (\A p, q \in Process : p = q) /\ ~StaleReads

RecordsOf(s, fates) == {n \in 1..MaxHead : fate[s][n] \in fates}

Promise == INSTANCE Delivery WITH
    None      <- NoCheckpoint,
    End       <- ShardEnd,
    length    <- head,
    closed    <- {s \in Shard : phase[s] \in {"closed", "gone"}},
    expired   <- {s \in Shard : phase[s] = "gone"},
    offered   <- [s \in Shard |-> RecordsOf(s, {"refused", "delivered"})],
    passed    <- [s \in Shard |-> RecordsOf(s, {"skipped"})],
    committed <- [s \in Shard |-> table[s].ckpt]

(* DeliversInOrder: event loops, consumers, leases and checkpoints together   *)
(* do nothing but offer the records of each shard in order and commit what    *)
(* was offered; and if no processes overlap and reads do not lag, nothing     *)
(* that is committed is offered again or passed over, and no commit is undone *)
(* (getShardIterator, ProcessRecords, Shutdown, GetLease).                    *)
DeliversInOrder == Promise!DSpec

-----------------------------------------------------------------------------
(* The inductive invariants behind NoSilentLoss and OneConsumerPerShard       *)

(* The loop's own bookkeeping: a candidate only while a lease is asked for,   *)
(* and only shards of the map are scanned, from a new list in every round.    *)
LoopInv ==
    \A p \in Process :
        /\ loop[p] \in {"get", "put"} <=> cand[p] # NoShard
        /\ loop[p] \in {"off", "sync", "select"} => todo[p] = {}
        /\ todo[p] \subseteq known[p]
        /\ cand[p] \in known[p] \cup {NoShard}
        /\ \A s \in known[p] : phase[s] # "future"

(* Positions and checkpoints a process holds are as well covered as those of  *)
(* the table, so whatever it writes next is covered too.                      *)
TableCovered == \A s \in Shard : Covered(s, table[s].ckpt) /\ Covered(s, replica[s].ckpt)
CacheCovered == \A p \in Process, s \in Shard : Covered(s, status[p][s].ckpt)
Holding == {"post"} \cup Offered
PositionCovered(p, s) ==
    /\ pc[p][s] \in Reading => Covered(s, iter[p][s])
    /\ pc[p][s] \in Offered => Covered(s, last[p][s])
    /\ pc[p][s] \in Holding => last[p][s] <= head[s]
    /\ pc[p][s] \in Holding /\ closing[p][s] =>
          phase[s] \in {"closed", "gone"} /\ last[p][s] = head[s]
LossInv ==
    /\ TableCovered
    /\ CacheCovered
    /\ \A p \in Process, s \in Shard : PositionCovered(p, s)

(* With one worker id for all, a row with a checkpoint carries that id; so    *)
(* FetchCheckpoint cannot make a consumer's shard look like another worker's. *)
(* A shard being consumed leaves the map only when it is gone.                *)
OwnRow(p, row) == row.ckpt # NoCheckpoint => row.owner = WorkerID[p]
ConsumerInv ==
    \A p \in Process, s \in Shard :
        /\ OwnRow(p, table[s]) /\ OwnRow(p, replica[s])
        /\ pc[p][s] # "idle" =>
              Owns(p, s) /\ cand[p] # s /\ (s \in known[p] \/ phase[s] = "gone")

-----------------------------------------------------------------------------
(* What comments of the code say, and the code does not keep *)

(* ShardEndMeansProcessed: SHARD_END is documented as "We've completely       *)
(* processed all records in this shard." (checkpointer.go:52).                *)
ShardEndMeansProcessed ==
    \A s \in Shard :
        table[s].ckpt = ShardEnd =>
            \A n \in 1..head[s] : fate[s][n] \in {"delivered", "skipped"}

(* LeaseIsALock: GetLease "attempts to gain a lock on the given shard"        *)
(* (checkpointer.go:106): two processes do not consume a shard at a time, at  *)
(* least while their leases have not run out.                                 *)
Leaseholder(p, s) ==
    pc[p][s] \in Reading \cup Offered /\ Owns(p, s) /\ clock <= status[p][s].timeout
LeaseIsALock ==
    \A s \in Shard, p, q \in Process :
        Leaseholder(p, s) /\ Leaseholder(q, s) => p = q

(* ParentsFirst: a consumer remains "blocked until the all parent shards have *)
(* been completed" (shard-consumer.go:47): a batch of a child is posted only  *)
(* when no record of a parent waits to be offered.                            *)
ParentsFirst ==
    \A p \in Process, s \in Shard :
        pc[p][s] = "post" =>
            \A q \in Parents[s] : phase[q] = "gone" \/ SeenUpTo(q, head[q])

(* AllParentsAwaited: the same comment for the parents that are known to be   *)
(* unfinished, because the table has a checkpoint of theirs.                  *)
AllParentsAwaited ==
    [][\A p \in Process, s \in Shard :
          pc[p][s] = "parent" /\ pc'[p][s] = "fetch" =>
              \A q \in Parents[s] : table[q].ckpt \in {NoCheckpoint, ShardEnd}]_vars

(* OwnedHasConsumer: "already owner of the shard" (worker.go:269) is why the  *)
(* loop passes over one, so it has a consumer unless it is at its end.        *)
OwnedHasConsumer == \A p \in Process, s \in Shard : ~Orphaned(p, s)

-----------------------------------------------------------------------------
(* Liveness *)

(* Goroutines are scheduled and their calls return; Kinesis does not answer   *)
(* with empty batches for ever while records wait, nor keep back the end of a *)
(* drained shard for ever; the Deployment starts a process that ended.        *)
GetRecordsProgress(p, s) ==
    GetRecords(p, s) /\ (last'[p][s] > iter[p][s] \/ closing'[p][s])

Fairness ==
    \A p \in Process :
        /\ WF_vars(LoopStep(p))
        /\ WF_vars(StartProcess(p))
        /\ \A s \in Shard :
              /\ WF_vars(ConsumerStep(p, s) /\ UNCHANGED workerVars)
              /\ SF_vars(GetRecordsProgress(p, s) /\ UNCHANGED workerVars)

FairSpec == Spec /\ Fairness

(* A process stays up from some moment on, and no shard expires meanwhile.    *)
StaysUp == \E p \in Process : <>[](loop[p] # "off")
NothingExpires == [](\A s \in Shard : phase[s] # "gone")

(* EveryRecordOffered: while a process stays up, every record put into a      *)
(* shard is offered to the sink in the end, or was skipped at the start.      *)
EveryRecordOffered ==
    StaysUp /\ NothingExpires =>
        \A s \in Shard, n \in 1..MaxHead : n <= head[s] ~> fate[s][n] # "unseen"

(* ClosedShardFinishes: a closed shard is checkpointed at SHARD_END in the    *)
(* end, which is what its children wait for.                                  *)
ClosedShardFinishes ==
    StaysUp /\ NothingExpires =>
        \A s \in Shard : phase[s] = "closed" ~> table[s].ckpt = ShardEnd

(* BlockedChildStarts: the consumer of a child does not wait for ever for its *)
(* parent while the parent is there to be read (shard-consumer.go:47) ...     *)
BlockedChildStarts ==
    StaysUp /\ NothingExpires =>
        \A p \in Process, s \in Shard : pc[p][s] = "parent" ~> pc[p][s] # "parent"

(* ... nor for a parent that is gone: "If parent shard has been deleted by    *)
(* Kinesis system already, just ignore the error." (shard-consumer.go:132).   *)
GoneParentIgnored ==
    StaysUp =>
        \A p \in Process, q \in Shard : \A s \in {c \in Shard : ParentShardId[c] = q} :
            pc[p][s] = "parent" /\ phase[q] = "gone" ~> pc[p][s] # "parent"

=============================================================================
