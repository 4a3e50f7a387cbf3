-------------------------- MODULE CheckpointProofs --------------------------
(* Proofs about the checkpoints and leases of Worker.tla. Worker implements   *)
(* Delivery.tla; the part of it that speaks of one process with up-to-date    *)
(* reads rests on an invariant of such a process, which comes first. The rest *)
(* is for any number of processes with one worker id, lagging reads, failing  *)
(* calls and restarts: a process never posts what it knows to be done, a row  *)
(* goes back only through a process whose cache is outdated, a lease without  *)
(* a consumer is left behind only by a GetLease that failed, and the limit on *)
(* leases is kept.                                                            *)
EXTENDS WorkerProofs, FiniteSetTheorems

(* The processes of a source do not overlap; restarts are not excluded.       *)
OneProcess == \A p, q \in Process : p = q
(* Reads of the lease table are consistent.                                   *)
FreshReads == StaleReads = FALSE

(* One process has one worker id.                                             *)
LEMMA OneProcessSharesItsID == OneProcess => SharedWorkerID
BY DEF OneProcess, SharedWorkerID

-----------------------------------------------------------------------------
(* The order of checkpoints *)

(* No checkpoint is behind itself, and none is behind the missing one.        *)
LEMMA NotBehindItself == \A c \in Checkpoint : NotBehind(c, c)
BY DEF NotBehind, Checkpoint, ShardEnd

(* No checkpoint is behind having none.                                       *)
LEMMA NotBehindNone == \A c \in Checkpoint : NotBehind(NoCheckpoint, c)
BY DEF NotBehind, Checkpoint, ShardEnd, NoCheckpoint

-----------------------------------------------------------------------------
(* The position of a consumer, for any number of processes, with stale reads  *)
(* and failing calls *)

(* While a consumer works its cached checkpoint is not beyond its position.   *)
NotBeyond(c, n) == c # ShardEnd /\ c <= n

KnownAt(p, s) ==
    /\ pc[p][s] \in Reading => NotBeyond(status[p][s].ckpt, iter[p][s])
    /\ pc[p][s] \in Offered => NotBeyond(status[p][s].ckpt, last[p][s])
    /\ pc[p][s] = "post" => iter[p][s] <= last[p][s]

KnownInv == \A p \in Process, s \in Shard : KnownAt(p, s)

(* A step of a consumer keeps that, and takes its row back only to what is in *)
(* the cache, which is then behind the row.                                   *)
LEMMA OwnKnownStep ==
    ASSUME TypeOK, NEW p \in Process, NEW s \in Shard, ConsumerStep(p, s), KnownAt(p, s)
    PROVE  /\ KnownAt(p, s)'
           /\ NotBehind(table[s].ckpt, status[p][s].ckpt) => NotBehind(table[s].ckpt, table'[s].ckpt)
PROOF
  <1>. USE DEF streamUnchanged, positionUnchanged, streamVars, tableVars
  <1>. DEFINE row == table[s].ckpt
              mine == status[p][s].ckpt
  <1>a. /\ pc[p][s] \in Reading => NotBeyond(mine, iter[p][s])
        /\ pc[p][s] \in Offered => NotBeyond(mine, last[p][s])
        /\ pc[p][s] = "post" => iter[p][s] <= last[p][s]
    BY DEF KnownAt
  <1>b. \A state : Goto(p, s, state) => pc'[p][s] = state
    BY DEF Goto, TypeOK, ConsumerTypeOK
  <1>c. \A st : SetStatus(p, s, st) => status'[p][s] = st
    BY DEF SetStatus, TypeOK, ConsumerTypeOK
  <1>d. \A r : PutRow(s, r) => table'[s] = r
    BY DEF PutRow, TypeOK, TableTypeOK
  <1>e. /\ \A n : iter' = [iter EXCEPT ![p][s] = n] => iter'[p][s] = n
        /\ \A n : last' = [last EXCEPT ![p][s] = n] => last'[p][s] = n
    BY DEF TypeOK, ConsumerTypeOK
  <1>f. row \in Checkpoint /\ mine \in Checkpoint /\ iter[p][s] \in Nat /\ last[p][s] \in Nat
    BY CkptType
  <1>i. NotBehind(row, row)
    BY <1>f, NotBehindItself
  <1>1. CASE ParentDone(p, s) \/ ParentError(p, s) \/ IteratorError(p, s) \/ GetRecordsError(p, s)
    BY <1>1, <1>a, <1>b, <1>i DEF ParentDone, ParentError, IteratorError, GetRecordsError,
       KnownAt, Reading, Offered
  <1>2. CASE FetchCheckpoint(p, s)
    <2>1. table' = table /\ pc'[p][s] \in {"iter", "release"}
      BY <1>2, <1>b DEF FetchCheckpoint
    <2>. QED
      BY <1>i, <2>1 DEF KnownAt, Reading, Offered
  <1>3. CASE IteratorLatest(p, s)
    <2>1. iter'[p][s] = head[s] /\ pc'[p][s] = "poll" /\ table' = table /\ status' = status
          /\ mine = NoCheckpoint
      BY <1>3, <1>b, <1>e DEF IteratorLatest
    <2>2. NotBeyond(NoCheckpoint, head[s])
      BY MaxHeadAssumption DEF NotBeyond, NoCheckpoint, ShardEnd, TypeOK, StreamTypeOK
    <2>. QED
      BY <1>i, <2>1, <2>2 DEF KnownAt, Reading, Offered
  <1>4. CASE IteratorAfterCheckpoint(p, s)
    <2>1. iter'[p][s] = mine /\ pc'[p][s] = "poll" /\ table' = table /\ status' = status
          /\ mine # ShardEnd
      BY <1>4, <1>b, <1>e DEF IteratorAfterCheckpoint
    <2>2. NotBeyond(mine, mine)
      BY <1>f, <2>1 DEF NotBeyond, ShardEnd, Checkpoint
    <2>. QED
      BY <1>i, <2>1, <2>2 DEF KnownAt, Reading, Offered
  <1>5. CASE RenewRead(p, s)
    BY <1>5, <1>a, <1>b, <1>i DEF RenewRead, KnownAt, Reading, Offered
  <1>6. CASE RenewWrite(p, s) \/ RenewError(p, s)
    <2>1. LeaseRow(p, s).ckpt = mine
      BY DEF LeaseRow
    <2>2. /\ pc[p][s] = "renew" /\ pc'[p][s] \in {"read", "release"} /\ iter' = iter
          /\ table'[s] = table[s] \/ table'[s] = LeaseRow(p, s)
          /\ status'[p][s] = status[p][s] \/ status'[p][s] = LeaseRow(p, s)
      BY <1>6, <1>b, <1>c, <1>d DEF RenewWrite, RenewError
    <2>. QED
      BY <1>a, <1>i, <2>1, <2>2 DEF KnownAt, Reading, Offered
  <1>7. CASE GetRecords(p, s)
    <2>1. PICK to \in iter[p][s]..head[s] :
             /\ last' = [last EXCEPT ![p][s] = to]
             /\ Goto(p, s, IF to = iter[p][s] THEN "next" ELSE "post")
      BY <1>7 DEF GetRecords
    <2>a. head[s] \in Nat
      BY MaxHeadAssumption DEF TypeOK, StreamTypeOK
    <2>b. iter[p][s] <= to
      BY <1>f, <2>1, <2>a
    <2>2. /\ last'[p][s] = to /\ iter'[p][s] = iter[p][s] /\ pc'[p][s] \in {"next", "post"}
          /\ pc'[p][s] = "next" => to = iter[p][s]
      BY <1>7, <2>1, <1>b, <1>e DEF GetRecords
    <2>3. table' = table /\ status' = status /\ pc[p][s] \in {"read", "poll"}
      BY <1>7 DEF GetRecords
    <2>. QED
      BY <1>a, <1>i, <2>b, <2>2, <2>3 DEF KnownAt, Reading, Offered
  <1>8. CASE PostMessage(p, s)
    <2>1. /\ pc[p][s] = "post" /\ pc'[p][s] \in {"ckpt", "next"}
          /\ table' = table /\ status' = status /\ last' = last
      BY <1>8, <1>b DEF PostMessage
    <2>2. NotBeyond(mine, last[p][s])
      BY <1>a, <1>f, <2>1 DEF NotBeyond, Reading, Checkpoint, ShardEnd
    <2>. QED
      BY <1>i, <2>1, <2>2 DEF KnownAt, Reading, Offered
  <1>j. ASSUME NEW c, WriteCheckpoint(p, s, c)
        PROVE  status'[p][s].ckpt = c /\ (table'[s].ckpt = c \/ table'[s] = table[s])
    <2>1. status[p][s] \in Row
      BY DEF TypeOK, ConsumerTypeOK
    <2>2. Checkpointed(p, s, c).ckpt = c
      BY <2>1 DEF Checkpointed, Row
    <2>. QED
      BY <1>j, <1>c, <1>d, <2>2 DEF WriteCheckpoint, CheckpointSequence
  <1>9. CASE ProcessRecordsCheckpoint(p, s)
    <2>1. /\ pc[p][s] = "ckpt" /\ pc'[p][s] = "next" /\ last' = last
          /\ status'[p][s].ckpt = last[p][s]
          /\ table'[s].ckpt = last[p][s] \/ table'[s] = table[s]
      BY <1>9, <1>b, <1>j DEF ProcessRecordsCheckpoint
    <2>2. /\ NotBeyond(last[p][s], last[p][s])
          /\ NotBehind(row, mine) => NotBehind(row, last[p][s])
      BY <1>a, <1>f, <2>1 DEF NotBeyond, NotBehind, Offered, ShardEnd, Checkpoint
    <2>. QED
      BY <1>i, <2>1, <2>2 DEF KnownAt, Reading, Offered
  <1>10. CASE ShardClosed(p, s)
    <2>1. /\ pc[p][s] = "next" /\ pc'[p][s] = "release"
          /\ table'[s].ckpt = ShardEnd \/ table'[s] = table[s]
      BY <1>10, <1>b, <1>j DEF ShardClosed
    <2>. QED
      BY <1>i, <2>1 DEF KnownAt, NotBehind, Reading, Offered
  <1>11. CASE NextIterator(p, s)
    <2>1. /\ iter'[p][s] = last[p][s] /\ pc'[p][s] \in {"poll", "release"}
          /\ table' = table /\ status' = status /\ pc[p][s] = "next"
      BY <1>11, <1>b, <1>e DEF NextIterator
    <2>. QED
      BY <1>a, <1>i, <2>1 DEF KnownAt, Reading, Offered
  <1>12. CASE ReleaseLease(p, s)
    <2>1. table' = table /\ pc'[p][s] = "idle"
      BY <1>12, <1>b DEF ReleaseLease
    <2>. QED
      BY <1>i, <2>1 DEF KnownAt, Reading, Offered
  <1>. QED
    BY <1>1, <1>2, <1>3, <1>4, <1>5, <1>6, <1>7, <1>8, <1>9, <1>10, <1>11, <1>12 DEF ConsumerStep

-----------------------------------------------------------------------------
(* One process with up-to-date reads: while it works on a shard its cached    *)
(* checkpoint is not behind the row.                                          *)

ProgressAt(p, s) ==
    /\ KnownAt(p, s)
    /\ pc[p][s] # "idle" \/ cand[p] = s => NotBehind(table[s].ckpt, status[p][s].ckpt)

ProgressInv == \A p \in Process, s \in Shard : ProgressAt(p, s)

(* What a step of a consumer does to its own row, cache and position.         *)
LEMMA OwnProgressStep ==
    ASSUME FreshReads, TypeOK, ProgressInv,
           NEW p \in Process, NEW s \in Shard, ConsumerStep(p, s), cand' = cand, cand[p] # s,
           pc[p][s] # "idle"
    PROVE  /\ ProgressAt(p, s)'
           /\ NotBehind(table[s].ckpt, table'[s].ckpt)
           /\ IteratorLatest(p, s) => table[s].ckpt = NoCheckpoint
PROOF
  <1>. USE DEF streamUnchanged, positionUnchanged, streamVars, tableVars
  <1>. DEFINE row == table[s].ckpt
              mine == status[p][s].ckpt
  <1>a. KnownAt(p, s) /\ NotBehind(row, mine)
    BY DEF ProgressInv, ProgressAt
  <1>b. KnownAt(p, s)' /\ NotBehind(row, table'[s].ckpt)
    BY <1>a, OwnKnownStep
  <1>c. \A st : SetStatus(p, s, st) => status'[p][s] = st
    BY DEF SetStatus, TypeOK, ConsumerTypeOK
  <1>d. \A r : PutRow(s, r) => table'[s] = r
    BY DEF PutRow, TypeOK, TableTypeOK
  <1>f. row \in Checkpoint /\ mine \in Checkpoint
    BY CkptType
  <1>g. Readable(s) = {table[s]}
    BY DEF FreshReads, Readable
  <1>1. IteratorLatest(p, s) => row = NoCheckpoint
    BY <1>a, <1>f DEF IteratorLatest, NotBehind, NoCheckpoint, ShardEnd, Checkpoint
  <1>2. pc'[p][s] # "idle" => NotBehind(table'[s].ckpt, status'[p][s].ckpt)
    <2>1. CASE FetchCheckpoint(p, s)
      <3>1. table' = table
        BY <2>1 DEF FetchCheckpoint
      <3>2. status'[p][s] = status[p][s] \/ status'[p][s] = Fetched(table[s], status[p][s])
        BY <2>1, <1>c, <1>g DEF FetchCheckpoint
      <3>3. NotBehind(row, Fetched(table[s], status[p][s]).ckpt)
        BY <1>a, <1>f, NotBehindItself DEF Fetched
      <3>. QED
        BY <1>a, <3>1, <3>2, <3>3
    <2>2. CASE RenewWrite(p, s) \/ RenewError(p, s)
      <3>1. LeaseRow(p, s).ckpt = mine
        BY DEF LeaseRow
      <3>2. /\ table'[s] = table[s] \/ table'[s] = LeaseRow(p, s)
            /\ status'[p][s] = status[p][s] \/ status'[p][s] = LeaseRow(p, s)
        BY <2>2, <1>c, <1>d DEF RenewWrite, RenewError
      <3>. QED
        BY <1>a, <1>f, <3>1, <3>2, NotBehindItself
    <2>3. ASSUME NEW c \in Checkpoint, WriteCheckpoint(p, s, c), NotBehind(row, c)
          PROVE  NotBehind(table'[s].ckpt, status'[p][s].ckpt)
      <3>1. status[p][s] \in Row
        BY DEF TypeOK, ConsumerTypeOK
      <3>2. Checkpointed(p, s, c).ckpt = c
        BY <3>1 DEF Checkpointed, Row
      <3>3. status'[p][s].ckpt = c /\ (table'[s].ckpt = c \/ table'[s] = table[s])
        BY <2>3, <1>c, <1>d, <3>2 DEF WriteCheckpoint, CheckpointSequence
      <3>. QED
        BY <2>3, <3>3, NotBehindItself
    <2>4. CASE ProcessRecordsCheckpoint(p, s)
      <3>1. pc[p][s] = "ckpt" /\ last[p][s] \in Nat
        BY <2>4, CkptType DEF ProcessRecordsCheckpoint
      <3>2. last[p][s] \in Checkpoint /\ NotBehind(row, last[p][s])
        BY <1>a, <1>f, <3>1 DEF KnownAt, NotBeyond, NotBehind, Offered, ShardEnd, Checkpoint
      <3>. QED
        BY <2>3, <2>4, <3>2 DEF ProcessRecordsCheckpoint
    <2>5. CASE ShardClosed(p, s)
      BY <2>3, <2>5 DEF ShardClosed, NotBehind, Checkpoint
    <2>6. CASE ReleaseLease(p, s)
      BY <2>6 DEF ReleaseLease, Goto, TypeOK, ConsumerTypeOK
    <2>7. CASE UNCHANGED <<table, status>>
      BY <1>a, <2>7
    <2>. QED
      BY <2>1, <2>2, <2>4, <2>5, <2>6, <2>7 DEF ConsumerStep, ParentDone, ParentError,
         IteratorLatest, IteratorAfterCheckpoint, IteratorError, RenewRead, GetRecords,
         GetRecordsError, PostMessage, NextIterator
  <1>. QED
    BY <1>b, <1>1, <1>2 DEF ProgressAt

(* Of the only process, the consumer that moves is the only one whose         *)
(* progress, or whose row, can change.                                        *)
LEMMA ProgressConsumersStep ==
    ASSUME OneProcess, FreshReads, TypeOK, TypeOK', ConsumerInv, ProgressInv,
           NEW p \in Process, ConsumersStep(p)
    PROVE  /\ ProgressInv'
           /\ \A s \in Shard : NotBehind(table[s].ckpt, table'[s].ckpt)
           /\ \A s \in Shard, n \in 1..MaxHead :
                 fate[s][n] = "unseen" /\ fate'[s][n] = "skipped" => table[s].ckpt = NoCheckpoint
PROOF
  <1>1. PICK s \in Shard : ConsumerStep(p, s)
    BY DEF ConsumersStep
  <1>2. cand' = cand
    BY DEF ConsumersStep, workerVars
  <1>3. pc[p][s] # "idle" /\ cand[p] # s
    BY <1>1, OwnerStep DEF ConsumerInv
  <1>4. ASSUME NEW q \in Process, NEW t \in Shard PROVE ProgressAt(q, t)'
    <2>1. q = p
      BY DEF OneProcess
    <2>2. CASE t = s
      BY <1>1, <1>2, <1>3, <2>1, <2>2, OwnProgressStep
    <2>3. CASE t # s
      <3>1. /\ UNCHANGED <<status[q][t], pc[q][t], iter[q][t], last[q][t]>>
            /\ table'[t] = table[t]
        BY <1>1, <2>1, <2>3, OthersUntouched
      <3>. QED
        BY <1>2, <3>1 DEF ProgressInv, ProgressAt, KnownAt
    <2>. QED
      BY <2>2, <2>3
  <1>5. ASSUME NEW t \in Shard PROVE NotBehind(table[t].ckpt, table'[t].ckpt)
    <2>1. CASE t = s
      BY <1>1, <1>2, <1>3, <2>1, OwnProgressStep
    <2>2. CASE t # s
      BY <1>1, <2>2, OthersUntouched, CkptType, NotBehindItself
    <2>. QED
      BY <2>1, <2>2
  <1>6. ASSUME NEW t \in Shard, NEW n \in 1..MaxHead, fate[t][n] = "unseen", fate'[t][n] = "skipped"
        PROVE  table[t].ckpt = NoCheckpoint
    <2>0. \A from, to, f : Meet(s, from, to, f) => fate'[t][n] = fate[t][n] \/ (t = s /\ fate'[t][n] = f)
      BY DEF Meet, TypeOK, ConsumerTypeOK
    <2>1. CASE IteratorLatest(p, s)
      <3>1. t = s
        BY <1>6, <2>0, <2>1 DEF IteratorLatest
      <3>. QED
        BY <1>1, <1>2, <1>3, <2>1, <3>1, OwnProgressStep
    <2>2. CASE PostMessage(p, s)
      BY <1>6, <2>0, <2>2 DEF PostMessage
    <2>3. CASE UNCHANGED fate
      BY <1>6, <2>3
    <2>. QED
      BY <1>1, <2>1, <2>2, <2>3 DEF ConsumerStep, ParentDone, ParentError, FetchCheckpoint,
         IteratorAfterCheckpoint, IteratorError, RenewRead, RenewWrite, RenewError,
         GetRecords, GetRecordsError, ProcessRecordsCheckpoint, ShardClosed,
         NextIterator, ReleaseLease
  <1>. QED
    BY <1>4, <1>5, <1>6 DEF ProgressInv

(* Nothing changes for a shard whose row, cache and position stay.            *)
LEMMA ProgressStays ==
    ASSUME ProgressInv, NEW p \in Process, NEW t \in Shard,
           UNCHANGED <<pc[p][t], iter[p][t], last[p][t], table[t], status[p][t]>>,
           cand'[p] = t => cand[p] = t
    PROVE  ProgressAt(p, t)'
BY DEF ProgressInv, ProgressAt, KnownAt

(* The event loop takes the checkpoint over from the row before it writes     *)
(* one, and removes the rows of shards that are gone.                         *)
LEMMA ProgressLoopStep ==
    ASSUME OneProcess, FreshReads, TypeOK, LoopInv, ConsumerInv, ProgressInv,
           NEW p \in Process, LoopStep(p)
    PROVE  /\ ProgressInv'
           /\ \A s \in Shard : phase'[s] # "gone" => NotBehind(table[s].ckpt, table'[s].ckpt)
PROOF
  <1>. USE DEF streamUnchanged, consumersUnchanged, streamVars, tableVars
  <1>1. UNCHANGED <<phase, iter, last>>
    BY LoopFrame
  <1>2. \A t \in Shard : NotBehind(table[t].ckpt, table[t].ckpt)
    BY CkptType, NotBehindItself
  <1>3. SUFFICES ASSUME NEW t \in Shard
                 PROVE  /\ ProgressAt(p, t)'
                        /\ phase'[t] # "gone" => NotBehind(table[t].ckpt, table'[t].ckpt)
    BY DEF OneProcess, ProgressInv
  <1>4. /\ pc[p][t] # "idle" =>
              Owns(p, t) /\ cand[p] # t /\ (t \in known[p] \/ phase[t] = "gone")
        /\ pc[p][t] # "idle" \/ cand[p] = t => NotBehind(table[t].ckpt, status[p][t].ckpt)
    BY DEF ConsumerInv, ProgressInv, ProgressAt, KnownAt
  <1>5. NoShard \notin Shard
    BY LineageAssumption
  <1>6. ASSUME NEW new, AddShards(p, new), t \notin new PROVE status'[p][t] = status[p][t]
    BY <1>6 DEF AddShards, TypeOK, ConsumerTypeOK
  <1>7. CASE SyncShard(p)
    <2>1. PICK removed \in SUBSET (known[p] \ Listed) : RemoveRows(removed)
      BY <1>7 DEF SyncShard
    <2>2. AddShards(p, Listed \ known[p]) /\ UNCHANGED <<pc, cand>> /\ cand[p] = NoShard
      BY <1>7 DEF SyncShard, RoundBegins, LoopInv
    <2>3. table'[t] = table[t] \/ (t \in known[p] \ Listed /\ table'[t] = NoRow)
      BY <2>1 DEF RemoveRows
    <2>4. t \in known[p] \ Listed => phase'[t] = "gone"
      BY <1>1 DEF LoopInv, Listed, TypeOK, StreamTypeOK, Phases
    <2>5. CASE pc[p][t] = "idle"
      BY <1>2, <1>5, <2>2, <2>3, <2>4, <2>5 DEF ProgressAt, KnownAt, Reading, Offered
    <2>6. CASE pc[p][t] # "idle"
      <3>1. status'[p][t] = status[p][t]
        BY <1>4, <1>6, <2>2, <2>6 DEF Listed
      <3>2. CASE table'[t] = table[t]
        BY <1>1, <1>2, <2>2, <3>1, <3>2, ProgressStays
      <3>3. CASE t \in known[p] \ Listed /\ table'[t] = NoRow
        <4>1. table'[t].ckpt = NoCheckpoint
          BY <3>3 DEF NoRow
        <4>2. \A n \in Nat : NotBeyond(NoCheckpoint, n)
          BY DEF NotBeyond, NoCheckpoint, ShardEnd
        <4>3. NotBehind(NoCheckpoint, status[p][t].ckpt) /\ iter[p][t] \in Nat /\ last[p][t] \in Nat
          BY CkptType, NotBehindNone
        <4>4. ProgressAt(p, t)
          BY DEF ProgressInv
        <4>. QED
          BY <1>1, <2>2, <2>4, <3>1, <3>3, <4>1, <4>2, <4>3, <4>4 DEF ProgressAt, KnownAt
      <3>. QED
        BY <2>3, <3>2, <3>3
    <2>. QED
      BY <2>5, <2>6
  <1>8. CASE SyncShardError(p)
    <2>1. PICK found \in SUBSET (Listed \ known[p]) : AddShards(p, found)
      BY <1>8 DEF SyncShardError
    <2>2. UNCHANGED <<pc, cand, table>> /\ cand[p] = NoShard
      BY <1>8 DEF SyncShardError, RoundBegins, LoopInv
    <2>3. CASE pc[p][t] = "idle"
      BY <1>2, <1>5, <2>2, <2>3 DEF ProgressAt, KnownAt, Reading, Offered
    <2>4. CASE pc[p][t] # "idle"
      <3>1. status'[p][t] = status[p][t]
        BY <1>4, <1>6, <2>1, <2>4 DEF Listed
      <3>. QED
        BY <1>1, <1>2, <2>2, <3>1, ProgressStays
    <2>. QED
      BY <2>3, <2>4
  <1>9. ASSUME NEW s \in Shard, FetchForLease(p, s)
        PROVE  /\ ProgressAt(p, t)'
               /\ phase'[t] # "gone" => NotBehind(table[t].ckpt, table'[t].ckpt)
    <2>1. /\ ~Owns(p, s) /\ UNCHANGED <<pc, table>> /\ loop[p] = "scan"
          /\ cand' = cand \/ cand' = [cand EXCEPT ![p] = s]
          /\ SetStatus(p, s, Fetched(table[s], status[p][s]))
      BY <1>9 DEF FetchForLease, FreshReads, Readable
    <2>2. cand'[p] \in {NoShard, s}
      BY <2>1 DEF LoopInv, TypeOK
    <2>3. CASE t = s
      <3>1. pc[p][t] = "idle"
        BY <1>4, <2>1, <2>3
      <3>2. status'[p][t] = Fetched(table[t], status[p][t])
        BY <2>1, <2>3 DEF SetStatus, TypeOK, ConsumerTypeOK
      <3>3. status[p][t].ckpt \in Checkpoint
        BY CkptType
      <3>4. NotBehind(table[t].ckpt, Fetched(table[t], status[p][t]).ckpt)
        BY <1>2, <3>3, NotBehindNone DEF Fetched
      <3>. QED
        BY <1>2, <2>1, <3>1, <3>2, <3>4 DEF ProgressAt, KnownAt, Reading, Offered
    <2>4. CASE t # s
      <3>1. status'[p][t] = status[p][t]
        BY <2>1, <2>4 DEF SetStatus, TypeOK, ConsumerTypeOK
      <3>. QED
        BY <1>1, <1>2, <1>5, <2>1, <2>2, <2>4, <3>1, ProgressStays
    <2>. QED
      BY <2>3, <2>4
  <1>10. CASE GetLeaseWrite(p)
    <2>1. cand[p] \in Shard /\ cand' = [cand EXCEPT ![p] = NoShard] /\ cand'[p] # t
      BY <1>5, <1>10 DEF GetLeaseWrite, LoopInv, TypeOK
    <2>2. CASE t = cand[p]
      <3>1. /\ table'[t] = LeaseRow(p, t) /\ status'[p][t] = LeaseRow(p, t)
            /\ pc'[p][t] = "parent"
        BY <1>10, <2>2 DEF GetLeaseWrite, PutRow, SetStatus, Goto, TypeOK, TableTypeOK, ConsumerTypeOK
      <3>2. LeaseRow(p, t).ckpt = status[p][t].ckpt
        BY DEF LeaseRow
      <3>3. NotBehind(status[p][t].ckpt, status[p][t].ckpt)
        BY CkptType, NotBehindItself
      <3>. QED
        BY <1>4, <2>2, <3>1, <3>2, <3>3 DEF ProgressAt, KnownAt, Reading, Offered
    <2>3. CASE t # cand[p]
      <3>1. /\ table'[t] = table[t] /\ status'[p][t] = status[p][t]
            /\ pc'[p][t] = pc[p][t]
        BY <1>10, <2>1, <2>3 DEF GetLeaseWrite, PutRow, SetStatus, Goto, TypeOK, TableTypeOK, ConsumerTypeOK
      <3>. QED
        BY <1>1, <1>2, <2>1, <3>1, ProgressStays
    <2>. QED
      BY <2>2, <2>3
  <1>11. CASE GetLeaseWriteError(p)
    <2>1. /\ cand[p] \in Shard /\ cand' = [cand EXCEPT ![p] = NoShard] /\ cand'[p] # t
          /\ UNCHANGED <<status, pc>>
      BY <1>5, <1>11 DEF GetLeaseWriteError, LoopInv, TypeOK
    <2>2. CASE t = cand[p]
      <3>1. table'[t] = LeaseRow(p, t) \/ table'[t] = table[t]
        BY <1>11, <2>2 DEF GetLeaseWriteError, PutRow, TypeOK, TableTypeOK
      <3>2. LeaseRow(p, t).ckpt = status[p][t].ckpt
        BY DEF LeaseRow
      <3>. QED
        BY <1>2, <1>4, <2>1, <2>2, <3>1, <3>2 DEF ProgressAt, KnownAt, Reading, Offered
    <2>3. CASE t # cand[p]
      <3>1. table'[t] = table[t]
        BY <1>11, <2>1, <2>3 DEF GetLeaseWriteError, PutRow, TypeOK, TableTypeOK
      <3>. QED
        BY <1>1, <1>2, <2>1, <3>1, ProgressStays
    <2>. QED
      BY <2>2, <2>3
  <1>12. ASSUME UNCHANGED <<table, status, pc>>, cand' = cand \/ cand' = [cand EXCEPT ![p] = NoShard]
         PROVE  /\ ProgressAt(p, t)'
                /\ phase'[t] # "gone" => NotBehind(table[t].ckpt, table'[t].ckpt)
    <2>1. cand'[p] = t => cand[p] = t
      BY <1>5, <1>12 DEF TypeOK
    <2>. QED
      BY <1>1, <1>2, <1>12, <2>1, ProgressStays
  <1>. QED
    BY <1>7, <1>8, <1>9, <1>10, <1>11, <1>12 DEF LoopStep, SkipOwned, FetchForLeaseError,
       GetLeaseRead, GetLeaseRefused, ScanDone

(* A process that ends has no positions any more; the services touch neither  *)
(* a row nor a position.                                                      *)
LEMMA ProgressOtherStep ==
    ASSUME OneProcess, TypeOK, ProgressInv,
           \/ \E p \in Process : LifeStep(p)
           \/ ServiceStep
           \/ UNCHANGED vars
    PROVE  ProgressInv' /\ table' = table
PROOF
  <1>. USE DEF streamUnchanged, consumersUnchanged, streamVars, tableVars
  <1>1. ASSUME UNCHANGED <<table, status, pc, iter, last, cand>> PROVE ProgressInv'
    BY <1>1, ProgressStays DEF ProgressInv
  <1>2. ASSUME NEW p \in Process, LifeStep(p) PROVE ProgressInv' /\ table' = table
    <2>1. CASE StartProcess(p) \/ Shutdown(p)
      BY <1>1, <2>1 DEF StartProcess, Shutdown
    <2>2. CASE EndProcess(p)
      <3>1. \A q \in Process, t \in Shard : pc'[q][t] = "idle" /\ cand'[q] # t
        BY <2>2, LineageAssumption DEF EndProcess, OneProcess, TypeOK, ConsumerTypeOK
      <3>2. table' = table
        BY <2>2 DEF EndProcess
      <3>. QED
        BY <3>1, <3>2 DEF ProgressInv, ProgressAt, KnownAt, Reading, Offered
    <2>. QED
      BY <1>2, <2>1, <2>2 DEF LifeStep
  <1>3. CASE ServiceStep
    BY <1>1, <1>3 DEF ServiceStep, Tick, Replicate, consumerVars, workerVars
  <1>4. CASE UNCHANGED vars
    BY <1>1, <1>4 DEF vars, consumerVars, workerVars
  <1>. QED
    BY <1>2, <1>3, <1>4

(* The invariant is inductive, and this is what a step does to a checkpoint   *)
(* and to a record nobody has seen.                                           *)
LEMMA ProgressStep ==
    ASSUME OneProcess, FreshReads, TypeOK, TypeOK', LoopInv, ConsumerInv, ProgressInv, [Next]_vars
    PROVE  /\ ProgressInv'
           /\ \A s \in Shard : phase'[s] # "gone" => NotBehind(table[s].ckpt, table'[s].ckpt)
           /\ \A s \in Shard, n \in 1..MaxHead :
                 fate[s][n] = "unseen" /\ fate'[s][n] = "skipped" => table[s].ckpt = NoCheckpoint
PROOF
  <1>1. ASSUME NEW p \in Process, LoopStep(p)
        PROVE  /\ ProgressInv'
               /\ \A s \in Shard : phase'[s] # "gone" => NotBehind(table[s].ckpt, table'[s].ckpt)
               /\ fate' = fate
    BY <1>1, ProgressLoopStep, LoopFrame
  <1>2. ASSUME NEW p \in Process, ConsumersStep(p)
        PROVE  /\ ProgressInv'
               /\ \A s \in Shard : NotBehind(table[s].ckpt, table'[s].ckpt)
               /\ \A s \in Shard, n \in 1..MaxHead :
                     fate[s][n] = "unseen" /\ fate'[s][n] = "skipped" => table[s].ckpt = NoCheckpoint
    BY <1>2, ProgressConsumersStep
  <1>3. ASSUME \/ \E p \in Process : LifeStep(p)
               \/ ServiceStep
               \/ UNCHANGED vars
        PROVE  /\ ProgressInv'
               /\ \A s \in Shard : NotBehind(table[s].ckpt, table'[s].ckpt)
               /\ fate' = fate
    <2>1. ProgressInv' /\ table' = table
      BY <1>3, ProgressOtherStep
    <2>2. fate' = fate
      BY <1>3 DEF LifeStep, StartProcess, Shutdown, EndProcess, consumersUnchanged, ServiceStep,
         consumerVars, vars
    <2>. QED
      BY <2>1, <2>2, CkptType, NotBehindItself
  <1>. QED
    BY <1>1, <1>2, <1>3 DEF Next

(* All that is known of a state the process can reach.                        *)
CheckpointInv == TypeOK /\ LoopInv /\ ConsumerInv /\ ProgressInv

(* Together with the invariants of ownership that is inductive.               *)
LEMMA CheckpointInvHolds == OneProcess /\ FreshReads /\ Spec => []CheckpointInv
PROOF
  <1>. SUFFICES ASSUME OneProcess, FreshReads PROVE Spec => []CheckpointInv
    OBVIOUS
  <1>1. CheckpointInv /\ [Next]_vars => CheckpointInv'
    BY OneProcessSharesItsID, TypeStep, LoopInvStep, OwnershipStep, ProgressStep DEF CheckpointInv
  <1>2. Init => CheckpointInv
    <2>1. ASSUME Init PROVE ProgressInv
      <3>1. \A p \in Process, s \in Shard : pc[p][s] = "idle" /\ cand[p] # s
        BY <2>1, LineageAssumption DEF Init, ConsumerInit
      <3>. QED
        BY <3>1 DEF ProgressInv, ProgressAt, KnownAt, Reading, Offered
    <2>. QED
      BY <2>1, InitInv, InitOwnership DEF CheckpointInv
  <1>. QED
    BY <1>1, <1>2, PTL DEF Spec

-----------------------------------------------------------------------------
(* The promise of Delivery.tla, for any number of processes                   *)

(* The promise of Delivery says more when these hypotheses are met.           *)
LEMMA AloneIsOrderly == Alone => OneProcess /\ FreshReads
BY LeaseAssumption DEF Alone, OneProcess, FreshReads

(* The fates of the model are two sets of the promise.                        *)
Sent(s) == RecordsOf(s, {"refused", "delivered"})
Past(s) == RecordsOf(s, {"skipped"})

(* What is seen is done.                                                      *)
LEMMA SeenIsDone ==
    ASSUME TypeOK, NEW s \in Shard, NEW n \in Nat, n <= MaxHead, SeenUpTo(s, n)
    PROVE  Promise!Done(s, n)
PROOF
  <1>1. ASSUME NEW m \in 1..n PROVE m \in Sent(s) \cup Past(s)
    <2>1. m \in 1..MaxHead
      BY MaxHeadAssumption
    <2>2. fate \in [Shard -> [1..MaxHead -> Fates]]
      BY DEF TypeOK, ConsumerTypeOK
    <2>3. fate[s][m] \in Fates
      BY <2>1, <2>2
    <2>4. fate[s][m] # "unseen"
      BY DEF SeenUpTo
    <2>. QED
      BY <2>1, <2>3, <2>4 DEF Sent, Past, RecordsOf, Fates
  <1>. QED
    BY <1>1 DEF Promise!Done, Sent, Past

(* A write to one row commits what was done before.                           *)
LEMMA RowIsCommit ==
    ASSUME TypeOK, TypeOK', UNCHANGED <<phase, head, fate>>, NEW s \in Shard,
           \A t \in Shard : t # s => table'[t] = table[t],
           Covered(s, table'[s].ckpt),
           Alone /\ phase[s] # "gone" => NotBehind(table[s].ckpt, table'[s].ckpt)
    PROVE  Promise!DNext
PROOF
  <1>. PICK c \in Checkpoint : c = table'[s].ckpt
    BY DEF TypeOK, TableTypeOK, Row
  <1>1. c \in Checkpoint /\ head[s] \in 0..MaxHead /\ head[s] \in Nat /\ head[s] <= MaxHead
    BY MaxHeadAssumption DEF TypeOK, TableTypeOK, StreamTypeOK, Row
  <1>2. c \in 0..head[s] \cup {ShardEnd}
    BY <1>1 DEF Covered, Checkpoint
  <1>3. IF c = ShardEnd THEN s \in {t \in Shard : phase[t] \in {"closed", "gone"}}
                              /\ Promise!Done(s, head[s])
        ELSE Promise!Done(s, c)
    <2>1. CASE c = ShardEnd
      BY <1>1, <2>1, SeenIsDone DEF Covered
    <2>2. CASE c # ShardEnd
      <3>1. c \in Nat /\ c <= MaxHead /\ SeenUpTo(s, c)
        BY <1>1, <2>2, MaxHeadAssumption DEF Covered, Checkpoint
      <3>. QED
        BY <2>2, <3>1, SeenIsDone
    <2>. QED
      BY <2>1, <2>2
  <1>4. [t \in Shard |-> table[t].ckpt]' = [[t \in Shard |-> table[t].ckpt] EXCEPT ![s] = c]
    OBVIOUS
  <1>5. /\ [t \in Shard |-> RecordsOf(t, {"refused", "delivered"})]'
             = [t \in Shard |-> RecordsOf(t, {"refused", "delivered"})]
        /\ [t \in Shard |-> RecordsOf(t, {"skipped"})]' = [t \in Shard |-> RecordsOf(t, {"skipped"})]
    BY DEF RecordsOf
  <1>6. Promise!Commit(s, c)
    <2>1. Alone /\ s \notin {t \in Shard : phase[t] = "gone"} =>
            c = ShardEnd \/ ([t \in Shard |-> table[t].ckpt][s] # ShardEnd
                             /\ [t \in Shard |-> table[t].ckpt][s] <= c)
      BY DEF NotBehind
    <2>. QED
      BY <1>3, <1>4, <1>5, <2>1 DEF Promise!Commit, Promise!log
  <1>7. \E d \in 0..head[s] \cup {ShardEnd} : Promise!Commit(s, d)
    BY <1>2, <1>6
  <1>. QED
    BY <1>7 DEF Promise!DNext

(* A step that leaves stream, fates and rows alone is none of the promise.    *)
LEMMA SilentStep ==
    ASSUME UNCHANGED <<phase, head, fate, table>>
    PROVE  UNCHANGED Promise!dvars
BY DEF Promise!dvars, Promise!log, RecordsOf

(* A step that changes at most one row is a commit, if the row is covered.    *)
LEMMA OneRowStep ==
    ASSUME TypeOK, TypeOK', LossInv', UNCHANGED <<phase, head, fate>>, NEW s \in Shard,
           \A t \in Shard : t # s => table'[t] = table[t],
           Alone => \A t \in Shard : phase'[t] # "gone" => NotBehind(table[t].ckpt, table'[t].ckpt)
    PROVE  Promise!DNext
PROOF
  <1>1. Covered(s, table'[s].ckpt)
    BY DEF LossInv, TableCovered, Covered, SeenUpTo
  <1>. QED
    BY <1>1, RowIsCommit

(* A batch that is posted is offered: its records become sent ones.           *)
LEMMA MeetIsSent ==
    ASSUME TypeOK, NEW s \in Shard, NEW from \in Nat, from >= 1, NEW to \in Nat, to <= MaxHead,
           NEW f \in {"refused", "delivered"}, Meet(s, from, to, f)
    PROVE  /\ RecordsOf(s, {"refused", "delivered"})'
                = RecordsOf(s, {"refused", "delivered"}) \cup from..to
           /\ RecordsOf(s, {"skipped"})' = RecordsOf(s, {"skipped"}) \ (from..to)
           /\ \A t \in Shard : t # s =>
                 /\ RecordsOf(t, {"refused", "delivered"})' = RecordsOf(t, {"refused", "delivered"})
                 /\ RecordsOf(t, {"skipped"})' = RecordsOf(t, {"skipped"})
PROOF
  <1>1. fate \in [Shard -> [1..MaxHead -> Fates]]
    BY DEF TypeOK, ConsumerTypeOK
  <1>2. \A t \in Shard : t # s => fate'[t] = fate[t]
    BY <1>1 DEF Meet
  <1>3. \A n \in 1..MaxHead :
           fate'[s][n] = IF n \in from..to /\ fate[s][n] \in Better(f) THEN f ELSE fate[s][n]
    BY <1>1 DEF Meet
  <1>4. \A n \in from..to : n \in 1..MaxHead
    BY MaxHeadAssumption
  <1>5. \A n \in 1..MaxHead : fate[s][n] \in Fates
    BY <1>1
  <1>6. /\ "unseen" \in Better(f) /\ "skipped" \in Better(f)
        /\ f = "delivered" => Better(f) = Fates
    BY DEF Better, Fates
  <1>7. \A n \in 1..MaxHead :
           /\ fate'[s][n] \in {"refused", "delivered"}
                 <=> fate[s][n] \in {"refused", "delivered"} \/ n \in from..to
           /\ fate'[s][n] \in {"skipped"} <=> fate[s][n] \in {"skipped"} /\ n \notin from..to
    BY <1>3, <1>5, <1>6 DEF Fates
  <1>8. /\ RecordsOf(s, {"refused", "delivered"})'
             = RecordsOf(s, {"refused", "delivered"}) \cup from..to
        /\ RecordsOf(s, {"skipped"})' = RecordsOf(s, {"skipped"}) \ (from..to)
    BY <1>4, <1>7 DEF RecordsOf
  <1>9. \A t \in Shard : t # s =>
           /\ RecordsOf(t, {"refused", "delivered"})' = RecordsOf(t, {"refused", "delivered"})
           /\ RecordsOf(t, {"skipped"})' = RecordsOf(t, {"skipped"})
    BY <1>2 DEF RecordsOf
  <1>. QED
    BY <1>8, <1>9

(* The records an iterator of type LATEST skips are passed over.              *)
LEMMA MeetIsPassed ==
    ASSUME TypeOK, NEW s \in Shard, NEW n \in Nat, n <= MaxHead, Meet(s, 1, n, "skipped")
    PROVE  /\ [t \in Shard |-> RecordsOf(t, {"refused", "delivered"})]'
                = [t \in Shard |-> RecordsOf(t, {"refused", "delivered"})]
           /\ [t \in Shard |-> RecordsOf(t, {"skipped"})]'
                = [[t \in Shard |-> RecordsOf(t, {"skipped"})]
                      EXCEPT ![s] = @ \cup ((1..n) \
                        [t \in Shard |-> RecordsOf(t, {"refused", "delivered"})][s])]
PROOF
  <1>1. fate \in [Shard -> [1..MaxHead -> Fates]]
    BY DEF TypeOK, ConsumerTypeOK
  <1>2. \A t \in Shard : t # s => fate'[t] = fate[t]
    BY <1>1 DEF Meet
  <1>3. \A m \in 1..MaxHead :
           fate'[s][m] = IF m \in 1..n /\ fate[s][m] = "unseen" THEN "skipped" ELSE fate[s][m]
    BY <1>1 DEF Meet, Better
  <1>4. \A m \in 1..n : m \in 1..MaxHead
    BY MaxHeadAssumption
  <1>5. \A m \in 1..MaxHead : fate[s][m] \in Fates
    BY <1>1
  <1>6. \A m \in 1..MaxHead :
           /\ fate'[s][m] \in {"refused", "delivered"} <=> fate[s][m] \in {"refused", "delivered"}
           /\ fate'[s][m] \in {"skipped"}
                 <=> fate[s][m] \in {"skipped"}
                     \/ (m \in 1..n /\ fate[s][m] \notin {"refused", "delivered"})
    BY <1>3, <1>5 DEF Fates
  <1>7. /\ RecordsOf(s, {"refused", "delivered"})' = RecordsOf(s, {"refused", "delivered"})
        /\ RecordsOf(s, {"skipped"})'
             = RecordsOf(s, {"skipped"}) \cup ((1..n) \ RecordsOf(s, {"refused", "delivered"}))
    BY <1>4, <1>6 DEF RecordsOf
  <1>8. \A t \in Shard : t # s =>
           /\ RecordsOf(t, {"refused", "delivered"})' = RecordsOf(t, {"refused", "delivered"})
           /\ RecordsOf(t, {"skipped"})' = RecordsOf(t, {"skipped"})
    BY <1>2 DEF RecordsOf
  <1>. QED
    BY <1>7, <1>8

(* ProcessRecords offers its batch, if there is one.                          *)
LEMMA PostIsOffer ==
    ASSUME TypeOK, LossInv, Alone => ProgressInv,
           NEW p \in Process, NEW s \in Shard, PostMessage(p, s)
    PROVE  Promise!DNext \/ UNCHANGED Promise!dvars
PROOF
  <1>1. pc[p][s] = "post" /\ UNCHANGED <<phase, head, table>>
    BY DEF PostMessage, tableVars, streamUnchanged, streamVars
  <1>2. /\ iter[p][s] \in Nat /\ last[p][s] \in Nat /\ iter[p][s] # ShardEnd
        /\ head[s] \in Nat /\ head[s] <= MaxHead /\ last[p][s] <= head[s]
        /\ Covered(s, iter[p][s])
    BY <1>1, CkptType, MaxHeadAssumption
       DEF LossInv, PositionCovered, Reading, Holding, TypeOK, StreamTypeOK
  <1>3. PICK f \in {"refused", "delivered"} : Meet(s, iter[p][s] + 1, last[p][s], f)
    BY DEF PostMessage
  <1>4. CASE iter[p][s] < last[p][s]
    <2>1. Promise!Done(s, iter[p][s])
      <3>1. iter[p][s] <= MaxHead /\ SeenUpTo(s, iter[p][s])
        BY <1>2, MaxHeadAssumption DEF Covered
      <3>. QED
        BY <1>2, <3>1, SeenIsDone
    <2>2. Alone => table[s].ckpt # ShardEnd /\ table[s].ckpt <= iter[p][s]
      BY <1>1, <1>2, CkptType
         DEF ProgressInv, ProgressAt, KnownAt, NotBeyond, NotBehind, Reading, Checkpoint
    <2>3. PICK i \in Nat : i = iter[p][s] + 1
      BY <1>2
    <2>4. PICK j \in Nat : j = last[p][s]
      BY <1>2
    <2>5. i \in 1..j /\ j \in 1..head[s] /\ i >= 1 /\ j <= MaxHead /\ i - 1 = iter[p][s]
      BY <1>2, <1>4, <2>3, <2>4, MaxHeadAssumption
    <2>6. table[s].ckpt <= iter[p][s] => table[s].ckpt < i
      BY <1>2, <2>3, CkptType DEF Checkpoint, ShardEnd
    <2>7. Promise!Done(s, i - 1)
      BY <2>1, <2>5
    <2>8. /\ [t \in Shard |-> RecordsOf(t, {"refused", "delivered"})]'
               = [[t \in Shard |-> RecordsOf(t, {"refused", "delivered"})]
                     EXCEPT ![s] = @ \cup i..j]
          /\ [t \in Shard |-> RecordsOf(t, {"skipped"})]'
               = [[t \in Shard |-> RecordsOf(t, {"skipped"})] EXCEPT ![s] = @ \ (i..j)]
      <3>1. Meet(s, i, j, f)
        BY <1>3, <2>3, <2>4
      <3>2. /\ RecordsOf(s, {"refused", "delivered"})'
                  = RecordsOf(s, {"refused", "delivered"}) \cup i..j
            /\ RecordsOf(s, {"skipped"})' = RecordsOf(s, {"skipped"}) \ (i..j)
        BY <1>3, <2>3, <2>4, <2>5, <3>1, MeetIsSent
      <3>3. \A t \in Shard : t # s =>
               /\ RecordsOf(t, {"refused", "delivered"})' = RecordsOf(t, {"refused", "delivered"})
               /\ RecordsOf(t, {"skipped"})' = RecordsOf(t, {"skipped"})
        BY <1>3, <2>3, <2>4, <2>5, <3>1, MeetIsSent
      <3>. QED
        BY <3>2, <3>3
    <2>9. Promise!Offer(s, i, j)
      BY <1>1, <2>2, <2>6, <2>7, <2>8 DEF Promise!Offer, Promise!log
    <2>10. \E b \in 1..head[s] : \E a \in 1..b : Promise!Offer(s, a, b)
      BY <2>5, <2>9
    <2>. QED
      BY <2>10 DEF Promise!DNext
  <1>5. CASE ~(iter[p][s] < last[p][s])
    <2>1. \A n \in 1..MaxHead : n \notin (iter[p][s] + 1)..last[p][s]
      BY <1>2, <1>5
    <2>2. fate' = [fate EXCEPT ![s] = [n \in 1..MaxHead |-> fate[s][n]]]
      BY <1>3, <2>1 DEF Meet
    <2>3. fate \in [Shard -> [1..MaxHead -> Fates]]
      BY DEF TypeOK, ConsumerTypeOK
    <2>4. [n \in 1..MaxHead |-> fate[s][n]] = fate[s]
      BY <2>3
    <2>5. fate' = fate
      BY <2>2, <2>3, <2>4
    <2>. QED
      BY <1>1, <2>5, SilentStep
  <1>. QED
    BY <1>4, <1>5

(* getShardIterator without a checkpoint passes over what is there.           *)
LEMMA LatestIsPass ==
    ASSUME TypeOK, NEW p \in Process, NEW s \in Shard, IteratorLatest(p, s),
           Alone => table[s].ckpt = NoCheckpoint
    PROVE  Promise!DNext
PROOF
  <1>1. UNCHANGED <<phase, head, table>> /\ Meet(s, 1, head[s], "skipped")
    BY DEF IteratorLatest, tableVars, streamUnchanged, streamVars
  <1>2. head[s] \in Nat /\ head[s] <= MaxHead
    BY MaxHeadAssumption DEF TypeOK, StreamTypeOK
  <1>3. Promise!Pass(s)
    BY <1>1, <1>2, MeetIsPassed DEF Promise!Pass, Promise!log
  <1>. QED
    BY <1>3 DEF Promise!DNext

(* What a consumer does is kept.                                              *)
LEMMA ConsumerKeeps ==
    ASSUME TypeOK, TypeOK', LossInv, LossInv', Alone => ProgressInv /\ ConsumerInv,
           NEW p \in Process, ConsumersStep(p),
           Alone => \A s \in Shard : phase'[s] # "gone" => NotBehind(table[s].ckpt, table'[s].ckpt)
    PROVE  Promise!DNext \/ UNCHANGED Promise!dvars
PROOF
  <1>1. PICK s \in Shard : ConsumerStep(p, s)
    BY DEF ConsumersStep
  <1>2. CASE IteratorLatest(p, s)
    <2>1. ASSUME Alone PROVE table[s].ckpt = NoCheckpoint
      <3>1. cand' = cand
        BY DEF ConsumersStep, workerVars
      <3>2. pc[p][s] # "idle" /\ cand[p] # s
        BY <1>1, <2>1, OwnerStep DEF ConsumerInv
      <3>. QED
        BY <1>1, <1>2, <2>1, <3>1, <3>2, AloneIsOrderly, OwnProgressStep
    <2>. QED
      BY <1>2, <2>1, LatestIsPass
  <1>3. CASE PostMessage(p, s)
    BY <1>3, PostIsOffer
  <1>4. CASE UNCHANGED fate
    <2>1. UNCHANGED <<phase, head>>
      BY <1>1, ConsumerFrame
    <2>2. \A t \in Shard : t # s => table'[t] = table[t]
      BY <1>1, OthersUntouched
    <2>. QED
      BY <1>4, <2>1, <2>2, OneRowStep
  <1>. QED
    BY <1>1, <1>2, <1>3, <1>4 DEF ConsumerStep, ParentDone, ParentError, FetchCheckpoint,
       IteratorAfterCheckpoint, IteratorError, RenewRead, RenewWrite, RenewError,
       GetRecords, GetRecordsError, ProcessRecordsCheckpoint, ShardClosed,
       NextIterator, ReleaseLease

(* So is what the event loop does; the rows syncShard removes are forgotten.  *)
LEMMA LoopKeeps ==
    ASSUME TypeOK, TypeOK', LoopInv, LossInv', NEW p \in Process, LoopStep(p),
           Alone => \A s \in Shard : phase'[s] # "gone" => NotBehind(table[s].ckpt, table'[s].ckpt)
    PROVE  Promise!DNext \/ UNCHANGED Promise!dvars
PROOF
  <1>1. UNCHANGED <<phase, head, fate>>
    BY LoopFrame
  <1>2. CASE SyncShard(p)
    <2>1. PICK removed \in SUBSET (known[p] \ Listed) : RemoveRows(removed)
      BY <1>2 DEF SyncShard
    <2>2. removed \subseteq {s \in Shard : phase[s] = "gone"}
      BY DEF LoopInv, Listed, TypeOK, StreamTypeOK, Phases
    <2>3. NoRow.ckpt = NoCheckpoint
      BY DEF NoRow
    <2>4. [s \in Shard |-> table[s].ckpt]'
            = [s \in Shard |-> IF s \in removed THEN NoCheckpoint
                               ELSE [t \in Shard |-> table[t].ckpt][s]]
      BY <2>1, <2>3 DEF RemoveRows
    <2>5. /\ [t \in Shard |-> RecordsOf(t, {"refused", "delivered"})]'
               = [t \in Shard |-> RecordsOf(t, {"refused", "delivered"})]
          /\ [t \in Shard |-> RecordsOf(t, {"skipped"})]' = [t \in Shard |-> RecordsOf(t, {"skipped"})]
      BY <1>1 DEF RecordsOf
    <2>6. Promise!Forget(removed)
      BY <1>1, <2>2, <2>4, <2>5 DEF Promise!Forget, Promise!log
    <2>7. removed \in SUBSET Shard
      BY <2>2
    <2>. QED
      BY <2>6, <2>7 DEF Promise!DNext
  <1>3. CASE GetLeaseWrite(p) \/ GetLeaseWriteError(p)
    <2>1. cand[p] \in Shard
      BY <1>3 DEF GetLeaseWrite, GetLeaseWriteError, LoopInv, TypeOK
    <2>2. \A t \in Shard : t # cand[p] => table'[t] = table[t]
      BY <1>3 DEF GetLeaseWrite, GetLeaseWriteError, PutRow, TypeOK, TableTypeOK
    <2>. QED
      BY <1>1, <2>1, <2>2, OneRowStep
  <1>4. CASE UNCHANGED table
    BY <1>1, <1>4, SilentStep
  <1>. QED
    BY <1>2, <1>3, <1>4 DEF LoopStep, SyncShardError, SkipOwned, FetchForLease,
       FetchForLeaseError, GetLeaseRead, GetLeaseRefused, ScanDone, tableVars

(* The stream itself: producers, reshards and the retention period.           *)
LEMMA StreamKeeps ==
    ASSUME TypeOK, StreamNext, UNCHANGED <<fate, table>>
    PROVE  Promise!DNext
PROOF
  <1>1. /\ [t \in Shard |-> RecordsOf(t, {"refused", "delivered"})]'
             = [t \in Shard |-> RecordsOf(t, {"refused", "delivered"})]
        /\ [t \in Shard |-> RecordsOf(t, {"skipped"})]' = [t \in Shard |-> RecordsOf(t, {"skipped"})]
        /\ [t \in Shard |-> table[t].ckpt]' = [t \in Shard |-> table[t].ckpt]
    BY DEF RecordsOf
  <1>2. phase \in [Shard -> Phases] /\ head \in [Shard -> 0..MaxHead]
    BY DEF TypeOK, StreamTypeOK
  <1>3. ASSUME NEW s \in Shard, PutRecord(s) PROVE Promise!DNext
    <2>1. Promise!Append(s)
      BY <1>1, <1>2, <1>3 DEF PutRecord, Promise!Append
    <2>. QED
      BY <2>1 DEF Promise!DNext
  <1>4. ASSUME NEW s \in Shard, ExpireShard(s) PROVE Promise!DNext
    <2>1. Promise!Expire(s)
      BY <1>1, <1>2, <1>4 DEF ExpireShard, Promise!Expire
    <2>. QED
      BY <2>1 DEF Promise!DNext
  <1>5. ASSUME NEW s \in Shard, Reshard(Parents[s]) PROVE Promise!DNext
    <2>1. Parents[s] \in SUBSET Shard
      BY LineageAssumption
    <2>2. \A t \in Shard :
             phase'[t] = IF t \in Parents[s] THEN "closed"
                         ELSE IF t \in Children(Parents[s]) THEN "open" ELSE phase[t]
      BY <1>5 DEF Reshard
    <2>3. /\ \A t \in Parents[s] : phase[t] = "open"
          /\ \A t \in Children(Parents[s]) : phase[t] = "future"
          /\ head' = head
      BY <1>5 DEF Reshard
    <2>4. Promise!Close(Parents[s])
      BY <1>1, <2>1, <2>2, <2>3 DEF Promise!Close
    <2>. QED
      BY <2>1, <2>4 DEF Promise!DNext
  <1>. QED
    BY <1>3, <1>4, <1>5 DEF StreamNext

(* Every step is one of the promise, or none.                                 *)
LEMMA StepKeeps ==
    ASSUME TypeOK, TypeOK', LoopInv, LossInv, LossInv', Alone => ProgressInv /\ ConsumerInv,
           [Next]_vars
    PROVE  [Promise!DNext]_(Promise!dvars)
PROOF
  <1>1. Alone => \A s \in Shard : phase'[s] # "gone" => NotBehind(table[s].ckpt, table'[s].ckpt)
    BY AloneIsOrderly, ProgressStep
  <1>2. ASSUME NEW p \in Process, ConsumersStep(p) PROVE Promise!DNext \/ UNCHANGED Promise!dvars
    BY <1>1, <1>2, ConsumerKeeps
  <1>3. ASSUME NEW p \in Process, LoopStep(p) PROVE Promise!DNext \/ UNCHANGED Promise!dvars
    BY <1>1, <1>3, LoopKeeps
  <1>4. ASSUME NEW p \in Process, LifeStep(p) PROVE UNCHANGED Promise!dvars
    <2>1. UNCHANGED <<phase, head, fate, table>>
      BY <1>4 DEF LifeStep, StartProcess, Shutdown, EndProcess, streamUnchanged,
         consumersUnchanged, streamVars, tableVars
    <2>. QED
      BY <2>1, SilentStep
  <1>5. CASE ServiceStep
    <2>1. UNCHANGED <<fate, table>>
      BY <1>5 DEF ServiceStep, Tick, Replicate, tableVars, consumerVars
    <2>2. CASE StreamNext
      BY <2>1, <2>2, StreamKeeps
    <2>3. CASE UNCHANGED <<phase, head>>
      BY <2>1, <2>3, SilentStep
    <2>. QED
      BY <1>5, <2>2, <2>3 DEF ServiceStep, streamUnchanged, streamVars
  <1>6. CASE UNCHANGED vars
    <2>1. UNCHANGED <<phase, head, fate, table>>
      BY <1>6 DEF vars, streamVars, tableVars, consumerVars
    <2>. QED
      BY <2>1, SilentStep
  <1>. QED
    BY <1>2, <1>3, <1>4, <1>5, <1>6 DEF Next

(* Event loops, consumers, leases and checkpoints, whatever calls fail and    *)
(* whenever a process ends, implement the promise of Delivery.tla: for any    *)
(* number of processes its part on order and on commits, and for one process  *)
(* with fresh reads also that nothing committed is offered again, passed over *)
(* or undone.                                                                 *)
THEOREM DeliveryIsKept == Spec => DeliversInOrder
PROOF
  <1>. DEFINE Inv == TypeOK /\ LoopInv /\ LossInv
              Orderly == Alone => ProgressInv /\ ConsumerInv
  <1>1. Init => Promise!DInit
    <2>1. ASSUME Init PROVE Promise!DInit
      <3>1. /\ \A s \in Shard : phase[s] \in {"open", "future"} /\ table[s].ckpt = NoCheckpoint
            /\ head = [s \in Shard |-> 0]
            /\ fate = [s \in Shard |-> [n \in 1..MaxHead |-> "unseen"]]
        BY <2>1 DEF Init, StreamInit, TableInit, ConsumerInit, NoRow
      <3>2. /\ {s \in Shard : phase[s] \in {"closed", "gone"}} = {}
            /\ {s \in Shard : phase[s] = "gone"} = {}
            /\ [s \in Shard |-> table[s].ckpt] = [s \in Shard |-> NoCheckpoint]
        BY <3>1
      <3>3. /\ [s \in Shard |-> RecordsOf(s, {"refused", "delivered"})] = [s \in Shard |-> {}]
            /\ [s \in Shard |-> RecordsOf(s, {"skipped"})] = [s \in Shard |-> {}]
        BY <3>1 DEF RecordsOf
      <3>. QED
        BY <3>1, <3>2, <3>3 DEF Promise!DInit
    <2>. QED
      BY <2>1
  <1>2. Inv /\ [Next]_vars => Inv'
    BY TypeStep, LoopInvStep, LossInvStep
  <1>3. Spec => []Inv
    BY <1>2, InitInv, PTL DEF Spec
  <1>4. Spec => []Orderly
    <2>1. CASE Alone
      <3>1. CheckpointInv => Orderly
        BY DEF CheckpointInv
      <3>2. Spec => []CheckpointInv
        BY <2>1, AloneIsOrderly, CheckpointInvHolds
      <3>. QED
        BY <3>1, <3>2, PTL
    <2>2. CASE ~Alone
      <3>1. Orderly
        BY <2>2
      <3>. QED
        BY <3>1, PTL
    <2>. QED
      BY <2>1, <2>2
  <1>5. Inv /\ Inv' /\ Orderly /\ [Next]_vars => [Promise!DNext]_(Promise!dvars)
    BY StepKeeps
  <1>. QED
    BY <1>1, <1>3, <1>4, <1>5, PTL DEF Spec, DeliversInOrder, Promise!DSpec

-----------------------------------------------------------------------------
(* What a process knows and what it writes, for any number of processes with  *)
(* one worker id, stale reads and failing calls                               *)

(* The loop of one process changes nothing of another process.                *)
LEMMA LoopKeepsToItself ==
    ASSUME TypeOK, NEW p \in Process, LoopStep(p), NEW q \in Process, q # p
    PROVE  UNCHANGED <<status[q], pc[q], cand[q], known[q], loop[q]>>
PROOF
  <1>. USE DEF consumersUnchanged
  <1>1. \A state : GotoLoop(p, state) => loop'[q] = loop[q]
    BY DEF GotoLoop, TypeOK
  <1>2. \A new : AddShards(p, new) => status'[q] = status[q]
    BY DEF AddShards, TypeOK, ConsumerTypeOK
  <1>3. \A s, st : SetStatus(p, s, st) => status'[q] = status[q]
    BY DEF SetStatus, TypeOK, ConsumerTypeOK
  <1>4. /\ \A c : cand' = [cand EXCEPT ![p] = c] => cand'[q] = cand[q]
        /\ \A k : known' = [known EXCEPT ![p] = k] => known'[q] = known[q]
    BY DEF TypeOK
  <1>5. CASE SyncShard(p)
    BY <1>1, <1>2, <1>4, <1>5 DEF SyncShard
  <1>6. CASE SyncShardError(p)
    BY <1>1, <1>2, <1>4, <1>6 DEF SyncShardError
  <1>7. ASSUME NEW s \in Shard, FetchForLease(p, s)
        PROVE  UNCHANGED <<status[q], pc[q], cand[q], known[q], loop[q]>>
    BY <1>1, <1>3, <1>4, <1>7 DEF FetchForLease
  <1>8. CASE GetLeaseWrite(p)
    <2>1. \A s : Goto(p, s, "parent") => pc'[q] = pc[q]
      BY DEF Goto, TypeOK, ConsumerTypeOK
    <2>. QED
      BY <1>1, <1>3, <1>4, <1>8, <2>1 DEF GetLeaseWrite
  <1>9. CASE GetLeaseRead(p) \/ GetLeaseRefused(p) \/ GetLeaseWriteError(p) \/ ScanDone(p)
    BY <1>1, <1>4, <1>9 DEF GetLeaseRead, GetLeaseRefused, GetLeaseWriteError, ScanDone
  <1>10. ASSUME NEW s \in Shard, SkipOwned(p, s) \/ FetchForLeaseError(p, s)
         PROVE  UNCHANGED <<status[q], pc[q], cand[q], known[q], loop[q]>>
    BY <1>10 DEF SkipOwned, FetchForLeaseError
  <1>. QED
    BY <1>5, <1>6, <1>7, <1>8, <1>9, <1>10 DEF LoopStep

(* The loop leaves alone what consumers use: it changes the cache of a shard  *)
(* without one, and starts one.                                               *)
LEMMA ConsumersUndisturbed ==
    ASSUME TypeOK, LoopInv, ConsumerInv, NEW p \in Process, LoopStep(p),
           NEW q \in Process, NEW t \in Shard
    PROVE  pc'[q][t] \in {"idle", "parent"} \/ UNCHANGED <<status[q][t], pc[q][t]>>
PROOF
  <1>. USE DEF consumersUnchanged
  <1>1. pc[q][t] # "idle" => Owns(q, t) /\ (t \in known[q] \/ phase[t] = "gone")
    BY DEF ConsumerInv
  <1>2. ASSUME NEW new, AddShards(p, new), q # p \/ t \notin new PROVE status'[q][t] = status[q][t]
    BY <1>2 DEF AddShards, TypeOK, ConsumerTypeOK
  <1>3. ASSUME NEW s \in Shard, NEW st, SetStatus(p, s, st), <<q, t>> # <<p, s>>
        PROVE  status'[q][t] = status[q][t]
    BY <1>3 DEF SetStatus, TypeOK, ConsumerTypeOK
  <1>4. CASE SyncShard(p)
    <2>1. AddShards(p, Listed \ known[p]) /\ pc' = pc
      BY <1>4 DEF SyncShard
    <2>. QED
      BY <1>1, <1>2, <2>1 DEF Listed
  <1>5. CASE SyncShardError(p)
    <2>1. PICK found \in SUBSET (Listed \ known[p]) : AddShards(p, found)
      BY <1>5 DEF SyncShardError
    <2>2. pc' = pc
      BY <1>5 DEF SyncShardError
    <2>. QED
      BY <1>1, <1>2, <2>1, <2>2 DEF Listed
  <1>6. ASSUME NEW s \in Shard, FetchForLease(p, s)
        PROVE  pc'[q][t] = "idle" \/ UNCHANGED <<status[q][t], pc[q][t]>>
    <2>1. PICK st : SetStatus(p, s, st)
      BY <1>6 DEF FetchForLease
    <2>2. ~Owns(p, s) /\ pc' = pc
      BY <1>6 DEF FetchForLease
    <2>. QED
      BY <1>1, <1>3, <2>1, <2>2
  <1>7. CASE GetLeaseWrite(p)
    <2>1. cand[p] \in Shard
      BY <1>7 DEF GetLeaseWrite, LoopInv, TypeOK
    <2>2. SetStatus(p, cand[p], LeaseRow(p, cand[p])) /\ Goto(p, cand[p], "parent")
      BY <1>7 DEF GetLeaseWrite
    <2>3. IF <<q, t>> = <<p, cand[p]>> THEN pc'[q][t] = "parent" ELSE pc'[q][t] = pc[q][t]
      BY <2>1, <2>2 DEF Goto, TypeOK, ConsumerTypeOK
    <2>. QED
      BY <1>3, <2>1, <2>2, <2>3
  <1>8. CASE UNCHANGED <<status, pc>>
    BY <1>8
  <1>. QED
    BY <1>4, <1>5, <1>6, <1>7, <1>8 DEF LoopStep, SkipOwned, FetchForLeaseError,
       GetLeaseRead, GetLeaseRefused, GetLeaseWriteError, ScanDone

(* The loop removes rows of shards that are gone, and writes the row of the   *)
(* candidate with the checkpoint it has in its cache.                         *)
LEMMA LoopWritesCached ==
    ASSUME TypeOK, LoopInv, NEW p \in Process, LoopStep(p), NEW t \in Shard
    PROVE  \/ table'[t] = table[t]
           \/ phase'[t] = "gone"
           \/ cand[p] = t /\ table'[t].ckpt = status[p][t].ckpt
PROOF
  <1>. USE DEF tableVars
  <1>1. phase' = phase
    BY LoopFrame
  <1>2. CASE SyncShard(p)
    <2>1. PICK removed \in SUBSET (known[p] \ Listed) : RemoveRows(removed)
      BY <1>2 DEF SyncShard
    <2>2. t \in known[p] \ Listed => phase'[t] = "gone"
      BY <1>1 DEF LoopInv, Listed, TypeOK, StreamTypeOK, Phases
    <2>. QED
      BY <2>1, <2>2 DEF RemoveRows
  <1>3. CASE GetLeaseWrite(p) \/ GetLeaseWriteError(p)
    <2>1. table' = table \/ PutRow(cand[p], LeaseRow(p, cand[p]))
      BY <1>3 DEF GetLeaseWrite, GetLeaseWriteError
    <2>2. LeaseRow(p, cand[p]).ckpt = status[p][cand[p]].ckpt
      BY DEF LeaseRow
    <2>. QED
      BY <2>1, <2>2 DEF PutRow, TypeOK, TableTypeOK
  <1>4. CASE UNCHANGED table
    BY <1>4
  <1>. QED
    BY <1>2, <1>3, <1>4 DEF LoopStep, SyncShardError, SkipOwned, FetchForLease,
       FetchForLeaseError, GetLeaseRead, GetLeaseRefused, ScanDone

(* Someone who works on s has a checkpoint in its cache that is behind.       *)
Outdated(s) ==
    \E p \in Process : Writes(p, s) /\ ~NotBehind(table[s].ckpt, status[p][s].ckpt)

(* Every step keeps KnownInv, and takes back no row without that.             *)
LEMMA KnownStep ==
    ASSUME TypeOK, LoopInv, ConsumerInv, KnownInv, [Next]_vars
    PROVE  /\ KnownInv'
           /\ \A s \in Shard :
                 phase'[s] # "gone" /\ ~NotBehind(table[s].ckpt, table'[s].ckpt) => Outdated(s)
PROOF
  <1>. USE DEF streamUnchanged, consumersUnchanged, streamVars, tableVars
  <1>1. \A t \in Shard : NotBehind(table[t].ckpt, table[t].ckpt)
    BY CkptType, NotBehindItself
  <1>2. ASSUME UNCHANGED <<table, status, pc, iter, last>>
        PROVE  KnownInv' /\ \A t \in Shard : NotBehind(table[t].ckpt, table'[t].ckpt)
    BY <1>1, <1>2 DEF KnownInv, KnownAt
  <1>3. ASSUME NEW p \in Process, ConsumersStep(p)
        PROVE  /\ KnownInv'
               /\ \A t \in Shard : NotBehind(table[t].ckpt, table'[t].ckpt) \/ Outdated(t)
    <2>1. PICK s \in Shard : ConsumerStep(p, s)
      BY <1>3 DEF ConsumersStep
    <2>2. /\ KnownAt(p, s)'
          /\ NotBehind(table[s].ckpt, status[p][s].ckpt) => NotBehind(table[s].ckpt, table'[s].ckpt)
      BY <2>1, OwnKnownStep DEF KnownInv
    <2>3. Writes(p, s)
      BY <2>1, OwnerStep DEF Writes
    <2>4. ASSUME NEW q \in Process, NEW t \in Shard PROVE KnownAt(q, t)'
      <3>1. CASE <<q, t>> = <<p, s>>
        BY <2>2, <3>1
      <3>2. CASE <<q, t>> # <<p, s>>
        <4>1. UNCHANGED <<status[q][t], pc[q][t], iter[q][t], last[q][t]>>
          BY <2>1, <3>2, OthersUntouched
        <4>. QED
          BY <4>1 DEF KnownInv, KnownAt
      <3>. QED
        BY <3>1, <3>2
    <2>5. ASSUME NEW t \in Shard PROVE NotBehind(table[t].ckpt, table'[t].ckpt) \/ Outdated(t)
      <3>1. CASE t = s
        BY <2>2, <2>3, <3>1 DEF Outdated
      <3>2. CASE t # s
        BY <1>1, <2>1, <3>2, OthersUntouched
      <3>. QED
        BY <3>1, <3>2
    <2>. QED
      BY <2>4, <2>5 DEF KnownInv
  <1>4. ASSUME NEW p \in Process, LoopStep(p)
        PROVE  /\ KnownInv'
               /\ \A t \in Shard :
                     phase'[t] = "gone" \/ NotBehind(table[t].ckpt, table'[t].ckpt) \/ Outdated(t)
    <2>1. ASSUME NEW q \in Process, NEW t \in Shard PROVE KnownAt(q, t)'
      <3>1. pc'[q][t] \in {"idle", "parent"} \/ UNCHANGED <<status[q][t], pc[q][t]>>
        BY <1>4, ConsumersUndisturbed
      <3>2. UNCHANGED <<iter, last>>
        BY <1>4, LoopFrame
      <3>. QED
        BY <3>1, <3>2 DEF KnownInv, KnownAt, Reading, Offered
    <2>2. ASSUME NEW t \in Shard
          PROVE  phase'[t] = "gone" \/ NotBehind(table[t].ckpt, table'[t].ckpt) \/ Outdated(t)
      <3>1. CASE cand[p] = t /\ table'[t].ckpt = status[p][t].ckpt
        BY <3>1 DEF Outdated, Writes
      <3>. QED
        BY <1>1, <1>4, <3>1, LoopWritesCached
    <2>. QED
      BY <2>1, <2>2 DEF KnownInv
  <1>5. ASSUME NEW p \in Process, LifeStep(p)
        PROVE  KnownInv' /\ \A t \in Shard : NotBehind(table[t].ckpt, table'[t].ckpt)
    <2>1. CASE StartProcess(p) \/ Shutdown(p)
      BY <1>2, <2>1 DEF StartProcess, Shutdown
    <2>2. CASE EndProcess(p)
      <3>1. \A t \in Shard : pc'[p][t] = "idle"
        BY <2>2 DEF EndProcess, TypeOK, ConsumerTypeOK
      <3>2. \A q \in Process : q # p => UNCHANGED <<status[q], pc[q], iter[q], last[q]>>
        BY <2>2 DEF EndProcess, TypeOK, ConsumerTypeOK
      <3>3. ASSUME NEW q \in Process, NEW t \in Shard PROVE KnownAt(q, t)'
        BY <3>1, <3>2 DEF KnownInv, KnownAt, Reading, Offered
      <3>4. table' = table
        BY <2>2 DEF EndProcess
      <3>. QED
        BY <1>1, <3>3, <3>4 DEF KnownInv
    <2>. QED
      BY <1>5, <2>1, <2>2 DEF LifeStep
  <1>6. CASE ServiceStep
    BY <1>2, <1>6 DEF ServiceStep, Tick, Replicate, consumerVars, workerVars
  <1>7. CASE UNCHANGED vars
    BY <1>2, <1>7 DEF vars, consumerVars, workerVars
  <1>. QED
    BY <1>3, <1>4, <1>5, <1>6, <1>7 DEF Next

(* All of it together, as an invariant of the specification.                  *)
SharedInv == TypeOK /\ LoopInv /\ ConsumerInv /\ KnownInv

(* One worker id is all it takes.                                             *)
LEMMA SharedInvHolds == SharedWorkerID /\ Spec => []SharedInv
PROOF
  <1>. SUFFICES ASSUME SharedWorkerID PROVE Spec => []SharedInv
    OBVIOUS
  <1>1. SharedInv /\ [Next]_vars => SharedInv'
    BY TypeStep, LoopInvStep, OwnershipStep, KnownStep DEF SharedInv
  <1>2. Init => SharedInv
    <2>1. ASSUME Init PROVE KnownInv
      <3>1. \A p \in Process, s \in Shard : pc[p][s] = "idle"
        BY <2>1 DEF Init, ConsumerInit
      <3>. QED
        BY <3>1 DEF KnownInv, KnownAt, Reading, Offered
    <2>. QED
      BY <2>1, InitInv, InitOwnership DEF SharedInv
  <1>. QED
    BY <1>1, <1>2, PTL DEF Spec

(* However processes overlap, reads lag and calls fail: a batch about to be   *)
(* posted has no record that the process knows to be checkpointed.            *)
THEOREM NothingKnownIsPosted == SharedWorkerID /\ Spec => []PostsOnlyBeyondCached
PROOF
  <1>1. SharedInv => PostsOnlyBeyondCached
    BY DEF SharedInv, KnownInv, KnownAt, NotBeyond, Reading, PostsOnlyBeyondCached
  <1>. QED
    BY <1>1, SharedInvHolds, PTL

(* A row goes back only through a process that works on its shard with an     *)
(* older checkpoint in its cache; neither a checkpoint, a renewal nor a new   *)
(* lease of a process that is up to date takes a shard back.                  *)
THEOREM OnlyOutdatedGoBack == SharedWorkerID /\ Spec => GoesBackOnlyWhenOutdated
PROOF
  <1>1. SharedInv /\ [Next]_vars
          => [\A s \in Shard :
                phase'[s] # "gone" /\ ~NotBehind(table[s].ckpt, table'[s].ckpt) =>
                    \E p \in Process :
                        Writes(p, s) /\ ~NotBehind(table[s].ckpt, status[p][s].ckpt)]_vars
    BY KnownStep DEF SharedInv, Outdated
  <1>. QED
    BY <1>1, SharedInvHolds, PTL DEF Spec, GoesBackOnlyWhenOutdated

-----------------------------------------------------------------------------
(* Leases without a consumer *)

(* A row, a lagging copy of it and what a process caches of it belong to the  *)
(* one worker id or to nobody.                                                *)
Ours(p) == {NoOwner, WorkerID[p]}
OwnersAt(p, s) ==
    table[s].owner \in Ours(p) /\ replica[s].owner \in Ours(p) /\ status[p][s].owner \in Ours(p)
OwnersInv == \A p \in Process, s \in Shard : OwnersAt(p, s)

(* Whatever is written to a row or a cache comes from one of these.           *)
LEMMA ConsumerOwners ==
    ASSUME SharedWorkerID, TypeOK, OwnersInv, NEW p \in Process, NEW s \in Shard,
           ConsumerStep(p, s)
    PROVE  OwnersAt(p, s)'
PROOF
  <1>. USE DEF streamUnchanged, positionUnchanged, streamVars, tableVars
  <1>1. OwnersAt(p, s) /\ replica' = replica
    BY OthersUntouched DEF OwnersInv
  <1>2. \A st : SetStatus(p, s, st) => status'[p][s] = st
    BY DEF SetStatus, TypeOK, ConsumerTypeOK
  <1>3. \A r : PutRow(s, r) => table'[s] = r
    BY DEF PutRow, TypeOK, TableTypeOK
  <1>4. LeaseRow(p, s).owner \in Ours(p)
    BY DEF LeaseRow, Ours
  <1>5. CASE FetchCheckpoint(p, s)
    <2>1. \A row \in Readable(s) : Fetched(row, status[p][s]).owner \in Ours(p)
      BY <1>1 DEF Readable, Fetched, OwnersAt
    <2>. QED
      BY <1>1, <1>2, <1>5, <2>1 DEF FetchCheckpoint, OwnersAt, Ours
  <1>6. CASE RenewWrite(p, s) \/ RenewError(p, s)
    <2>1. /\ table'[s] = table[s] \/ table'[s] = LeaseRow(p, s)
          /\ status'[p][s] = status[p][s] \/ status'[p][s] = LeaseRow(p, s)
      BY <1>2, <1>3, <1>6 DEF RenewWrite, RenewError
    <2>. QED
      BY <1>1, <1>4, <2>1 DEF OwnersAt, Ours
  <1>7. CASE ProcessRecordsCheckpoint(p, s) \/ ShardClosed(p, s)
    <2>1. PICK c : WriteCheckpoint(p, s, c)
      BY <1>7 DEF ProcessRecordsCheckpoint, ShardClosed
    <2>2. Checkpointed(p, s, c).owner = status[p][s].owner
      BY DEF Checkpointed, TypeOK, ConsumerTypeOK, Row
    <2>3. status'[p][s].owner = status[p][s].owner
          /\ table'[s].owner \in {table[s].owner, status[p][s].owner}
      BY <1>2, <1>3, <2>1, <2>2 DEF WriteCheckpoint, CheckpointSequence
    <2>. QED
      BY <1>1, <2>3 DEF OwnersAt, Ours
  <1>8. CASE ReleaseLease(p, s)
    <2>1. [status[p][s] EXCEPT !.owner = NoOwner].owner = NoOwner
      BY DEF TypeOK, ConsumerTypeOK, Row
    <2>. QED
      BY <1>1, <1>2, <1>8, <2>1 DEF ReleaseLease, OwnersAt, Ours
  <1>9. CASE UNCHANGED <<table, status>>
    BY <1>1, <1>9 DEF OwnersAt, Ours
  <1>. QED
    BY <1>5, <1>6, <1>7, <1>8, <1>9 DEF ConsumerStep, ParentDone, ParentError, IteratorLatest,
       IteratorAfterCheckpoint, IteratorError, RenewRead, GetRecords, GetRecordsError,
       PostMessage, NextIterator

(* So it is for the loop.                                                     *)
LEMMA LoopOwners ==
    ASSUME SharedWorkerID, TypeOK, LoopInv, OwnersInv, NEW p \in Process, LoopStep(p)
    PROVE  OwnersInv'
PROOF
  <1>. USE DEF streamUnchanged, consumersUnchanged, streamVars, tableVars
  <1>1. SUFFICES ASSUME NEW q \in Process, NEW t \in Shard PROVE OwnersAt(q, t)'
    BY DEF OwnersInv
  <1>2. OwnersAt(q, t) /\ Ours(q) = Ours(p) /\ NoRow.owner \in Ours(q)
    BY DEF OwnersInv, Ours, SharedWorkerID, NoRow
  <1>3. ASSUME NEW new, AddShards(p, new) PROVE status'[q][t].owner \in Ours(q)
    <2>1. status'[q][t] = status[q][t] \/ status'[q][t] = NoRow
      BY <1>3 DEF AddShards, TypeOK, ConsumerTypeOK
    <2>. QED
      BY <1>2, <2>1 DEF OwnersAt
  <1>4. LeaseRow(p, cand[p]).owner \in Ours(q)
    BY <1>2 DEF LeaseRow, Ours
  <1>5. ASSUME NEW s \in Shard, NEW st, SetStatus(p, s, st), st.owner \in Ours(q)
        PROVE  status'[q][t].owner \in Ours(q)
    <2>1. status'[q][t] = status[q][t] \/ status'[q][t] = st
      BY <1>5 DEF SetStatus, TypeOK, ConsumerTypeOK
    <2>. QED
      BY <1>2, <1>5, <2>1 DEF OwnersAt
  <1>6. ASSUME PutRow(cand[p], LeaseRow(p, cand[p]))
        PROVE  table'[t].owner \in Ours(q) /\ replica' = replica
    <2>1. table'[t] = table[t] \/ table'[t] = LeaseRow(p, cand[p])
      BY <1>6 DEF PutRow, TypeOK, TableTypeOK
    <2>. QED
      BY <1>2, <1>4, <1>6, <2>1 DEF OwnersAt, PutRow
  <1>7. CASE SyncShard(p)
    <2>1. PICK removed \in SUBSET (known[p] \ Listed) : RemoveRows(removed)
      BY <1>7 DEF SyncShard
    <2>2. table'[t] \in {table[t], NoRow} /\ replica' = replica
      BY <2>1 DEF RemoveRows
    <2>3. AddShards(p, Listed \ known[p])
      BY <1>7 DEF SyncShard
    <2>. QED
      BY <1>2, <1>3, <2>2, <2>3 DEF OwnersAt, Ours
  <1>8. CASE SyncShardError(p)
    <2>1. PICK found \in SUBSET (Listed \ known[p]) : AddShards(p, found)
      BY <1>8 DEF SyncShardError
    <2>2. UNCHANGED <<table, replica>>
      BY <1>8 DEF SyncShardError
    <2>. QED
      BY <1>2, <1>3, <2>1, <2>2 DEF OwnersAt, Ours
  <1>9. ASSUME NEW s \in Shard, FetchForLease(p, s) PROVE OwnersAt(q, t)'
    <2>1. PICK row \in Readable(s) : SetStatus(p, s, Fetched(row, status[p][s]))
      BY <1>9 DEF FetchForLease
    <2>2. OwnersAt(p, s)
      BY DEF OwnersInv
    <2>3. Fetched(row, status[p][s]).owner \in Ours(q)
      BY <1>2, <2>1, <2>2 DEF Readable, Fetched, OwnersAt
    <2>4. UNCHANGED <<table, replica>>
      BY <1>9 DEF FetchForLease
    <2>. QED
      BY <1>2, <1>5, <2>1, <2>3, <2>4 DEF OwnersAt, Ours
  <1>10. CASE GetLeaseWrite(p)
    <2>1. cand[p] \in Shard
      BY <1>10 DEF GetLeaseWrite, LoopInv, TypeOK
    <2>2. PutRow(cand[p], LeaseRow(p, cand[p])) /\ SetStatus(p, cand[p], LeaseRow(p, cand[p]))
      BY <1>10 DEF GetLeaseWrite
    <2>. QED
      BY <1>2, <1>4, <1>5, <1>6, <2>1, <2>2 DEF OwnersAt, Ours
  <1>11. CASE GetLeaseWriteError(p)
    <2>1. PutRow(cand[p], LeaseRow(p, cand[p])) \/ UNCHANGED <<table, replica>>
      BY <1>11 DEF GetLeaseWriteError
    <2>2. status' = status
      BY <1>11 DEF GetLeaseWriteError
    <2>. QED
      BY <1>2, <1>6, <2>1, <2>2 DEF OwnersAt, Ours
  <1>12. CASE UNCHANGED <<table, replica, status>>
    BY <1>2, <1>12 DEF OwnersAt, Ours
  <1>. QED
    BY <1>7, <1>8, <1>9, <1>10, <1>11, <1>12 DEF LoopStep, SkipOwned, FetchForLeaseError,
       GetLeaseRead, GetLeaseRefused, ScanDone

(* Every step keeps it.                                                       *)
LEMMA OwnersStep ==
    ASSUME SharedWorkerID, TypeOK, LoopInv, OwnersInv, [Next]_vars
    PROVE  OwnersInv'
PROOF
  <1>. USE DEF streamUnchanged, consumersUnchanged, streamVars, tableVars
  <1>1. ASSUME NEW p \in Process, ConsumersStep(p) PROVE OwnersInv'
    <2>1. PICK s \in Shard : ConsumerStep(p, s)
      BY <1>1 DEF ConsumersStep
    <2>2. OwnersAt(p, s)'
      BY <2>1, ConsumerOwners
    <2>3. ASSUME NEW q \in Process, NEW t \in Shard PROVE OwnersAt(q, t)'
      <3>1. OwnersAt(q, t) /\ Ours(q) = Ours(p) /\ Ours(q)' = Ours(q)
        BY DEF OwnersInv, Ours, SharedWorkerID
      <3>2. replica' = replica /\ (t # s => table'[t] = table[t])
            /\ (<<q, t>> # <<p, s>> => status'[q][t] = status[q][t])
        BY <2>1, OthersUntouched
      <3>. QED
        BY <2>2, <3>1, <3>2 DEF OwnersAt, Ours
    <2>. QED
      BY <2>3 DEF OwnersInv
  <1>2. ASSUME \A q \in Process, t \in Shard :
                  /\ table'[t] = table[t] /\ replica'[t] \in {table[t], replica[t]}
                  /\ status'[q][t] \in {status[q][t], NoRow}
        PROVE  OwnersInv'
    BY <1>2 DEF OwnersInv, OwnersAt, Ours, NoRow
  <1>3. ASSUME NEW p \in Process, LifeStep(p) PROVE OwnersInv'
    <2>1. UNCHANGED <<table, replica>>
      BY <1>3 DEF LifeStep, StartProcess, Shutdown, EndProcess
    <2>2. \A q \in Process, t \in Shard : status'[q][t] \in {status[q][t], NoRow}
      <3>1. CASE StartProcess(p) \/ Shutdown(p)
        BY <3>1 DEF StartProcess, Shutdown
      <3>2. CASE EndProcess(p)
        BY <3>2 DEF EndProcess, TypeOK, ConsumerTypeOK
      <3>. QED
        BY <1>3, <3>1, <3>2 DEF LifeStep
    <2>. QED
      BY <1>2, <2>1, <2>2
  <1>4. CASE ServiceStep
    BY <1>2, <1>4 DEF ServiceStep, Tick, Replicate, consumerVars, TypeOK, TableTypeOK
  <1>5. CASE UNCHANGED vars
    BY <1>2, <1>5 DEF vars, consumerVars
  <1>. QED
    BY <1>1, <1>3, <1>4, <1>5, LoopOwners DEF Next

(* A shard becomes orphaned by nothing but a failing GetLease.                *)
LEMMA OrphanStep ==
    ASSUME SharedWorkerID, TypeOK, LoopInv, ConsumerInv, OwnersInv, [Next]_vars,
           NEW p \in Process, NEW s \in Shard, ~Orphaned(p, s), Orphaned(p, s)'
    PROVE  cand[p] = s /\ ("table" \in Faults \/ LosesRace(p, s))
PROOF
  <1>. USE DEF streamUnchanged, consumersUnchanged, positionUnchanged, streamVars, tableVars
  <1>1. ~UNCHANGED <<status[p], pc[p], cand[p]>>
    BY DEF Orphaned, Owns
  <1>2. WorkerID[p] # NoOwner
    BY ConsumerAssumption, LeaseAssumption
  <1>3. status'[p][s].owner # NoOwner /\ status'[p][s] # NoRow
    BY <1>2 DEF Orphaned, Owns, NoRow
  <1>4. ASSUME NEW q \in Process, ConsumersStep(q) PROVE FALSE
    <2>1. PICK t \in Shard : ConsumerStep(q, t)
      BY <1>4 DEF ConsumersStep
    <2>2. cand' = cand
      BY <1>4 DEF ConsumersStep, workerVars
    <2>3. q = p /\ t = s
      BY <2>1, <2>2, OthersUntouched DEF Orphaned, Owns
    <2>4. pc[p][s] # "idle" /\ pc'[p][s] = "idle"
      BY <2>1, <2>3, OwnerStep DEF Orphaned
    <2>5. \A state : Goto(p, s, state) => pc'[p][s] = state
      BY DEF Goto, TypeOK, ConsumerTypeOK
    <2>6. ReleaseLease(p, s)
      BY <2>1, <2>3, <2>4, <2>5 DEF ConsumerStep, ParentDone, ParentError, FetchCheckpoint,
         IteratorLatest, IteratorAfterCheckpoint, IteratorError, RenewRead, RenewWrite, RenewError,
         GetRecords, GetRecordsError, PostMessage, ProcessRecordsCheckpoint, ShardClosed,
         NextIterator
    <2>7. status'[p][s].owner = NoOwner
      BY <2>6 DEF ReleaseLease, SetStatus, TypeOK, ConsumerTypeOK, Row
    <2>. QED
      BY <1>3, <2>7
  <1>5. ASSUME NEW q \in Process, LifeStep(q) PROVE FALSE
    <2>1. CASE StartProcess(q) \/ Shutdown(q)
      BY <1>1, <2>1 DEF StartProcess, Shutdown
    <2>2. CASE EndProcess(q)
      BY <1>1, <1>3, <2>2 DEF EndProcess, TypeOK, ConsumerTypeOK
    <2>. QED
      BY <1>5, <2>1, <2>2 DEF LifeStep
  <1>6. ASSUME LoopStep(p)
        PROVE  cand[p] = s /\ ("table" \in Faults \/ LosesRace(p, s))
    <2>1. CASE SyncShard(p) \/ SyncShardError(p)
      <3>1. PICK new : AddShards(p, new)
        BY <2>1 DEF SyncShard, SyncShardError
      <3>2. status'[p][s] = status[p][s] \/ status'[p][s] = NoRow
        BY <3>1 DEF AddShards, TypeOK, ConsumerTypeOK
      <3>. QED
        BY <1>3, <2>1, <3>2 DEF SyncShard, SyncShardError, Orphaned, Owns
    <2>2. ASSUME NEW t \in Shard, FetchForLease(p, t) PROVE FALSE
      <3>1. PICK st : /\ SetStatus(p, t, st)
                      /\ IF st.ckpt = ShardEnd THEN UNCHANGED <<loop, cand>>
                         ELSE GotoLoop(p, "get") /\ cand' = [cand EXCEPT ![p] = t]
        BY <2>2 DEF FetchForLease
      <3>2. pc' = pc /\ cand[p] = NoShard /\ NoShard \notin Shard
        BY <2>2, LineageAssumption DEF FetchForLease, LoopInv
      <3>3. CASE t = s
        <4>1. status'[p][s] = st
          BY <3>1, <3>3 DEF SetStatus, TypeOK, ConsumerTypeOK
        <4>2. st.ckpt # ShardEnd => cand'[p] = s
          BY <3>1, <3>3 DEF TypeOK
        <4>. QED
          BY <4>1, <4>2 DEF Orphaned
      <3>4. CASE t # s
        <4>1. status'[p][s] = status[p][s]
          BY <3>1, <3>4 DEF SetStatus, TypeOK, ConsumerTypeOK
        <4>. QED
          BY <3>2, <4>1 DEF Orphaned, Owns
      <3>. QED
        BY <3>3, <3>4
    <2>3. CASE GetLeaseWrite(p)
      <3>1. cand[p] \in Shard
        BY <2>3 DEF GetLeaseWrite, LoopInv, TypeOK
      <3>2. SetStatus(p, cand[p], LeaseRow(p, cand[p])) /\ Goto(p, cand[p], "parent")
        BY <2>3 DEF GetLeaseWrite
      <3>3. pc'[p][cand[p]] = "parent"
        BY <3>1, <3>2 DEF Goto, TypeOK, ConsumerTypeOK
      <3>4. s # cand[p] => UNCHANGED <<status[p][s], pc[p][s]>>
        BY <3>1, <3>2 DEF Goto, SetStatus, TypeOK, ConsumerTypeOK
      <3>. QED
        BY <3>3, <3>4 DEF Orphaned, Owns
    <2>4. CASE GetLeaseRefused(p)
      <3>1. UNCHANGED <<status, pc>>
        BY <2>4 DEF GetLeaseRefused
      <3>2. cand[p] = s
        BY <3>1 DEF Orphaned, Owns
      <3>3. \A row \in Readable(s) : row.owner \in Ours(p)
        BY DEF OwnersInv, OwnersAt, Readable
      <3>. QED
        BY <2>4, <3>2, <3>3 DEF GetLeaseRefused, Grantable, Ours
    <2>5. CASE GetLeaseWriteError(p)
      <3>1. UNCHANGED <<status, pc>> /\ loop[p] = "put"
        BY <2>5 DEF GetLeaseWriteError
      <3>2. cand[p] = s
        BY <3>1 DEF Orphaned, Owns
      <3>. QED
        BY <2>5, <3>1, <3>2 DEF GetLeaseWriteError, LosesRace
    <2>6. CASE UNCHANGED <<status, pc, cand>>
      BY <1>1, <2>6
    <2>. QED
      BY <1>6, <2>1, <2>2, <2>3, <2>4, <2>5, <2>6 DEF LoopStep, SkipOwned, FetchForLeaseError,
         GetLeaseRead, ScanDone
  <1>7. ASSUME NEW q \in Process, q # p, LoopStep(q) PROVE FALSE
    <2>1. UNCHANGED <<status[p], pc[p], cand[p]>>
      BY <1>7, LoopKeepsToItself
    <2>. QED
      BY <1>1, <2>1
  <1>8. CASE ServiceStep
    BY <1>1, <1>8 DEF ServiceStep, consumerVars, workerVars
  <1>9. CASE UNCHANGED vars
    BY <1>1, <1>9 DEF vars, consumerVars, workerVars
  <1>. QED
    BY <1>4, <1>5, <1>6, <1>7, <1>8, <1>9 DEF Next

(* A shard that its process takes for its own and does not consume was left   *)
(* so by a GetLease of the loop that failed, or lost to another process; no   *)
(* consumer, however it returns, no new list of shards and no restart leaves  *)
(* one behind.                                                                *)
THEOREM OrphansComeFromGetLease == SharedWorkerID /\ Spec => OrphanedOnlyByGetLease
PROOF
  <1>. SUFFICES ASSUME SharedWorkerID PROVE Spec => OrphanedOnlyByGetLease
    OBVIOUS
  <1>1. OwnersInv /\ SharedInv /\ [Next]_vars => OwnersInv'
    BY OwnersStep DEF SharedInv
  <1>2. Init => OwnersInv
    <2>1. ASSUME Init, NEW p \in Process, NEW s \in Shard PROVE OwnersAt(p, s)
      <3>1. table[s] = NoRow /\ replica[s] = NoRow /\ status[p][s] = NoRow
        BY <2>1 DEF Init, TableInit, ConsumerInit
      <3>. QED
        BY <3>1 DEF OwnersAt, Ours, NoRow
    <2>. QED
      BY <2>1 DEF OwnersInv
  <1>3. OwnersInv /\ SharedInv /\ [Next]_vars
          => [\A p \in Process, s \in Shard :
                ~Orphaned(p, s) /\ Orphaned(p, s)' =>
                    cand[p] = s /\ ("table" \in Faults \/ LosesRace(p, s))]_vars
    BY OrphanStep DEF SharedInv
  <1>4. Spec => []SharedInv
    BY SharedInvHolds
  <1>. QED
    BY <1>1, <1>2, <1>3, <1>4, PTL DEF Spec, OrphanedOnlyByGetLease

-----------------------------------------------------------------------------
(* The limit of leases, for any number of processes, with stale reads and     *)
(* failing calls *)

(* A stream has finitely many shards, so that leases can be counted.          *)
FiniteShards == IsFiniteSet(Shard)

(* What the limit is about: the shards with a consumer that has not ended.    *)
Consumed(p) == {s \in known[p] : pc[p][s] # "idle" /\ status[p][s].ckpt # ShardEnd}

(* A shard that was processed to its end is not taken up again before its     *)
(* consumer returned, so the count that the loop made only goes down          *)
(* until it has its lease.                                                    *)
Working == {"parent", "fetch"} \cup Reading \cup Offered
NotEnded(p, s) == pc[p][s] \in Working \/ cand[p] = s => status[p][s].ckpt # ShardEnd
LimitAt(p) ==
    /\ Cardinality(Consumed(p)) <= MaxLeases
    /\ loop[p] \in {"scan", "get", "put"} => Cardinality(Consumed(p)) < MaxLeases
LimitInv == \A p \in Process : LimitAt(p) /\ \A s \in Shard : NotEnded(p, s)

(* Sets of shards can be counted.                                             *)
LEMMA CountShards ==
    ASSUME FiniteShards, NEW S \in SUBSET Shard, NEW T \in SUBSET S
    PROVE  /\ IsFiniteSet(S) /\ Cardinality(S) \in Nat /\ Cardinality(T) \in Nat
           /\ Cardinality(T) <= Cardinality(S)
BY FS_Subset, FS_CardinalityType DEF FiniteShards

(* What a process consumes are shards.                                        *)
LEMMA ConsumedType ==
    ASSUME TypeOK, NEW p \in Process
    PROVE  Consumed(p) \in SUBSET Shard
BY DEF TypeOK, Consumed

(* A count that does not grow stays within the limit.                         *)
LEMMA LimitStays ==
    ASSUME FiniteShards, TypeOK, LimitInv, NEW p \in Process, Consumed(p)' \subseteq Consumed(p),
           loop'[p] \in {"scan", "get", "put"} => loop[p] \in {"scan", "get", "put"}
    PROVE  LimitAt(p)'
PROOF
  <1>. DEFINE old == Consumed(p)
              new == Consumed(p)'
  <1>1. old \in SUBSET Shard /\ new \in SUBSET old
    BY ConsumedType
  <1>2. Cardinality(old) <= MaxLeases
        /\ (loop[p] \in {"scan", "get", "put"} => Cardinality(old) < MaxLeases)
    BY DEF LimitInv, LimitAt
  <1>. HIDE DEF old, new
  <1>3. Cardinality(old) \in Nat /\ Cardinality(new) \in Nat /\ Cardinality(new) <= Cardinality(old)
    BY <1>1, CountShards
  <1>4. MaxLeases \in Nat
    BY WorkerAssumption
  <1>5. Cardinality(new) <= MaxLeases
        /\ (loop'[p] \in {"scan", "get", "put"} => Cardinality(new) < MaxLeases)
    BY <1>2, <1>3, <1>4
  <1>. QED
    BY <1>5 DEF LimitAt, new

(* A consumer goes on with a shard that is not at its end, or returns.        *)
LEMMA OwnNotEndedStep ==
    ASSUME TypeOK, NEW p \in Process, NEW s \in Shard, ConsumerStep(p, s), NotEnded(p, s),
           cand' = cand, cand[p] # s
    PROVE  /\ NotEnded(p, s)'
           /\ pc'[p][s] # "idle" /\ status'[p][s].ckpt # ShardEnd => status[p][s].ckpt # ShardEnd
PROOF
  <1>. USE DEF streamUnchanged, positionUnchanged, streamVars, tableVars
  <1>1. \A state : Goto(p, s, state) => pc'[p][s] = state
    BY DEF Goto, TypeOK, ConsumerTypeOK
  <1>2. \A st : SetStatus(p, s, st) => status'[p][s] = st
    BY DEF SetStatus, TypeOK, ConsumerTypeOK
  <1>3. pc[p][s] \in Working => status[p][s].ckpt # ShardEnd
    BY DEF NotEnded
  <1>4. last[p][s] # ShardEnd
    BY CkptType
  <1>5. \A c : WriteCheckpoint(p, s, c) => status'[p][s].ckpt = c
    <2>1. status[p][s] \in Row
      BY DEF TypeOK, ConsumerTypeOK
    <2>2. \A c : Checkpointed(p, s, c).ckpt = c
      BY <2>1 DEF Checkpointed, Row
    <2>. QED
      BY <1>2, <2>2 DEF WriteCheckpoint
  <1>6. CASE FetchCheckpoint(p, s)
    <2>1. pc[p][s] = "fetch" /\ pc'[p][s] \in {"iter", "release"}
      BY <1>1, <1>6 DEF FetchCheckpoint
    <2>. QED
      BY <1>3, <2>1 DEF NotEnded, Working, Reading, Offered
  <1>7. CASE RenewWrite(p, s) \/ RenewError(p, s)
    <2>1. LeaseRow(p, s).ckpt = status[p][s].ckpt
      BY DEF LeaseRow
    <2>2. pc[p][s] = "renew" /\ status'[p][s].ckpt = status[p][s].ckpt
      BY <1>2, <1>7, <2>1 DEF RenewWrite, RenewError
    <2>. QED
      BY <1>3, <2>2 DEF NotEnded, Working, Reading
  <1>8. CASE ProcessRecordsCheckpoint(p, s)
    BY <1>1, <1>3, <1>4, <1>5, <1>8 DEF ProcessRecordsCheckpoint, NotEnded, Working, Offered
  <1>9. CASE ShardClosed(p, s)
    BY <1>1, <1>5, <1>9 DEF ShardClosed, NotEnded, Working, Reading, Offered
  <1>10. CASE ReleaseLease(p, s)
    BY <1>1, <1>10 DEF ReleaseLease, NotEnded, Working, Reading, Offered
  <1>11. CASE IteratorLatest(p, s) \/ IteratorAfterCheckpoint(p, s)
    <2>1. status[p][s].ckpt # ShardEnd /\ status' = status
      BY <1>11 DEF IteratorLatest, IteratorAfterCheckpoint, NoCheckpoint, ShardEnd
    <2>. QED
      BY <2>1 DEF NotEnded
  <1>12. CASE ParentDone(p, s) \/ ParentError(p, s) \/ IteratorError(p, s)
    BY <1>1, <1>3, <1>12 DEF ParentDone, ParentError, IteratorError, NotEnded, Working, Reading, Offered
  <1>13. CASE RenewRead(p, s) \/ GetRecordsError(p, s) \/ PostMessage(p, s) \/ NextIterator(p, s)
    <2>1. status' = status /\ pc[p][s] \in Working
      BY <1>13 DEF RenewRead, GetRecordsError, PostMessage, NextIterator, Working, Reading, Offered
    <2>. QED
      BY <1>3, <2>1 DEF NotEnded
  <1>14. CASE GetRecords(p, s)
    <2>1. status' = status /\ pc[p][s] \in Working
      BY <1>14 DEF GetRecords, Working, Reading
    <2>. QED
      BY <1>3, <2>1 DEF NotEnded
  <1>. QED
    BY <1>6, <1>7, <1>8, <1>9, <1>10, <1>11, <1>12, <1>13, <1>14 DEF ConsumerStep

(* A consumer keeps LimitInv: it starts nothing, and ends at most itself.     *)
LEMMA LimitConsumersStep ==
    ASSUME FiniteShards, TypeOK, ConsumerInv, LimitInv, NEW p \in Process, ConsumersStep(p)
    PROVE  LimitInv'
PROOF
  <1>1. PICK s \in Shard : ConsumerStep(p, s)
    BY DEF ConsumersStep
  <1>2. UNCHANGED <<cand, loop, known>> /\ pc[p][s] # "idle" /\ cand[p] # s
    BY <1>1, OwnerStep DEF ConsumersStep, workerVars, ConsumerInv
  <1>3. ASSUME NEW q \in Process, NEW t \in Shard, <<q, t>> # <<p, s>>
        PROVE  UNCHANGED <<status[q][t], pc[q][t]>>
    BY <1>1, <1>3, OthersUntouched
  <1>4. /\ NotEnded(p, s)'
        /\ pc'[p][s] # "idle" /\ status'[p][s].ckpt # ShardEnd => status[p][s].ckpt # ShardEnd
    BY <1>1, <1>2, OwnNotEndedStep DEF LimitInv
  <1>5. ASSUME NEW q \in Process, NEW t \in Shard PROVE NotEnded(q, t)'
    BY <1>2, <1>3, <1>4 DEF LimitInv, NotEnded
  <1>6. ASSUME NEW q \in Process PROVE LimitAt(q)'
    <2>1. known[q] \subseteq Shard
      BY DEF TypeOK
    <2>2. Consumed(q)' \subseteq Consumed(q)
      BY <1>2, <1>3, <1>4, <2>1 DEF Consumed
    <2>. QED
      BY <1>2, <2>2, LimitStays
  <1>. QED
    BY <1>5, <1>6 DEF LimitInv

(* The loop adds one shard at most to what it counted in syncShard, which     *)
(* leaves out no shard of the new list that has a consumer.                   *)
LEMMA LimitLoopStep ==
    ASSUME FiniteShards, TypeOK, LoopInv, ConsumerInv, LimitInv, NEW p \in Process, LoopStep(p)
    PROVE  LimitInv'
PROOF
  <1>. USE DEF streamUnchanged, consumersUnchanged, streamVars, tableVars
  <1>1. NoShard \notin Shard /\ MaxLeases \in Nat
    BY LineageAssumption, WorkerAssumption
  <1>2. \A t \in Shard :
           pc[p][t] # "idle" => Owns(p, t) /\ cand[p] # t /\ (t \in known[p] \/ phase[t] = "gone")
    BY DEF ConsumerInv
  <1>3. \A t \in Shard : NotEnded(p, t)
    BY DEF LimitInv
  <1>4. known[p] \subseteq Shard /\ Listed \subseteq Shard
    BY DEF TypeOK, Listed
  <1>5. loop[p] \notin {"get", "put"} => cand[p] = NoShard
    BY DEF LoopInv
  <1>6. \A state : GotoLoop(p, state) => loop'[p] = state
    BY DEF GotoLoop, TypeOK
  <1>7. SUFFICES LimitAt(p)' /\ \A t \in Shard : NotEnded(p, t)'
    <2>1. ASSUME NEW q \in Process, q # p
          PROVE  UNCHANGED <<status[q], pc[q], cand[q], known[q], loop[q]>>
      BY <2>1, LoopKeepsToItself
    <2>2. ASSUME NEW q \in Process, q # p PROVE LimitAt(q)' /\ \A t \in Shard : NotEnded(q, t)'
      <3>1. UNCHANGED <<status[q], pc[q], cand[q], known[q], loop[q]>>
        BY <2>1, <2>2
      <3>2. Consumed(q)' = Consumed(q)
        BY <3>1 DEF Consumed
      <3>. QED
        BY <3>1, <3>2 DEF LimitInv, LimitAt, NotEnded
    <2>. QED
      BY <2>2, <1>7 DEF LimitInv
  <1>8. ASSUME NEW new, AddShards(p, new) PROVE \A t \in Shard : t \notin new => status'[p][t] = status[p][t]
    BY <1>8 DEF AddShards, TypeOK, ConsumerTypeOK
  <1>9. ASSUME NEW new \in SUBSET (Listed \ known[p]), AddShards(p, new),
               UNCHANGED <<pc, cand>>, cand[p] = NoShard
        PROVE  /\ \A t \in Shard : pc[p][t] # "idle" => status'[p][t] = status[p][t] /\ t \notin new
               /\ \A t \in Shard : NotEnded(p, t)'
    <2>1. \A t \in Shard : pc[p][t] # "idle" => status'[p][t] = status[p][t] /\ t \notin new
      BY <1>2, <1>8, <1>9 DEF Listed
    <2>. QED
      BY <1>1, <1>3, <1>9, <2>1 DEF NotEnded, Working, Reading, Offered
  <1>10. CASE SyncShard(p)
    <2>1. /\ AddShards(p, Listed \ known[p]) /\ known' = [known EXCEPT ![p] = Listed]
          /\ UNCHANGED <<pc, cand>> /\ cand[p] = NoShard
          /\ IF Cardinality(Held(p, known[p] \cap Listed)) < MaxLeases
             THEN GotoLoop(p, "scan") ELSE GotoLoop(p, "select")
      BY <1>5, <1>10 DEF SyncShard, RoundBegins
    <2>2. /\ \A t \in Shard : pc[p][t] # "idle" => status'[p][t] = status[p][t] /\ t \notin Listed \ known[p]
          /\ \A t \in Shard : NotEnded(p, t)'
      BY <1>9, <2>1
    <2>3. known'[p] = Listed
      BY <2>1 DEF TypeOK
    <2>4. Consumed(p)' \subseteq Consumed(p) /\ Consumed(p)' \subseteq Held(p, known[p] \cap Listed)
      BY <1>2, <1>4, <2>1, <2>2, <2>3 DEF Consumed, Held, Listed
    <2>5. CASE Cardinality(Held(p, known[p] \cap Listed)) < MaxLeases
      <3>. DEFINE held == Held(p, known[p] \cap Listed)
                  new == Consumed(p)'
      <3>1. held \in SUBSET Shard /\ new \in SUBSET held
        BY <1>4, <2>4 DEF Held
      <3>. HIDE DEF held, new
      <3>2. Cardinality(held) \in Nat /\ Cardinality(new) \in Nat /\ Cardinality(new) <= Cardinality(held)
        BY <3>1, CountShards
      <3>3. Cardinality(new) < MaxLeases
        BY <1>1, <2>5, <3>2 DEF held
      <3>4. Cardinality(new) <= MaxLeases
        BY <1>1, <3>2, <3>3
      <3>. QED
        BY <2>2, <3>3, <3>4 DEF LimitAt, new
    <2>6. CASE ~(Cardinality(Held(p, known[p] \cap Listed)) < MaxLeases)
      <3>1. loop'[p] = "select"
        BY <1>6, <2>1, <2>6
      <3>. QED
        BY <2>2, <2>4, <3>1, LimitStays
    <2>. QED
      BY <2>5, <2>6
  <1>11. CASE SyncShardError(p)
    <2>1. PICK found \in SUBSET (Listed \ known[p]) :
             AddShards(p, found) /\ known' = [known EXCEPT ![p] = @ \cup found]
      BY <1>11 DEF SyncShardError
    <2>2. UNCHANGED <<pc, cand>> /\ cand[p] = NoShard /\ loop'[p] = "sync"
      BY <1>5, <1>6, <1>11 DEF SyncShardError, RoundBegins
    <2>3. /\ \A t \in Shard : pc[p][t] # "idle" => status'[p][t] = status[p][t] /\ t \notin found
          /\ \A t \in Shard : NotEnded(p, t)'
      BY <1>9, <2>1, <2>2
    <2>4. known'[p] = known[p] \cup found
      BY <2>1 DEF TypeOK
    <2>5. Consumed(p)' \subseteq Consumed(p)
      BY <1>4, <2>1, <2>2, <2>3, <2>4 DEF Consumed
    <2>. QED
      BY <2>2, <2>3, <2>5, LimitStays
  <1>12. ASSUME UNCHANGED <<status, pc, known>>, cand' = cand \/ cand' = [cand EXCEPT ![p] = NoShard],
                loop'[p] \in {"scan", "get", "put"} => loop[p] \in {"scan", "get", "put"}
         PROVE  LimitAt(p)' /\ \A t \in Shard : NotEnded(p, t)'
    <2>1. Consumed(p)' \subseteq Consumed(p)
      BY <1>12 DEF Consumed
    <2>2. \A t \in Shard : cand'[p] = t => cand[p] = t
      BY <1>1, <1>12 DEF TypeOK
    <2>. QED
      BY <1>3, <1>12, <2>1, <2>2, LimitStays DEF NotEnded
  <1>13. CASE \E s \in Shard : SkipOwned(p, s) \/ FetchForLeaseError(p, s)
    BY <1>12, <1>13 DEF SkipOwned, FetchForLeaseError
  <1>14. ASSUME NEW s \in Shard, FetchForLease(p, s)
         PROVE  LimitAt(p)' /\ \A t \in Shard : NotEnded(p, t)'
    <2>1. PICK row \in Readable(s) :
             /\ SetStatus(p, s, Fetched(row, status[p][s]))
             /\ IF Fetched(row, status[p][s]).ckpt = ShardEnd
                THEN UNCHANGED <<loop, cand>>
                ELSE GotoLoop(p, "get") /\ cand' = [cand EXCEPT ![p] = s]
      BY <1>14 DEF FetchForLease
    <2>2. ~Owns(p, s) /\ UNCHANGED <<pc, known>> /\ loop[p] = "scan" /\ cand[p] = NoShard
      BY <1>5, <1>14 DEF FetchForLease
    <2>3. pc[p][s] = "idle"
      BY <1>2, <2>2
    <2>4. /\ status'[p][s] = Fetched(row, status[p][s])
          /\ \A t \in Shard : t # s => status'[p][t] = status[p][t]
      BY <2>1 DEF SetStatus, TypeOK, ConsumerTypeOK
    <2>5. Consumed(p)' \subseteq Consumed(p)
      BY <1>4, <2>2, <2>3, <2>4 DEF Consumed
    <2>6. \/ cand'[p] = NoShard
          \/ cand'[p] = s /\ status'[p][s].ckpt # ShardEnd
      BY <2>1, <2>2, <2>4 DEF TypeOK
    <2>7. \A t \in Shard : NotEnded(p, t)'
      BY <1>1, <1>3, <2>2, <2>3, <2>4, <2>6 DEF NotEnded, Working, Reading, Offered
    <2>. QED
      BY <2>2, <2>5, <2>7, LimitStays
  <1>15. CASE GetLeaseRead(p) \/ GetLeaseRefused(p) \/ GetLeaseWriteError(p) \/ ScanDone(p)
    BY <1>12, <1>15 DEF GetLeaseRead, GetLeaseRefused, GetLeaseWriteError, ScanDone
  <1>16. CASE GetLeaseWrite(p)
    <2>. DEFINE s == cand[p]
    <2>1. /\ SetStatus(p, s, LeaseRow(p, s)) /\ Goto(p, s, "parent") /\ GotoLoop(p, "select")
          /\ cand' = [cand EXCEPT ![p] = NoShard] /\ known' = known
          /\ s \in Shard /\ loop[p] = "put"
      BY <1>16 DEF GetLeaseWrite, LoopInv, TypeOK
    <2>2. status[p][s].ckpt # ShardEnd
      BY <1>3, <2>1 DEF NotEnded
    <2>. HIDE DEF s
    <2>3. /\ status'[p][s] = LeaseRow(p, s)
          /\ \A t \in Shard : t # s => status'[p][t] = status[p][t] /\ pc'[p][t] = pc[p][t]
      BY <2>1 DEF SetStatus, Goto, TypeOK, ConsumerTypeOK
    <2>4. LeaseRow(p, s).ckpt = status[p][s].ckpt
      BY DEF LeaseRow
    <2>5. cand'[p] = NoShard /\ loop'[p] = "select"
      BY <1>6, <2>1 DEF TypeOK
    <2>6. \A t \in Shard : NotEnded(p, t)'
      BY <1>1, <1>3, <2>2, <2>3, <2>4, <2>5 DEF NotEnded
    <2>7. Consumed(p)' \subseteq Consumed(p) \cup {s}
      BY <1>4, <2>1, <2>3 DEF Consumed
    <2>8. Cardinality(Consumed(p)') <= MaxLeases
      <3>. DEFINE old == Consumed(p)
                  new == Consumed(p)'
      <3>1. old \in SUBSET Shard /\ old \cup {s} \in SUBSET Shard /\ new \in SUBSET (old \cup {s})
        BY <2>1, <2>7, ConsumedType
      <3>2. Cardinality(old) < MaxLeases
        BY <2>1 DEF LimitInv, LimitAt
      <3>. HIDE DEF old, new
      <3>3. IsFiniteSet(old) /\ Cardinality(old) \in Nat
        BY <3>1, CountShards
      <3>4. Cardinality(old \cup {s}) <= Cardinality(old) + 1
        BY <3>3, FS_AddElement
      <3>5. /\ Cardinality(new) \in Nat /\ Cardinality(old \cup {s}) \in Nat
            /\ Cardinality(new) <= Cardinality(old \cup {s})
        BY <3>1, CountShards
      <3>6. Cardinality(new) <= MaxLeases
        BY <1>1, <3>2, <3>3, <3>4, <3>5
      <3>. QED
        BY <3>6 DEF new
    <2>. QED
      BY <2>5, <2>6, <2>8 DEF LimitAt
  <1>. QED
    BY <1>10, <1>11, <1>13, <1>14, <1>15, <1>16 DEF LoopStep

(* So do starting, shutting down and ending a process, and Kinesis itself.    *)
LEMMA LimitOtherStep ==
    ASSUME FiniteShards, TypeOK, LimitInv,
           \/ \E p \in Process : LifeStep(p)
           \/ ServiceStep
           \/ UNCHANGED vars
    PROVE  LimitInv'
PROOF
  <1>. USE DEF streamUnchanged, consumersUnchanged, streamVars, tableVars
  <1>1. ASSUME NEW q \in Process,
               UNCHANGED <<status[q], pc[q], cand[q], known[q]>>,
               loop'[q] \in {"scan", "get", "put"} => loop[q] \in {"scan", "get", "put"}
        PROVE  LimitAt(q)' /\ \A t \in Shard : NotEnded(q, t)'
    <2>1. Consumed(q)' \subseteq Consumed(q)
      BY <1>1 DEF Consumed
    <2>. QED
      BY <1>1, <2>1, LimitStays DEF LimitInv, NotEnded
  <1>2. ASSUME NEW p \in Process, LifeStep(p) PROVE LimitInv'
    <2>1. CASE StartProcess(p) \/ Shutdown(p)
      BY <1>1, <2>1 DEF StartProcess, Shutdown, GotoLoop, TypeOK, LimitInv
    <2>2. CASE EndProcess(p)
      <3>1. ASSUME NEW q \in Process, q # p PROVE LimitAt(q)' /\ \A t \in Shard : NotEnded(q, t)'
        BY <1>1, <2>2, <3>1 DEF EndProcess, TypeOK, ConsumerTypeOK
      <3>2. /\ loop'[p] = "off" /\ known'[p] = {}
            /\ \A t \in Shard : pc'[p][t] = "idle" /\ cand'[p] # t
        BY <2>2, LineageAssumption DEF EndProcess, TypeOK, ConsumerTypeOK
      <3>3. Consumed(p)' = {}
        BY <3>2 DEF Consumed
      <3>4. LimitAt(p)'
        BY <3>2, <3>3, FS_EmptySet, WorkerAssumption DEF LimitAt
      <3>5. \A t \in Shard : NotEnded(p, t)'
        BY <3>2 DEF NotEnded, Working, Reading, Offered
      <3>. QED
        BY <3>1, <3>4, <3>5 DEF LimitInv
    <2>. QED
      BY <1>2, <2>1, <2>2 DEF LifeStep
  <1>3. CASE ServiceStep
    BY <1>1, <1>3 DEF ServiceStep, consumerVars, workerVars, LimitInv
  <1>4. CASE UNCHANGED vars
    BY <1>1, <1>4 DEF vars, consumerVars, workerVars, LimitInv
  <1>. QED
    BY <1>2, <1>3, <1>4

(* With the worker id of the adapter a process never consumes more shards     *)
(* than MaxLeases, in the window between the count of the loop and the start  *)
(* of the consumer, with stale rows and after failed calls too.               *)
THEOREM LeaseLimitKept == SharedWorkerID /\ FiniteShards /\ Spec => []WithinLeaseLimit
PROOF
  <1>. SUFFICES ASSUME SharedWorkerID, FiniteShards PROVE Spec => []WithinLeaseLimit
    OBVIOUS
  <1>. DEFINE Inv == TypeOK /\ LoopInv /\ ConsumerInv /\ LimitInv
  <1>1. Inv /\ [Next]_vars => Inv'
    <2>1. TypeOK /\ LoopInv /\ ConsumerInv /\ LimitInv /\ [Next]_vars => LimitInv'
      BY LimitLoopStep, LimitConsumersStep, LimitOtherStep DEF Next
    <2>. QED
      BY <2>1, TypeStep, LoopInvStep, OwnershipStep
  <1>2. Init => Inv
    <2>1. ASSUME Init PROVE LimitInv
      <3>1. /\ \A p \in Process : known[p] = {} /\ loop[p] = "off"
            /\ \A p \in Process, s \in Shard : pc[p][s] = "idle" /\ cand[p] # s
        BY <2>1, LineageAssumption DEF Init, ConsumerInit
      <3>2. \A p \in Process : Consumed(p) = {}
        BY <3>1 DEF Consumed
      <3>3. ASSUME NEW p \in Process PROVE LimitAt(p)
        <4>1. Consumed(p) = {} /\ loop[p] = "off"
          BY <3>1, <3>2
        <4>. QED
          BY <4>1, FS_EmptySet, WorkerAssumption DEF LimitAt
      <3>. QED
        BY <3>1, <3>3 DEF LimitInv, NotEnded, Working, Reading, Offered
    <2>. QED
      BY <2>1, InitInv, InitOwnership
  <1>3. Inv => WithinLeaseLimit
    BY DEF LimitInv, LimitAt, Consumed, WithinLeaseLimit
  <1>. HIDE DEF Inv
  <1>. QED
    BY <1>1, <1>2, <1>3, PTL DEF Spec

=============================================================================
