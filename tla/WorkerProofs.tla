---------------------------- MODULE WorkerProofs ----------------------------
(* Proofs about Worker.tla, for every set of shards, processes and worker     *)
(* ids, every lineage and every value of the bounds.                          *)
EXTENDS Worker, TLAPS

-----------------------------------------------------------------------------
(* Types *)

(* The values a row is built from are of its type.                            *)
LEMMA RowType ==
    /\ NoRow \in Row
    /\ ShardEnd \in Checkpoint /\ NoCheckpoint \in Checkpoint /\ Nat \subseteq Checkpoint
BY DEF Row, NoRow, Checkpoint, ShardEnd, NoCheckpoint

(* FetchCheckpoint leaves a well-formed status.                               *)
LEMMA FetchedType ==
    ASSUME NEW row \in Row, NEW st \in Row
    PROVE  Fetched(row, st) \in Row
BY DEF Fetched, Row

(* A read of the table returns a row.                                         *)
LEMMA ReadableType ==
    ASSUME TableTypeOK, NEW s \in Shard, NEW row \in Readable(s)
    PROVE  row \in Row
BY DEF TableTypeOK, Readable

(* Records met by a consumer get one of the fates.                            *)
LEMMA MeetType ==
    ASSUME ConsumerTypeOK, NEW s \in Shard, NEW from, NEW to, NEW f \in Fates,
           Meet(s, from, to, f)
    PROVE  fate' \in [Shard -> [1..MaxHead -> Fates]]
BY DEF ConsumerTypeOK, Meet

(* Changing what a function of processes and shards holds for one pair.       *)
LEMMA UpdateType ==
    ASSUME NEW S, NEW f \in [Process -> [Shard -> S]],
           NEW p \in Process, NEW s \in Shard, NEW e \in S
    PROVE  [f EXCEPT ![p][s] = e] \in [Process -> [Shard -> S]]
OBVIOUS

(* A consumer only goes to its states.                                        *)
LEMMA GotoType ==
    ASSUME ConsumerTypeOK, NEW p \in Process, NEW s \in Shard,
           NEW state \in ConsumerStates, Goto(p, s, state)
    PROVE  pc' \in [Process -> [Shard -> ConsumerStates]]
BY UpdateType DEF ConsumerTypeOK, Goto

(* The status cached for a shard stays a row.                                 *)
LEMMA SetStatusType ==
    ASSUME ConsumerTypeOK, NEW p \in Process, NEW s \in Shard,
           NEW st \in Row, SetStatus(p, s, st)
    PROVE  status' \in [Process -> [Shard -> Row]]
BY UpdateType DEF ConsumerTypeOK, SetStatus

(* What GetLease remembers of its read keeps its type.                        *)
LEMMA SetLeaseType ==
    ASSUME ConsumerTypeOK, NEW p \in Process, NEW s \in Shard,
           NEW l \in [seen : Row, until : Nat], SetLease(p, s, l)
    PROVE  lease' \in [Process -> [Shard -> [seen : Row, until : Nat]]]
BY UpdateType DEF ConsumerTypeOK, SetLease

(* The row written by GetLease.                                               *)
LEMMA LeaseRowType ==
    ASSUME ConsumerTypeOK, NEW p \in Process, NEW s \in Shard
    PROVE  LeaseRow(p, s) \in Row
BY ConsumerAssumption DEF ConsumerTypeOK, LeaseRow, Row

(* What GetLease remembers is a row and a time.                               *)
LEMMA LeaseReadType ==
    ASSUME TableTypeOK, NEW row \in Row
    PROVE  LeaseRead(row) \in [seen : Row, until : Nat]
BY LeaseAssumption DEF TableTypeOK, LeaseRead

(* Writing a row keeps the type of the table.                                 *)
LEMMA PutRowType ==
    ASSUME TableTypeOK, NEW s \in Shard, NEW row \in Row, PutRow(s, row), clock' = clock
    PROVE  TableTypeOK'
BY DEF TableTypeOK, PutRow

(* A row with another checkpoint is a row.                                    *)
LEMMA CheckpointedType ==
    ASSUME ConsumerTypeOK, NEW p \in Process, NEW s \in Shard, NEW c \in Checkpoint
    PROVE  Checkpointed(p, s, c) \in Row
PROOF
  <1>1. status[p][s] \in Row
    BY DEF ConsumerTypeOK
  <1>. QED
    BY <1>1 DEF Checkpointed, Row

(* CheckpointSequence keeps the types of the table and of the cache.          *)
LEMMA WriteCheckpointType ==
    ASSUME TableTypeOK, ConsumerTypeOK, NEW p \in Process, NEW s \in Shard,
           NEW c \in Checkpoint, WriteCheckpoint(p, s, c), clock' = clock
    PROVE  TableTypeOK' /\ status' \in [Process -> [Shard -> Row]]
PROOF
  <1>1. status' \in [Process -> [Shard -> Row]]
    BY CheckpointedType, SetStatusType DEF WriteCheckpoint
  <1>2. TableTypeOK'
    BY CheckpointedType, PutRowType DEF WriteCheckpoint, CheckpointSequence, TableTypeOK
  <1>. QED
    BY <1>1, <1>2

(* A step of a consumer keeps the types of the table and of the consumers.    *)
LEMMA ConsumerStepType ==
    ASSUME StreamTypeOK, TableTypeOK, ConsumerTypeOK,
           NEW p \in Process, NEW s \in Shard, ConsumerStep(p, s)
    PROVE  StreamTypeOK' /\ TableTypeOK' /\ ConsumerTypeOK'
PROOF
  <1>. USE DEF streamUnchanged, positionUnchanged, streamVars, tableVars
  <1>a. \A state \in ConsumerStates :
           Goto(p, s, state) => pc' \in [Process -> [Shard -> ConsumerStates]]
    BY GotoType
  <1>b. status[p][s] \in Row
    BY DEF ConsumerTypeOK
  <1>c. \A n \in Nat :
           /\ [iter EXCEPT ![p][s] = n] \in [Process -> [Shard -> Nat]]
           /\ [last EXCEPT ![p][s] = n] \in [Process -> [Shard -> Nat]]
    BY UpdateType DEF ConsumerTypeOK
  <1>d. \A e \in BOOLEAN :
           [closing EXCEPT ![p][s] = e] \in [Process -> [Shard -> BOOLEAN]]
    BY UpdateType DEF ConsumerTypeOK
  <1>e. NoLease \in [seen : Row, until : Nat]
    BY RowType DEF NoLease
  <1>1. CASE ParentDone(p, s)
    BY <1>1, <1>a DEF ParentDone, StreamTypeOK, TableTypeOK, ConsumerTypeOK,
                      ConsumerStates, Reading, Offered
  <1>2. CASE ParentError(p, s)
    BY <1>2, <1>a DEF ParentError, StreamTypeOK, TableTypeOK, ConsumerTypeOK,
                      ConsumerStates, Reading, Offered
  <1>3. CASE FetchCheckpoint(p, s)
    <2>1. pc' \in [Process -> [Shard -> ConsumerStates]]
      BY <1>3, <1>a DEF FetchCheckpoint, ConsumerStates, Reading, Offered
    <2>2. status' \in [Process -> [Shard -> Row]]
      BY <1>3, <1>b, ReadableType, FetchedType, SetStatusType DEF FetchCheckpoint, ConsumerTypeOK
    <2>. QED
      BY <1>3, <2>1, <2>2 DEF FetchCheckpoint, StreamTypeOK, TableTypeOK, ConsumerTypeOK
  <1>4. CASE IteratorLatest(p, s)
    <2>1. pc' \in [Process -> [Shard -> ConsumerStates]]
      BY <1>4, <1>a DEF IteratorLatest, ConsumerStates, Reading, Offered
    <2>2. iter' \in [Process -> [Shard -> Nat]]
      BY <1>4, <1>c DEF IteratorLatest, StreamTypeOK
    <2>3. fate' \in [Shard -> [1..MaxHead -> Fates]]
      BY <1>4, MeetType DEF IteratorLatest, Fates
    <2>. QED
      BY <1>4, <2>1, <2>2, <2>3 DEF IteratorLatest, StreamTypeOK, TableTypeOK, ConsumerTypeOK
  <1>5. CASE IteratorAfterCheckpoint(p, s)
    <2>1. pc' \in [Process -> [Shard -> ConsumerStates]]
      BY <1>5, <1>a DEF IteratorAfterCheckpoint, ConsumerStates, Reading, Offered
    <2>2. iter' \in [Process -> [Shard -> Nat]]
      BY <1>5, <1>b, <1>c DEF IteratorAfterCheckpoint, Row, Checkpoint
    <2>. QED
      BY <1>5, <2>1, <2>2 DEF IteratorAfterCheckpoint, StreamTypeOK, TableTypeOK, ConsumerTypeOK
  <1>6. CASE IteratorError(p, s)
    BY <1>6, <1>a DEF IteratorError, StreamTypeOK, TableTypeOK, ConsumerTypeOK,
                      ConsumerStates, Reading, Offered
  <1>7. CASE RenewRead(p, s)
    <2>1. pc' \in [Process -> [Shard -> ConsumerStates]]
      BY <1>7, <1>a DEF RenewRead, ConsumerStates, Reading, Offered
    <2>2. lease' \in [Process -> [Shard -> [seen : Row, until : Nat]]]
      BY <1>7, ReadableType, LeaseReadType, SetLeaseType DEF RenewRead, ConsumerTypeOK
    <2>. QED
      BY <1>7, <2>1, <2>2 DEF RenewRead, StreamTypeOK, TableTypeOK, ConsumerTypeOK
  <1>8. CASE RenewWrite(p, s)
    <2>1. pc' \in [Process -> [Shard -> ConsumerStates]]
      BY <1>8, <1>a DEF RenewWrite, ConsumerStates, Reading, Offered
    <2>2. status' \in [Process -> [Shard -> Row]]
      BY <1>8, LeaseRowType, SetStatusType DEF RenewWrite
    <2>3. lease' \in [Process -> [Shard -> [seen : Row, until : Nat]]]
      BY <1>8, <1>e, SetLeaseType DEF RenewWrite
    <2>4. TableTypeOK'
      BY <1>8, LeaseRowType, PutRowType DEF RenewWrite
    <2>. QED
      BY <1>8, <2>1, <2>2, <2>3, <2>4 DEF RenewWrite, StreamTypeOK, TableTypeOK, ConsumerTypeOK
  <1>9. CASE RenewError(p, s)
    <2>1. pc' \in [Process -> [Shard -> ConsumerStates]]
      BY <1>9, <1>a DEF RenewError, ConsumerStates, Reading, Offered
    <2>2. lease' \in [Process -> [Shard -> [seen : Row, until : Nat]]]
      BY <1>9, <1>e, SetLeaseType DEF RenewError
    <2>3. TableTypeOK'
      BY <1>9, LeaseRowType, PutRowType DEF RenewError, TableTypeOK
    <2>. QED
      BY <1>9, <2>1, <2>2, <2>3 DEF RenewError, StreamTypeOK, TableTypeOK, ConsumerTypeOK
  <1>10. CASE GetRecords(p, s)
    <2>1. pc' \in [Process -> [Shard -> ConsumerStates]]
      BY <1>10, <1>a DEF GetRecords, ConsumerStates, Reading, Offered
    <2>2. last' \in [Process -> [Shard -> Nat]]
      BY <1>10, <1>c DEF GetRecords, StreamTypeOK, ConsumerTypeOK
    <2>3. closing' \in [Process -> [Shard -> BOOLEAN]]
      BY <1>10, <1>d DEF GetRecords
    <2>. QED
      BY <1>10, <2>1, <2>2, <2>3 DEF GetRecords, StreamTypeOK, TableTypeOK, ConsumerTypeOK
  <1>11. CASE GetRecordsError(p, s)
    BY <1>11, <1>a DEF GetRecordsError, StreamTypeOK, TableTypeOK, ConsumerTypeOK,
                      ConsumerStates, Reading, Offered
  <1>12. CASE PostMessage(p, s)
    <2>1. pc' \in [Process -> [Shard -> ConsumerStates]]
      BY <1>12, <1>a DEF PostMessage, ConsumerStates, Reading, Offered
    <2>2. fate' \in [Shard -> [1..MaxHead -> Fates]]
      BY <1>12, MeetType DEF PostMessage, Fates
    <2>. QED
      BY <1>12, <2>1, <2>2 DEF PostMessage, StreamTypeOK, TableTypeOK, ConsumerTypeOK
  <1>13. CASE ProcessRecordsCheckpoint(p, s)
    <2>1. pc' \in [Process -> [Shard -> ConsumerStates]]
      BY <1>13, <1>a DEF ProcessRecordsCheckpoint, ConsumerStates, Reading, Offered
    <2>2. last[p][s] \in Checkpoint
      BY RowType DEF ConsumerTypeOK
    <2>3. TableTypeOK' /\ status' \in [Process -> [Shard -> Row]]
      BY <1>13, <2>2, WriteCheckpointType DEF ProcessRecordsCheckpoint
    <2>. QED
      BY <1>13, <2>1, <2>2, <2>3 DEF ProcessRecordsCheckpoint, StreamTypeOK, TableTypeOK, ConsumerTypeOK
  <1>14. CASE ShardClosed(p, s)
    <2>1. pc' \in [Process -> [Shard -> ConsumerStates]]
      BY <1>14, <1>a DEF ShardClosed, ConsumerStates, Reading, Offered
    <2>2. TableTypeOK' /\ status' \in [Process -> [Shard -> Row]]
      BY <1>14, RowType, WriteCheckpointType DEF ShardClosed
    <2>. QED
      BY <1>14, <2>1, <2>2 DEF ShardClosed, StreamTypeOK, TableTypeOK, ConsumerTypeOK
  <1>15. CASE NextIterator(p, s)
    <2>1. pc' \in [Process -> [Shard -> ConsumerStates]]
      BY <1>15, <1>a DEF NextIterator, ConsumerStates, Reading, Offered
    <2>2. iter' \in [Process -> [Shard -> Nat]]
      BY <1>15, <1>c DEF NextIterator, ConsumerTypeOK
    <2>. QED
      BY <1>15, <2>1, <2>2 DEF NextIterator, StreamTypeOK, TableTypeOK, ConsumerTypeOK
  <1>16. CASE ReleaseLease(p, s)
    <2>1. pc' \in [Process -> [Shard -> ConsumerStates]]
      BY <1>16, <1>a DEF ReleaseLease, ConsumerStates, Reading, Offered
    <2>2. [status[p][s] EXCEPT !.owner = NoOwner] \in Row
      BY <1>b DEF Row
    <2>3. status' \in [Process -> [Shard -> Row]]
      BY <1>16, <2>2, SetStatusType DEF ReleaseLease
    <2>4. iter' \in [Process -> [Shard -> Nat]] /\ last' \in [Process -> [Shard -> Nat]]
      BY <1>16, <1>c DEF ReleaseLease
    <2>5. closing' \in [Process -> [Shard -> BOOLEAN]]
      BY <1>16, <1>d DEF ReleaseLease
    <2>. QED
      BY <1>16, <2>1, <2>2, <2>3, <2>4, <2>5 DEF ReleaseLease, StreamTypeOK, TableTypeOK, ConsumerTypeOK
  <1>. QED
    BY <1>1, <1>2, <1>3, <1>4, <1>5, <1>6, <1>7, <1>8,
       <1>9, <1>10, <1>11, <1>12, <1>13, <1>14, <1>15, <1>16 DEF ConsumerStep

(* A step of an event loop keeps the types.                                   *)
LEMMA AddShardsType ==
    ASSUME ConsumerTypeOK, NEW p \in Process, NEW new \in SUBSET Shard, AddShards(p, new)
    PROVE  status' \in [Process -> [Shard -> Row]]
PROOF
  <1>1. [s \in Shard |-> IF s \in new THEN NoRow ELSE status[p][s]] \in [Shard -> Row]
    BY RowType DEF ConsumerTypeOK
  <1>2. status' = [status EXCEPT ![p] =
                      [s \in Shard |-> IF s \in new THEN NoRow ELSE status[p][s]]]
    BY DEF AddShards, ConsumerTypeOK
  <1>. QED
    BY <1>1, <1>2 DEF ConsumerTypeOK

(* RemoveLeaseInfo keeps the type of the table.                               *)
LEMMA RemoveRowsType ==
    ASSUME TableTypeOK, NEW S, RemoveRows(S), clock' = clock
    PROVE  TableTypeOK'
BY RowType DEF TableTypeOK, RemoveRows

(* The event loop keeps every type.                                           *)
LEMMA LoopStepType ==
    ASSUME TypeOK, LoopInv, NEW p \in Process, LoopStep(p)
    PROVE  TypeOK'
PROOF
  <1>. USE DEF streamUnchanged, consumersUnchanged, streamVars, tableVars
  <1>a. \A S \in SUBSET Shard :
           /\ [known EXCEPT ![p] = S] \in [Process -> SUBSET Shard]
           /\ [todo EXCEPT ![p] = S] \in [Process -> SUBSET Shard]
    BY DEF TypeOK
  <1>b. \A state \in LoopStates : GotoLoop(p, state) => loop' \in [Process -> LoopStates]
    BY DEF TypeOK, GotoLoop
  <1>c. \A s \in Shard \cup {NoShard} :
           [cand EXCEPT ![p] = s] \in [Process -> Shard \cup {NoShard}]
    BY DEF TypeOK
  <1>d. Listed \in SUBSET Shard /\ known[p] \in SUBSET Shard /\ todo[p] \in SUBSET Shard
    BY DEF Listed, TypeOK
  <1>e. NoLease \in [seen : Row, until : Nat]
    BY RowType DEF NoLease
  <1>f. loop[p] \in {"get", "put"} => cand[p] \in Shard
    BY DEF LoopInv, TypeOK
  <1>1. CASE SyncShard(p)
    <2>1. status' \in [Process -> [Shard -> Row]]
      BY <1>1, <1>d, AddShardsType DEF SyncShard, TypeOK
    <2>2. TableTypeOK'
      <3>1. PICK removed : RemoveRows(removed)
        BY <1>1 DEF SyncShard
      <3>2. TableTypeOK /\ clock' = clock
        BY <1>1 DEF SyncShard, TypeOK
      <3>. QED
        BY <3>1, <3>2, RowType DEF RemoveRows, TableTypeOK
    <2>3. known' \in [Process -> SUBSET Shard] /\ todo' \in [Process -> SUBSET Shard]
      <3>1. /\ known' = [known EXCEPT ![p] = Listed]
            /\ todo' = [todo EXCEPT ![p] = Listed] \/ todo' = todo
        BY <1>1 DEF SyncShard
      <3>. QED
        BY <3>1, <1>a, <1>d DEF TypeOK
    <2>4. loop' \in [Process -> LoopStates]
      <3>1. GotoLoop(p, "scan") \/ GotoLoop(p, "select")
        BY <1>1 DEF SyncShard
      <3>. QED
        BY <3>1, <1>b DEF LoopStates
    <2>. QED
      BY <1>1, <2>1, <2>2, <2>3, <2>4 DEF SyncShard, TypeOK, StreamTypeOK, TableTypeOK, ConsumerTypeOK
  <1>2. CASE SyncShardError(p)
    <2>1. PICK found \in SUBSET (Listed \ known[p]) :
           AddShards(p, found) /\ known' = [known EXCEPT ![p] = @ \cup found]
      BY <1>2 DEF SyncShardError
    <2>2. status' \in [Process -> [Shard -> Row]]
      BY <2>1, <1>d, AddShardsType DEF TypeOK
    <2>3. known' \in [Process -> SUBSET Shard]
      BY <2>1, <1>a, <1>d DEF TypeOK
    <2>4. loop' \in [Process -> LoopStates]
      BY <1>2, <1>b DEF SyncShardError, LoopStates
    <2>. QED
      BY <1>2, <2>1, <2>2, <2>3, <2>4 DEF SyncShardError, TypeOK, StreamTypeOK, TableTypeOK, ConsumerTypeOK
  <1>3. ASSUME NEW s \in Shard, SkipOwned(p, s) PROVE TypeOK'
    <2>1. todo' \in [Process -> SUBSET Shard]
      BY <1>3, <1>a, <1>d DEF SkipOwned, Visited
    <2>. QED
      BY <1>3, <2>1 DEF SkipOwned, TypeOK, StreamTypeOK, TableTypeOK, ConsumerTypeOK
  <1>4. ASSUME NEW s \in Shard, FetchForLease(p, s) PROVE TypeOK'
    <2>1. todo' \in [Process -> SUBSET Shard]
      BY <1>4, <1>a, <1>d DEF FetchForLease, Visited
    <2>2. status[p][s] \in Row
      BY DEF TypeOK, ConsumerTypeOK
    <2>3. status' \in [Process -> [Shard -> Row]]
      BY <1>4, <2>2, ReadableType, FetchedType, SetStatusType DEF FetchForLease, TypeOK
    <2>4. loop' \in [Process -> LoopStates]
      BY <1>4, <1>b DEF FetchForLease, LoopStates, TypeOK
    <2>5. cand' \in [Process -> Shard \cup {NoShard}]
      BY <1>4, <1>c DEF FetchForLease, TypeOK
    <2>. QED
      BY <1>4, <2>1, <2>2, <2>3, <2>4, <2>5 DEF FetchForLease, TypeOK, StreamTypeOK, TableTypeOK, ConsumerTypeOK
  <1>5. ASSUME NEW s \in Shard, FetchForLeaseError(p, s) PROVE TypeOK'
    <2>1. todo' \in [Process -> SUBSET Shard]
      BY <1>5, <1>a, <1>d DEF FetchForLeaseError, Visited
    <2>. QED
      BY <1>5, <2>1 DEF FetchForLeaseError, TypeOK, StreamTypeOK, TableTypeOK, ConsumerTypeOK
  <1>6. CASE GetLeaseRead(p)
    <2>1. cand[p] \in Shard
      BY <1>6, <1>f DEF GetLeaseRead
    <2>2. lease' \in [Process -> [Shard -> [seen : Row, until : Nat]]]
      BY <1>6, <2>1, ReadableType, LeaseReadType, SetLeaseType DEF GetLeaseRead, TypeOK
    <2>3. loop' \in [Process -> LoopStates]
      BY <1>6, <1>b DEF GetLeaseRead, LoopStates
    <2>. QED
      BY <1>6, <2>1, <2>2, <2>3 DEF GetLeaseRead, TypeOK, StreamTypeOK, TableTypeOK, ConsumerTypeOK
  <1>7. CASE GetLeaseRefused(p)
    <2>1. loop' \in [Process -> LoopStates]
      BY <1>7, <1>b DEF GetLeaseRefused, LoopStates
    <2>2. cand' \in [Process -> Shard \cup {NoShard}]
      BY <1>7, <1>c DEF GetLeaseRefused
    <2>. QED
      BY <1>7, <2>1, <2>2 DEF GetLeaseRefused, TypeOK, StreamTypeOK, TableTypeOK, ConsumerTypeOK
  <1>8. CASE GetLeaseWrite(p)
    <2>1. cand[p] \in Shard
      BY <1>8, <1>f DEF GetLeaseWrite
    <2>2. LeaseRow(p, cand[p]) \in Row
      BY <2>1, LeaseRowType DEF TypeOK
    <2>3. status' \in [Process -> [Shard -> Row]]
      BY <1>8, <2>1, <2>2, SetStatusType DEF GetLeaseWrite, TypeOK
    <2>4. lease' \in [Process -> [Shard -> [seen : Row, until : Nat]]]
      BY <1>8, <2>1, <1>e, SetLeaseType DEF GetLeaseWrite, TypeOK
    <2>5. pc' \in [Process -> [Shard -> ConsumerStates]]
      BY <1>8, <2>1, GotoType DEF GetLeaseWrite, TypeOK, ConsumerStates
    <2>6. TableTypeOK'
      BY <1>8, <2>1, <2>2, PutRowType DEF GetLeaseWrite, TypeOK
    <2>7. loop' \in [Process -> LoopStates]
      BY <1>8, <1>b DEF GetLeaseWrite, LoopStates
    <2>8. cand' \in [Process -> Shard \cup {NoShard}] /\ todo' \in [Process -> SUBSET Shard]
      BY <1>8, <1>a, <1>c DEF GetLeaseWrite
    <2>. QED
      BY <1>8, <2>1, <2>2, <2>3, <2>4, <2>5, <2>6, <2>7, <2>8 DEF GetLeaseWrite, TypeOK, StreamTypeOK, TableTypeOK, ConsumerTypeOK
  <1>9. CASE GetLeaseWriteError(p)
    <2>1. cand[p] \in Shard
      BY <1>9, <1>f DEF GetLeaseWriteError
    <2>2. LeaseRow(p, cand[p]) \in Row
      BY <2>1, LeaseRowType DEF TypeOK
    <2>3. lease' \in [Process -> [Shard -> [seen : Row, until : Nat]]]
      BY <1>9, <2>1, <1>e, SetLeaseType DEF GetLeaseWriteError, TypeOK
    <2>4. TableTypeOK'
      BY <1>9, <2>1, <2>2, PutRowType DEF GetLeaseWriteError, TypeOK, TableTypeOK
    <2>5. loop' \in [Process -> LoopStates]
      BY <1>9, <1>b DEF GetLeaseWriteError, LoopStates
    <2>6. cand' \in [Process -> Shard \cup {NoShard}]
      BY <1>9, <1>c DEF GetLeaseWriteError
    <2>. QED
      BY <1>9, <2>1, <2>2, <2>3, <2>4, <2>5, <2>6 DEF GetLeaseWriteError, TypeOK, StreamTypeOK, TableTypeOK, ConsumerTypeOK
  <1>10. CASE ScanDone(p)
    <2>1. loop' \in [Process -> LoopStates]
      BY <1>10, <1>b DEF ScanDone, LoopStates
    <2>. QED
      BY <1>10, <2>1 DEF ScanDone, TypeOK, StreamTypeOK, TableTypeOK, ConsumerTypeOK
  <1>. QED
    BY <1>1, <1>2, <1>3, <1>4, <1>5, <1>6, <1>7, <1>8, <1>9, <1>10 DEF LoopStep

(* Starting, stopping and ending a process keeps every type.                  *)
LEMMA LifeStepType ==
    ASSUME TypeOK, NEW p \in Process, LifeStep(p)
    PROVE  TypeOK'
PROOF
  <1>. USE DEF streamUnchanged, consumersUnchanged, streamVars, tableVars
  <1>1. CASE StartProcess(p)
    BY <1>1, WorkerAssumption DEF StartProcess, GotoLoop, LoopStates, TypeOK,
       StreamTypeOK, TableTypeOK, ConsumerTypeOK
  <1>2. CASE Shutdown(p)
    BY <1>2 DEF Shutdown, GotoLoop, LoopStates, TypeOK,
       StreamTypeOK, TableTypeOK, ConsumerTypeOK
  <1>3. CASE EndProcess(p)
    <2>1. NoLease \in [seen : Row, until : Nat] /\ NoRow \in Row
      BY RowType DEF NoLease
    <2>. QED
      BY <1>3, <2>1 DEF EndProcess, LoopStates, ConsumerStates, TypeOK,
         StreamTypeOK, TableTypeOK, ConsumerTypeOK
  <1>. QED
    BY <1>1, <1>2, <1>3 DEF LifeStep

(* The stream, the replica and the clock keep every type.                     *)
LEMMA ServiceStepType ==
    ASSUME TypeOK, ServiceStep
    PROVE  TypeOK'
PROOF
  <1>. USE DEF TypeOK, StreamTypeOK, TableTypeOK, consumerVars, workerVars
  <1>1. StreamTypeOK'
    <2>1. ASSUME NEW s \in Shard, PutRecord(s) PROVE StreamTypeOK'
      BY <2>1, MaxHeadAssumption DEF PutRecord
    <2>2. ASSUME NEW s \in Shard, ExpireShard(s) PROVE StreamTypeOK'
      BY <2>2 DEF ExpireShard, Phases
    <2>3. ASSUME NEW P, Reshard(P) PROVE StreamTypeOK'
      BY <2>3 DEF Reshard, Phases
    <2>. QED
      BY <2>1, <2>2, <2>3 DEF ServiceStep, StreamNext, streamUnchanged, streamVars
  <1>2. TableTypeOK'
    BY LeaseAssumption DEF ServiceStep, Tick, Replicate, tableVars
  <1>. QED
    BY <1>1, <1>2 DEF ServiceStep, ConsumerTypeOK

(* The inductive step for the types and the bookkeeping of the loops.         *)
LEMMA TypeStep ==
    ASSUME TypeOK, LoopInv, [Next]_vars
    PROVE  TypeOK'
PROOF
  <1>1. ASSUME NEW p \in Process, ConsumersStep(p) PROVE TypeOK'
    <2>1. PICK s \in Shard : ConsumerStep(p, s)
      BY <1>1 DEF ConsumersStep
    <2>2. StreamTypeOK' /\ TableTypeOK' /\ ConsumerTypeOK'
      BY <2>1, ConsumerStepType DEF TypeOK
    <2>. QED
      BY <1>1, <2>2 DEF ConsumersStep, workerVars, TypeOK
  <1>2. CASE UNCHANGED vars
    BY <1>2 DEF vars, streamVars, tableVars, consumerVars, workerVars, TypeOK,
       StreamTypeOK, TableTypeOK, ConsumerTypeOK
  <1>. QED
    BY <1>1, <1>2, LoopStepType, LifeStepType, ServiceStepType DEF Next

-----------------------------------------------------------------------------
(* What no step undoes: records stay in the log and stay seen, and a shard    *)
(* goes through its phases in one direction.                                  *)
Grows ==
    /\ \A s \in Shard :
          /\ head[s] <= head'[s]
          /\ phase[s] \in {"closed", "gone"} =>
                phase'[s] \in {"closed", "gone"} /\ head'[s] = head[s]
          /\ phase[s] = "gone" => phase'[s] = "gone"
          /\ phase[s] # "future" => phase'[s] # "future"
    /\ \A s \in Shard, n \in 1..MaxHead : fate[s][n] # "unseen" => fate'[s][n] # "unseen"

(* The event loop touches neither the stream nor the position of a            *)
(* consumer.                                                                  *)
LEMMA LoopFrame ==
    ASSUME NEW p \in Process, LoopStep(p)
    PROVE  UNCHANGED <<phase, head, stop, iter, last, closing, fate>>
PROOF
  <1>. USE DEF streamUnchanged, consumersUnchanged, streamVars
  <1>. QED
    BY DEF LoopStep, SyncShard, SyncShardError, SkipOwned, FetchForLease,
       FetchForLeaseError, GetLeaseRead, GetLeaseRefused, GetLeaseWrite,
       GetLeaseWriteError, ScanDone

(* A consumer touches of the stream nothing but the fates of records.         *)
LEMMA ConsumerFrame ==
    ASSUME NEW p \in Process, NEW s \in Shard, ConsumerStep(p, s)
    PROVE  /\ UNCHANGED <<phase, head, stop, clock>>
           /\ \/ UNCHANGED fate
              \/ \E from, to, f : f # "unseen" /\ Meet(s, from, to, f)
PROOF
  <1>. USE DEF streamUnchanged, positionUnchanged, streamVars, tableVars
  <1>1. CASE IteratorLatest(p, s)
    BY <1>1 DEF IteratorLatest
  <1>2. CASE PostMessage(p, s)
    BY <1>2 DEF PostMessage
  <1>. QED
    BY <1>1, <1>2 DEF ConsumerStep, ParentDone, ParentError, FetchCheckpoint,
       IteratorAfterCheckpoint, IteratorError, RenewRead, RenewWrite, RenewError,
       GetRecords, GetRecordsError, ProcessRecordsCheckpoint, ShardClosed,
       NextIterator, ReleaseLease

(* Shards only get longer, and their phases only advance.                     *)
LEMMA StreamGrows ==
    ASSUME StreamTypeOK, StreamNext, UNCHANGED fate
    PROVE  Grows
PROOF
  <1>1. ASSUME NEW s \in Shard, PutRecord(s) PROVE Grows
    BY <1>1 DEF PutRecord, StreamTypeOK, Grows
  <1>2. ASSUME NEW s \in Shard, ExpireShard(s) PROVE Grows
    BY <1>2 DEF ExpireShard, StreamTypeOK, Grows
  <1>3. ASSUME NEW P, Reshard(P) PROVE Grows
    BY <1>3 DEF Reshard, Children, StreamTypeOK, Grows
  <1>. QED
    BY <1>1, <1>2, <1>3 DEF StreamNext

(* So does every step, and a record that was met stays met.                   *)
LEMMA StepGrows ==
    ASSUME TypeOK, [Next]_vars
    PROVE  Grows
PROOF
  <1>1. ASSUME UNCHANGED <<phase, head, fate>> PROVE Grows
    BY <1>1 DEF Grows, TypeOK, StreamTypeOK
  <1>2. ASSUME NEW p \in Process, LoopStep(p) PROVE Grows
    BY <1>1, <1>2, LoopFrame
  <1>3. ASSUME NEW p \in Process, ConsumersStep(p) PROVE Grows
    <2>1. PICK s \in Shard : ConsumerStep(p, s)
      BY <1>3 DEF ConsumersStep
    <2>2. UNCHANGED <<phase, head>>
      BY <2>1, ConsumerFrame
    <2>3. ASSUME NEW from, NEW to, NEW f, f # "unseen", Meet(s, from, to, f) PROVE Grows
      BY <2>2, <2>3 DEF Meet, Grows, TypeOK, StreamTypeOK, ConsumerTypeOK
    <2>. QED
      BY <1>1, <2>1, <2>2, <2>3, ConsumerFrame
  <1>4. ASSUME NEW p \in Process, LifeStep(p) PROVE Grows
    BY <1>1, <1>4 DEF LifeStep, StartProcess, Shutdown, EndProcess, streamUnchanged,
       consumersUnchanged, streamVars
  <1>5. CASE ServiceStep
    BY <1>1, <1>5, StreamGrows DEF ServiceStep, streamUnchanged, streamVars, consumerVars, TypeOK
  <1>6. CASE UNCHANGED vars
    BY <1>1, <1>6 DEF vars, streamVars, consumerVars
  <1>. QED
    BY <1>2, <1>3, <1>4, <1>5, <1>6 DEF Next

(* The bookkeeping of the loops is kept by every step.                        *)
LEMMA LoopInvStep ==
    ASSUME TypeOK, LoopInv, [Next]_vars
    PROVE  LoopInv'
PROOF
  <1>1. \A s \in Shard : phase[s] # "future" => phase'[s] # "future"
    BY StepGrows DEF Grows
  <1>2. \A s \in Shard : s \in Listed => phase[s] # "future"
    BY DEF Listed
  <1>3. ASSUME UNCHANGED <<known, loop, todo, cand>> PROVE LoopInv'
    BY <1>1, <1>3 DEF LoopInv, TypeOK
  <1>4. ASSUME NEW p \in Process, LoopStep(p) PROVE LoopInv'
    <2>. USE LineageAssumption DEF LoopInv, TypeOK, GotoLoop, Visited, LoopStates
    <2>a. Listed \subseteq Shard
      BY DEF Listed
    <2>1. CASE SyncShard(p)
      <3>1. /\ known' = [known EXCEPT ![p] = Listed]
            /\ todo' = [todo EXCEPT ![p] = Listed] \/ todo' = todo
            /\ loop[p] \in {"sync", "select"}
            /\ GotoLoop(p, "scan") \/ GotoLoop(p, "select")
            /\ cand' = cand
        BY <2>1 DEF SyncShard, RoundBegins
      <3>2. ASSUME NEW q \in Process, q # p
            PROVE  UNCHANGED <<known[q], todo[q], loop[q], cand[q]>>
        BY <3>1, <3>2
      <3>3. /\ known'[p] = Listed /\ cand'[p] = NoShard
            /\ \/ todo'[p] = Listed /\ loop'[p] = "scan"
               \/ todo'[p] = {} /\ loop'[p] = "select"
        <4>1. todo[p] = {} /\ cand[p] = NoShard /\ known'[p] = Listed /\ cand'[p] = cand[p]
          BY <3>1
        <4>2. \/ todo' = [todo EXCEPT ![p] = Listed] /\ GotoLoop(p, "scan")
              \/ todo' = todo /\ GotoLoop(p, "select")
          BY <2>1 DEF SyncShard
        <4>. QED
          BY <4>1, <4>2
      <3>. QED
        BY <1>1, <1>2, <2>a, <3>2, <3>3
    <2>2. CASE SyncShardError(p)
      <3>1. PICK found \in SUBSET Listed : known' = [known EXCEPT ![p] = @ \cup found]
        BY <2>2 DEF SyncShardError
      <3>2. loop[p] \in {"sync", "select"} /\ loop' = [loop EXCEPT ![p] = "sync"]
            /\ UNCHANGED <<todo, cand>>
        BY <2>2 DEF SyncShardError, RoundBegins
      <3>. QED
        BY <1>1, <1>2, <2>a, <3>1, <3>2
    <2>3. ASSUME NEW s \in Shard, SkipOwned(p, s) PROVE LoopInv'
      BY <1>1, <2>3 DEF SkipOwned
    <2>4. ASSUME NEW s \in Shard, FetchForLease(p, s) PROVE LoopInv'
      <3>1. /\ loop[p] = "scan" /\ s \in todo[p]
            /\ todo' = [todo EXCEPT ![p] = @ \ {s}] /\ known' = known
            /\ \/ UNCHANGED <<loop, cand>>
               \/ loop' = [loop EXCEPT ![p] = "get"] /\ cand' = [cand EXCEPT ![p] = s]
        BY <2>4 DEF FetchForLease
      <3>. QED
        BY <1>1, <3>1
    <2>5. ASSUME NEW s \in Shard, FetchForLeaseError(p, s) PROVE LoopInv'
      BY <1>1, <2>5 DEF FetchForLeaseError
    <2>6. CASE GetLeaseRead(p)
      BY <1>1, <2>6 DEF GetLeaseRead
    <2>7. CASE GetLeaseRefused(p)
      BY <1>1, <2>7 DEF GetLeaseRefused
    <2>8. CASE GetLeaseWrite(p)
      BY <1>1, <2>8 DEF GetLeaseWrite
    <2>9. CASE GetLeaseWriteError(p)
      BY <1>1, <2>9 DEF GetLeaseWriteError
    <2>10. CASE ScanDone(p)
      BY <1>1, <2>10 DEF ScanDone
    <2>. QED
      BY <1>4, <2>1, <2>2, <2>3, <2>4, <2>5, <2>6, <2>7, <2>8, <2>9, <2>10 DEF LoopStep
  <1>5. ASSUME NEW p \in Process, LifeStep(p) PROVE LoopInv'
    <2>. USE LineageAssumption DEF LoopInv, TypeOK, GotoLoop, LoopStates
    <2>1. CASE StartProcess(p)
      BY <1>1, <2>1 DEF StartProcess, Up
    <2>2. CASE Shutdown(p)
      BY <1>1, <2>2 DEF Shutdown
    <2>3. CASE EndProcess(p)
      BY <1>1, <2>3 DEF EndProcess
    <2>. QED
      BY <1>5, <2>1, <2>2, <2>3 DEF LifeStep
  <1>. QED
    BY <1>3, <1>4, <1>5 DEF Next, ConsumersStep, ServiceStep, vars, workerVars

-----------------------------------------------------------------------------
(* Coverage *)

(* Covered(s, c) in the state after a step, for a value c of any state.       *)
CoveredAfter(s, c) ==
    IF c = ShardEnd
    THEN phase'[s] \in {"closed", "gone"} /\ \A m \in 1..head'[s] : fate'[s][m] # "unseen"
    ELSE c <= head'[s] /\ \A m \in 1..c : fate'[s][m] # "unseen"

(* What is covered stays covered.                                             *)
LEMMA CoveredGrows ==
    ASSUME TypeOK, TypeOK', Grows, NEW s \in Shard, NEW c \in Checkpoint, Covered(s, c)
    PROVE  CoveredAfter(s, c)
PROOF
  <1>1. head[s] \in 0..MaxHead /\ head'[s] \in 0..MaxHead /\ head[s] <= head'[s]
    BY DEF Grows, TypeOK, StreamTypeOK
  <1>2. CASE c = ShardEnd
    BY <1>1, <1>2, MaxHeadAssumption DEF Covered, SeenUpTo, CoveredAfter, Grows
  <1>3. CASE c # ShardEnd
    <2>1. c \in Nat /\ c <= head[s] /\ \A m \in 1..c : fate[s][m] # "unseen"
      BY <1>3 DEF Checkpoint, Covered, SeenUpTo
    <2>2. \A m \in 1..c : m \in 1..MaxHead
      BY <1>1, <2>1, MaxHeadAssumption
    <2>. QED
      BY <1>1, <1>3, <2>1, <2>2, MaxHeadAssumption DEF CoveredAfter, Grows
  <1>. QED
    BY <1>2, <1>3

(* The checkpoints of rows and cached statuses are checkpoints.               *)
LEMMA CkptType ==
    ASSUME TypeOK
    PROVE  /\ \A s \in Shard : table[s].ckpt \in Checkpoint /\ replica[s].ckpt \in Checkpoint
           /\ \A p \in Process, s \in Shard : status[p][s].ckpt \in Checkpoint
           /\ NoCheckpoint \in Checkpoint
           /\ \A p \in Process, s \in Shard :
                 /\ iter[p][s] \in Nat /\ last[p][s] \in Nat
                 /\ iter[p][s] \in Checkpoint /\ last[p][s] \in Checkpoint
                 /\ iter[p][s] # ShardEnd /\ last[p][s] # ShardEnd
PROOF
  <1>1. \A row \in Row : row.ckpt \in Checkpoint
    BY DEF Row
  <1>2. /\ \A s \in Shard : table[s] \in Row /\ replica[s] \in Row
        /\ \A p \in Process, s \in Shard : status[p][s] \in Row
    BY DEF TypeOK, TableTypeOK, ConsumerTypeOK
  <1>3. \A p \in Process, s \in Shard : iter[p][s] \in Nat /\ last[p][s] \in Nat
    BY DEF TypeOK, ConsumerTypeOK
  <1>4. \A n \in Nat : n \in Checkpoint /\ n # ShardEnd
    BY RowType DEF ShardEnd
  <1>. QED
    BY <1>1, <1>2, <1>3, <1>4, RowType

(* Without a checkpoint nothing is claimed to be processed.                   *)
LEMMA NothingCovered ==
    ASSUME TypeOK', NEW s \in Shard
    PROVE  CoveredAfter(s, NoCheckpoint)
BY MaxHeadAssumption DEF CoveredAfter, NoCheckpoint, ShardEnd, TypeOK, StreamTypeOK

(* The invariant after a step, in terms of CoveredAfter.                      *)
PositionCoveredAfter(p, s) ==
    /\ pc'[p][s] \in Reading => CoveredAfter(s, iter'[p][s])
    /\ pc'[p][s] \in Offered => CoveredAfter(s, last'[p][s])
    /\ pc'[p][s] \in Holding => last'[p][s] <= head'[s]
    /\ pc'[p][s] \in Holding /\ closing'[p][s] =>
          phase'[s] \in {"closed", "gone"} /\ last'[p][s] = head'[s]

(* The invariant after a step follows from its parts after the step.          *)
LEMMA LossInvAfter ==
    ASSUME \A s \in Shard : CoveredAfter(s, table'[s].ckpt) /\ CoveredAfter(s, replica'[s].ckpt),
           \A p \in Process, s \in Shard : CoveredAfter(s, status'[p][s].ckpt),
           \A p \in Process, s \in Shard : PositionCoveredAfter(p, s)
    PROVE  LossInv'
BY DEF LossInv, TableCovered, CacheCovered, PositionCovered, PositionCoveredAfter,
       Covered, SeenUpTo, CoveredAfter

(* What the invariant says of the values before a step holds of them after.   *)
LEMMA StillCovered ==
    ASSUME TypeOK, TypeOK', LossInv, Grows
    PROVE  /\ \A s \in Shard : CoveredAfter(s, table[s].ckpt) /\ CoveredAfter(s, replica[s].ckpt)
           /\ \A p \in Process, s \in Shard :
                 /\ CoveredAfter(s, status[p][s].ckpt)
                 /\ pc[p][s] \in Reading => CoveredAfter(s, iter[p][s])
                 /\ pc[p][s] \in Offered => CoveredAfter(s, last[p][s])
                 /\ pc[p][s] \in Holding => last[p][s] <= head'[s]
                 /\ pc[p][s] \in Holding /\ closing[p][s] =>
                       phase'[s] \in {"closed", "gone"} /\ last[p][s] = head'[s]
PROOF
  <1>1. \A s \in Shard :
           head[s] \in 0..MaxHead /\ head'[s] \in 0..MaxHead /\ head[s] <= head'[s]
    BY DEF TypeOK, StreamTypeOK, Grows
  <1>2. \A s \in Shard : CoveredAfter(s, table[s].ckpt) /\ CoveredAfter(s, replica[s].ckpt)
    BY CkptType, CoveredGrows DEF LossInv, TableCovered
  <1>3. \A p \in Process, s \in Shard : CoveredAfter(s, status[p][s].ckpt)
    BY CkptType, CoveredGrows DEF LossInv, CacheCovered
  <1>4. \A p \in Process, s \in Shard :
           /\ pc[p][s] \in Reading => CoveredAfter(s, iter[p][s])
           /\ pc[p][s] \in Offered => CoveredAfter(s, last[p][s])
    BY CkptType, CoveredGrows DEF LossInv, PositionCovered
  <1>5. ASSUME NEW p \in Process, NEW s \in Shard
        PROVE  /\ pc[p][s] \in Holding => last[p][s] <= head'[s]
               /\ pc[p][s] \in Holding /\ closing[p][s] =>
                       phase'[s] \in {"closed", "gone"} /\ last[p][s] = head'[s]
    BY <1>1, CkptType, MaxHeadAssumption DEF LossInv, PositionCovered, Grows
  <1>. QED
    BY <1>2, <1>3, <1>4, <1>5

(* A step of a consumer touches nothing of another consumer, of its own row   *)
(* apart.                                                                     *)
LEMMA OthersUntouched ==
    ASSUME TypeOK, NEW p \in Process, NEW s \in Shard, ConsumerStep(p, s)
    PROVE  /\ \A t \in Shard : t # s => table'[t] = table[t]
           /\ replica' = replica
           /\ \A q \in Process, t \in Shard : <<q, t>> # <<p, s>> =>
                 UNCHANGED <<status[q][t], pc[q][t], iter[q][t], last[q][t], closing[q][t]>>
PROOF
  <1>. USE DEF streamUnchanged, positionUnchanged, streamVars, tableVars, Goto, SetStatus,
           PutRow, WriteCheckpoint, CheckpointSequence,
           TypeOK, TableTypeOK, ConsumerTypeOK
  <1>1. CASE ParentDone(p, s)
    BY <1>1 DEF ParentDone
  <1>2. CASE ParentError(p, s)
    BY <1>2 DEF ParentError
  <1>3. CASE FetchCheckpoint(p, s)
    BY <1>3, SMTT(30) DEF FetchCheckpoint
  <1>4. CASE IteratorLatest(p, s)
    BY <1>4 DEF IteratorLatest
  <1>5. CASE IteratorAfterCheckpoint(p, s)
    BY <1>5 DEF IteratorAfterCheckpoint
  <1>6. CASE IteratorError(p, s)
    BY <1>6 DEF IteratorError
  <1>7. CASE RenewRead(p, s)
    BY <1>7, SMTT(30) DEF RenewRead
  <1>8. CASE RenewWrite(p, s)
    BY <1>8, SMTT(30) DEF RenewWrite
  <1>9. CASE RenewError(p, s)
    BY <1>9, SMTT(30) DEF RenewError
  <1>10. CASE GetRecords(p, s)
    BY <1>10, SMTT(30) DEF GetRecords
  <1>11. CASE GetRecordsError(p, s)
    BY <1>11, SMTT(30) DEF GetRecordsError
  <1>12. CASE PostMessage(p, s)
    BY <1>12, SMTT(30) DEF PostMessage
  <1>13. CASE ProcessRecordsCheckpoint(p, s)
    BY <1>13, SMTT(30) DEF ProcessRecordsCheckpoint
  <1>14. CASE ShardClosed(p, s)
    BY <1>14, SMTT(30) DEF ShardClosed
  <1>15. CASE NextIterator(p, s)
    BY <1>15, SMTT(30) DEF NextIterator
  <1>16. CASE ReleaseLease(p, s)
    BY <1>16 DEF ReleaseLease
  <1>. QED
    BY <1>1, <1>2, <1>3, <1>4, <1>5, <1>6, <1>7, <1>8,
       <1>9, <1>10, <1>11, <1>12, <1>13, <1>14, <1>15, <1>16 DEF ConsumerStep

(* The consumer's own row, cache and position after its step.                 *)
OwnCoveredAfter(p, s) ==
    /\ CoveredAfter(s, table'[s].ckpt)
    /\ CoveredAfter(s, status'[p][s].ckpt)
    /\ PositionCoveredAfter(p, s)

(* A consumer's step only has to be looked at where it acts.                  *)
LEMMA OwnCoveredSuffices ==
    ASSUME TypeOK, TypeOK', LossInv, Grows,
           NEW p \in Process, NEW s \in Shard, ConsumerStep(p, s), OwnCoveredAfter(p, s)
    PROVE  LossInv'
PROOF
  <1>1. \A t \in Shard : CoveredAfter(t, table'[t].ckpt) /\ CoveredAfter(t, replica'[t].ckpt)
    BY StillCovered, OthersUntouched DEF OwnCoveredAfter
  <1>2. \A q \in Process, t \in Shard :
           CoveredAfter(t, status'[q][t].ckpt) /\ PositionCoveredAfter(q, t)
    <2>1. ASSUME NEW q \in Process, NEW t \in Shard, <<q, t>> # <<p, s>>
          PROVE  CoveredAfter(t, status'[q][t].ckpt) /\ PositionCoveredAfter(q, t)
      BY <2>1, StillCovered, OthersUntouched DEF PositionCoveredAfter
    <2>. QED
      BY <2>1 DEF OwnCoveredAfter
  <1>. QED
    BY <1>1, <1>2, LossInvAfter

(* FetchCheckpoint takes its checkpoint from the row or from the cache.       *)
LEMMA FetchedCkpt ==
    ASSUME NEW row, NEW st
    PROVE  Fetched(row, st).ckpt \in {row.ckpt, st.ckpt}
PROOF
  <1>1. CASE row.ckpt = NoCheckpoint
    BY <1>1 DEF Fetched
  <1>2. CASE row.ckpt # NoCheckpoint
    BY <1>2 DEF Fetched
  <1>. QED
    BY <1>1, <1>2

(* After its step the consumer holds, and has written, only what is covered.  *)
LEMMA OwnCoveredStep ==
    ASSUME TypeOK, TypeOK', LossInv, Grows,
           NEW p \in Process, NEW s \in Shard, ConsumerStep(p, s)
    PROVE  OwnCoveredAfter(p, s)
PROOF
  <1>. USE DEF streamUnchanged, positionUnchanged, streamVars, tableVars
  <1>a. /\ CoveredAfter(s, table[s].ckpt) /\ CoveredAfter(s, replica[s].ckpt)
        /\ CoveredAfter(s, status[p][s].ckpt)
        /\ pc[p][s] \in Reading => CoveredAfter(s, iter[p][s])
        /\ pc[p][s] \in Offered => CoveredAfter(s, last[p][s])
        /\ pc[p][s] \in Holding => last[p][s] <= head'[s]
        /\ pc[p][s] \in Holding /\ closing[p][s] =>
              phase'[s] \in {"closed", "gone"} /\ last[p][s] = head'[s]
    BY StillCovered
  <1>b. \A state : Goto(p, s, state) => pc'[p][s] = state
    BY DEF Goto, TypeOK, ConsumerTypeOK
  <1>c. \A st : SetStatus(p, s, st) => status'[p][s] = st
    BY DEF SetStatus, TypeOK, ConsumerTypeOK
  <1>d. \A row : PutRow(s, row) => table'[s] = row
    BY DEF PutRow, TypeOK, TableTypeOK
  <1>e. /\ \A n : iter' = [iter EXCEPT ![p][s] = n] => iter'[p][s] = n
        /\ \A n : last' = [last EXCEPT ![p][s] = n] => last'[p][s] = n
        /\ \A e : closing' = [closing EXCEPT ![p][s] = e] => closing'[p][s] = e
    BY DEF TypeOK, ConsumerTypeOK
  <1>f. head'[s] = head[s] /\ phase'[s] = phase[s]
    BY ConsumerFrame
  <1>1. CASE ParentDone(p, s)
    BY <1>1, <1>a, <1>b DEF ParentDone, OwnCoveredAfter, PositionCoveredAfter, Reading, Offered, Holding
  <1>2. CASE ParentError(p, s)
    BY <1>2, <1>a, <1>b DEF ParentError, OwnCoveredAfter, PositionCoveredAfter, Reading, Offered, Holding
  <1>3. CASE FetchCheckpoint(p, s)
    <2>1. status'[p][s] = status[p][s] \/ \E row \in Readable(s) : status'[p][s] = Fetched(row, status[p][s])
      BY <1>3, <1>c DEF FetchCheckpoint
    <2>2. \A row \in Readable(s) : CoveredAfter(s, Fetched(row, status[p][s]).ckpt)
      BY <1>a, FetchedCkpt DEF Readable
    <2>3. CoveredAfter(s, status'[p][s].ckpt)
      BY <2>1, <2>2, <1>a
    <2>4. table' = table /\ pc'[p][s] \in {"iter", "release"}
      BY <1>3, <1>b DEF FetchCheckpoint
    <2>. QED
      BY <1>3, <1>a, <2>1, <2>2, <2>3, <2>4 DEF FetchCheckpoint, OwnCoveredAfter, PositionCoveredAfter, Reading, Offered, Holding
  <1>4. CASE IteratorLatest(p, s)
    <2>1. iter'[p][s] = head[s] /\ pc'[p][s] = "poll"
      BY <1>4, <1>b, <1>e DEF IteratorLatest
    <2>2. \A n \in 1..head[s] : fate'[s][n] # "unseen"
      BY <1>4, MaxHeadAssumption DEF IteratorLatest, Meet, Better, TypeOK, StreamTypeOK, ConsumerTypeOK, Fates
    <2>3. CoveredAfter(s, iter'[p][s])
      BY <2>1, <2>2, <1>f, MaxHeadAssumption DEF CoveredAfter, ShardEnd, TypeOK, StreamTypeOK
    <2>. QED
      BY <1>4, <1>a, <2>1, <2>2, <2>3 DEF IteratorLatest, OwnCoveredAfter, PositionCoveredAfter, Reading, Offered, Holding
  <1>5. CASE IteratorAfterCheckpoint(p, s)
    <2>1. iter'[p][s] = status[p][s].ckpt /\ pc'[p][s] = "poll"
      BY <1>5, <1>b, <1>e DEF IteratorAfterCheckpoint
    <2>. QED
      BY <1>5, <1>a, <2>1 DEF IteratorAfterCheckpoint, OwnCoveredAfter, PositionCoveredAfter, Reading, Offered, Holding
  <1>6. CASE IteratorError(p, s)
    BY <1>6, <1>a, <1>b DEF IteratorError, OwnCoveredAfter, PositionCoveredAfter, Reading, Offered, Holding
  <1>7. CASE RenewRead(p, s)
    BY <1>7, <1>a, <1>b DEF RenewRead, OwnCoveredAfter, PositionCoveredAfter, Reading, Offered, Holding
  <1>8. CASE RenewWrite(p, s)
    <2>1. table'[s] = LeaseRow(p, s) /\ status'[p][s] = LeaseRow(p, s)
      BY <1>8, <1>c, <1>d DEF RenewWrite
    <2>2. LeaseRow(p, s).ckpt = status[p][s].ckpt
      BY DEF LeaseRow
    <2>. QED
      BY <1>8, <1>a, <1>b, <2>1, <2>2 DEF RenewWrite, OwnCoveredAfter, PositionCoveredAfter, Reading, Offered, Holding
  <1>9. CASE RenewError(p, s)
    <2>1. table'[s] = table[s] \/ table'[s] = LeaseRow(p, s)
      BY <1>9, <1>d DEF RenewError
    <2>2. LeaseRow(p, s).ckpt = status[p][s].ckpt
      BY DEF LeaseRow
    <2>. QED
      BY <1>9, <1>a, <1>b, <2>1, <2>2 DEF RenewError, OwnCoveredAfter, PositionCoveredAfter, Reading, Offered, Holding
  <1>10. CASE GetRecords(p, s)
    <2>1. PICK to \in iter[p][s]..head[s], end \in BOOLEAN :
             /\ end => phase[s] = "closed" /\ to = head[s]
             /\ last' = [last EXCEPT ![p][s] = to]
             /\ closing' = [closing EXCEPT ![p][s] = end]
             /\ Goto(p, s, IF to = iter[p][s] THEN "next" ELSE "post")
      BY <1>10 DEF GetRecords
    <2>2. /\ last'[p][s] = to /\ closing'[p][s] = end /\ iter'[p][s] = iter[p][s]
          /\ pc'[p][s] = IF to = iter[p][s] THEN "next" ELSE "post"
      BY <1>10, <2>1, <1>b, <1>e DEF GetRecords
    <2>3. to <= head'[s] /\ CoveredAfter(s, iter[p][s])
      BY <1>10, <1>a, <1>f DEF GetRecords, Reading
    <2>4. PositionCoveredAfter(p, s)
      BY <2>1, <2>2, <2>3, <1>f DEF PositionCoveredAfter, Reading, Offered, Holding
    <2>. QED
      BY <1>10, <1>a, <2>4 DEF GetRecords, OwnCoveredAfter
  <1>11. CASE GetRecordsError(p, s)
    BY <1>11, <1>a, <1>b DEF GetRecordsError, OwnCoveredAfter, PositionCoveredAfter, Reading, Offered, Holding
  <1>12. CASE PostMessage(p, s)
    <2>1. PICK f \in {"refused", "delivered"} : Meet(s, iter[p][s] + 1, last[p][s], f)
      BY <1>12 DEF PostMessage
    <2>2. CoveredAfter(s, iter[p][s]) /\ last[p][s] <= head'[s]
      BY <1>12, <1>a DEF PostMessage, Reading, Holding
    <2>3. /\ iter[p][s] \in Nat /\ last[p][s] \in Nat /\ head[s] \in 0..MaxHead
          /\ iter[p][s] # ShardEnd /\ last[p][s] # ShardEnd
      BY CkptType DEF TypeOK, StreamTypeOK
    <2>4. ASSUME NEW m \in 1..last[p][s] PROVE fate'[s][m] # "unseen"
      <3>1. m \in 1..MaxHead
        BY <2>2, <2>3, <1>f, MaxHeadAssumption
      <3>2. CASE m <= iter[p][s]
        BY <2>2, <2>3, <3>2 DEF CoveredAfter
      <3>3. CASE m > iter[p][s]
        <4>1. m \in (iter[p][s] + 1)..last[p][s]
          BY <2>3, <3>3
        <4>. QED
          BY <2>1, <3>1, <4>1 DEF Meet, Better, TypeOK, ConsumerTypeOK, Fates
      <3>. QED
        BY <2>3, <3>2, <3>3
    <2>5. CoveredAfter(s, last[p][s])
      BY <2>2, <2>3, <2>4 DEF CoveredAfter
    <2>. QED
      BY <1>12, <1>a, <1>b, <2>5 DEF PostMessage, OwnCoveredAfter, PositionCoveredAfter,
         Reading, Offered, Holding
  <1>g. ASSUME NEW c, CoveredAfter(s, c), WriteCheckpoint(p, s, c)
        PROVE  CoveredAfter(s, table'[s].ckpt) /\ CoveredAfter(s, status'[p][s].ckpt)
    <2>1. status[p][s] \in Row
      BY DEF TypeOK, ConsumerTypeOK
    <2>2. Checkpointed(p, s, c).ckpt = c
      BY <2>1 DEF Checkpointed, Row
    <2>. QED
      BY <1>g, <1>a, <1>c, <1>d, <2>2 DEF WriteCheckpoint, CheckpointSequence
  <1>13. CASE ProcessRecordsCheckpoint(p, s)
    BY <1>13, <1>a, <1>b, <1>g DEF ProcessRecordsCheckpoint, OwnCoveredAfter, PositionCoveredAfter, Reading, Offered, Holding
  <1>14. CASE ShardClosed(p, s)
    <2>1. phase'[s] \in {"closed", "gone"} /\ last[p][s] = head'[s] /\ CoveredAfter(s, last[p][s])
      BY <1>14, <1>a DEF ShardClosed, Offered, Holding
    <2>2. CoveredAfter(s, ShardEnd)
      BY <2>1, CkptType DEF CoveredAfter
    <2>. QED
      BY <1>14, <1>b, <1>g, <2>2 DEF ShardClosed, OwnCoveredAfter, PositionCoveredAfter,
         Reading, Offered, Holding
  <1>15. CASE NextIterator(p, s)
    <2>1. iter'[p][s] = last[p][s] /\ pc'[p][s] \in {"poll", "release"}
      BY <1>15, <1>b, <1>e DEF NextIterator
    <2>. QED
      BY <1>15, <1>a, <2>1 DEF NextIterator, OwnCoveredAfter, PositionCoveredAfter, Reading, Offered, Holding
  <1>16. CASE ReleaseLease(p, s)
    <2>1. status[p][s] \in Row
      BY DEF TypeOK, ConsumerTypeOK
    <2>2. [status[p][s] EXCEPT !.owner = NoOwner].ckpt = status[p][s].ckpt
      BY <2>1 DEF Row
    <2>3. status'[p][s].ckpt = status[p][s].ckpt
      BY <1>16, <1>c, <2>2 DEF ReleaseLease
    <2>. QED
      BY <1>16, <1>a, <1>b, <2>3 DEF ReleaseLease, OwnCoveredAfter, PositionCoveredAfter,
         Reading, Offered, Holding
  <1>. QED
    BY <1>1, <1>2, <1>3, <1>4, <1>5, <1>6, <1>7, <1>8,
       <1>9, <1>10, <1>11, <1>12, <1>13, <1>14, <1>15, <1>16 DEF ConsumerStep

(* A step of an event loop moves no checkpoint but by copying a covered one.  *)
LEMMA LossLoopStep ==
    ASSUME TypeOK, TypeOK', LoopInv, LossInv, Grows, NEW p \in Process, LoopStep(p)
    PROVE  LossInv'
PROOF
  <1>. USE DEF streamUnchanged, consumersUnchanged, streamVars, tableVars
  <1>a. CoveredAfter(cand[p], LeaseRow(p, cand[p]).ckpt) \/ cand[p] = NoShard
    BY StillCovered DEF LeaseRow, TypeOK
  <1>1. \A t \in Shard : CoveredAfter(t, table'[t].ckpt) /\ CoveredAfter(t, replica'[t].ckpt)
    <2>1. ASSUME NEW R, RemoveRows(R) PROVE <1>1
      <3>1. NoRow.ckpt = NoCheckpoint
        BY DEF NoRow
      <3>2. \A t \in Shard : table'[t] = NoRow \/ table'[t] = table[t]
        BY <2>1 DEF RemoveRows
      <3>. QED
        BY <2>1, <3>1, <3>2, StillCovered, NothingCovered DEF RemoveRows
    <2>2. ASSUME UNCHANGED <<table, replica>> PROVE <1>1
      BY <2>2, StillCovered
    <2>3. ASSUME PutRow(cand[p], LeaseRow(p, cand[p])), cand[p] # NoShard PROVE <1>1
      <3>1. replica' = replica
            /\ \A t \in Shard : table'[t] = IF t = cand[p] THEN LeaseRow(p, cand[p]) ELSE table[t]
        BY <2>3 DEF PutRow, TypeOK, TableTypeOK
      <3>. QED
        BY <2>3, <3>1, <1>a, StillCovered
    <2>4. CASE SyncShard(p)
      BY <2>4, <2>1 DEF SyncShard
    <2>5. CASE GetLeaseWrite(p)
      BY <2>5, <2>3 DEF GetLeaseWrite, LoopInv
    <2>6. CASE GetLeaseWriteError(p)
      BY <2>6, <2>2, <2>3 DEF GetLeaseWriteError, LoopInv
    <2>. QED
      BY <2>2, <2>4, <2>5, <2>6 DEF LoopStep, SyncShardError, SkipOwned, FetchForLease,
         FetchForLeaseError, GetLeaseRead, GetLeaseRefused, ScanDone
  <1>2. \A q \in Process, t \in Shard : CoveredAfter(t, status'[q][t].ckpt)
    <2>1. ASSUME NEW new, AddShards(p, new) PROVE <1>2
      <3>1. NoRow.ckpt = NoCheckpoint
        BY DEF NoRow
      <3>2. status' = [status EXCEPT ![p] =
                          [s \in Shard |-> IF s \in new THEN NoRow ELSE status[p][s]]]
        BY <2>1 DEF AddShards
      <3>3. status \in [Process -> [Shard -> Row]]
        BY DEF TypeOK, ConsumerTypeOK
      <3>4. \A q \in Process, t \in Shard :
               status'[q][t] = NoRow \/ status'[q][t] = status[q][t]
        BY <3>2, <3>3
      <3>. QED
        BY <3>1, <3>4, StillCovered, NothingCovered
    <2>2. ASSUME UNCHANGED status PROVE <1>2
      BY <2>2, StillCovered
    <2>3. ASSUME NEW s \in Shard, NEW st, SetStatus(p, s, st), CoveredAfter(s, st.ckpt)
          PROVE  <1>2
      <3>1. \A q \in Process, t \in Shard :
               status'[q][t] = IF q = p /\ t = s THEN st ELSE status[q][t]
        <4>1. status' = [status EXCEPT ![p][s] = st] /\ status \in [Process -> [Shard -> Row]]
          BY <2>3 DEF SetStatus, TypeOK, ConsumerTypeOK
        <4>. QED
          BY <4>1
      <3>. QED
        BY <2>3, <3>1, StillCovered
    <2>4. ASSUME NEW s \in Shard, FetchForLease(p, s) PROVE <1>2
      <3>1. PICK row \in Readable(s) : SetStatus(p, s, Fetched(row, status[p][s]))
        BY <2>4 DEF FetchForLease
      <3>2. CoveredAfter(s, Fetched(row, status[p][s]).ckpt)
        BY FetchedCkpt, StillCovered DEF Readable
      <3>. QED
        BY <2>3, <3>1, <3>2
    <2>5. CASE GetLeaseWrite(p)
      <3>1. cand[p] \in Shard /\ SetStatus(p, cand[p], LeaseRow(p, cand[p]))
        BY <2>5 DEF GetLeaseWrite, LoopInv, TypeOK
      <3>. QED
        BY <2>3, <3>1, <1>a, LineageAssumption
    <2>6. CASE SyncShard(p)
      BY <2>1, <2>6 DEF SyncShard
    <2>7. CASE SyncShardError(p)
      BY <2>1, <2>7 DEF SyncShardError
    <2>. QED
      BY <2>2, <2>4, <2>5, <2>6, <2>7 DEF LoopStep, SkipOwned, FetchForLeaseError,
         GetLeaseRead, GetLeaseRefused, GetLeaseWriteError, ScanDone
  <1>3. \A q \in Process, t \in Shard :
           /\ pc'[q][t] = pc[q][t] \/ pc'[q][t] = "parent"
           /\ iter'[q][t] = iter[q][t]
           /\ last'[q][t] = last[q][t]
           /\ closing'[q][t] = closing[q][t]
    <2>1. UNCHANGED pc \/ (cand[p] \in Shard /\ Goto(p, cand[p], "parent"))
      BY DEF LoopStep, SyncShard, SyncShardError, SkipOwned, FetchForLease, FetchForLeaseError,
         GetLeaseRead, GetLeaseRefused, GetLeaseWrite, GetLeaseWriteError, ScanDone, LoopInv, TypeOK
    <2>2. UNCHANGED <<iter, last, closing>>
      BY LoopFrame
    <2>3. \A q \in Process, t \in Shard : pc'[q][t] = pc[q][t] \/ pc'[q][t] = "parent"
      <3>1. CASE pc' = pc
        BY <3>1
      <3>2. CASE pc' = [pc EXCEPT ![p][cand[p]] = "parent"]
        <4>1. pc \in [Process -> [Shard -> ConsumerStates]]
          BY DEF TypeOK, ConsumerTypeOK
        <4>. QED
          BY <3>2, <4>1
      <3>. QED
        BY <2>1, <3>1, <3>2 DEF Goto
    <2>4. iter' = iter /\ last' = last /\ closing' = closing
      BY <2>2
    <2>. QED
      BY <2>3, <2>4
  <1>4. \A q \in Process, t \in Shard : PositionCoveredAfter(q, t)
    BY <1>3, StillCovered DEF PositionCoveredAfter, Reading, Offered, Holding
  <1>. QED
    BY <1>1, <1>2, <1>4, LossInvAfter

(* Starting, stopping and ending a process keeps the invariant.               *)
LEMMA LossLifeStep ==
    ASSUME TypeOK, TypeOK', LossInv, Grows, NEW p \in Process, LifeStep(p)
    PROVE  LossInv'
PROOF
  <1>. USE DEF streamUnchanged, consumersUnchanged, streamVars, tableVars
  <1>1. UNCHANGED <<table, replica>>
    BY DEF LifeStep, StartProcess, Shutdown, EndProcess
  <1>2. ASSUME NEW q \in Process, NEW t \in Shard
        PROVE  \/ UNCHANGED <<status[q][t], pc[q][t], iter[q][t], last[q][t], closing[q][t]>>
               \/ status'[q][t] = NoRow /\ pc'[q][t] = "idle"
    <2>1. CASE StartProcess(p)
      BY <2>1 DEF StartProcess
    <2>2. CASE Shutdown(p)
      BY <2>2 DEF Shutdown
    <2>3. CASE EndProcess(p)
      <3>1. /\ status' = [status EXCEPT ![p] = [s \in Shard |-> NoRow]]
            /\ pc' = [pc EXCEPT ![p] = [s \in Shard |-> "idle"]]
            /\ iter' = [iter EXCEPT ![p] = [s \in Shard |-> 0]]
            /\ last' = [last EXCEPT ![p] = [s \in Shard |-> 0]]
            /\ closing' = [closing EXCEPT ![p] = [s \in Shard |-> FALSE]]
        BY <2>3 DEF EndProcess
      <3>2. CASE q = p
        BY <3>1, <3>2 DEF TypeOK, ConsumerTypeOK
      <3>3. CASE q # p
        BY <3>1, <3>3 DEF TypeOK, ConsumerTypeOK
      <3>. QED
        BY <3>2, <3>3
    <2>. QED
      BY <2>1, <2>2, <2>3 DEF LifeStep
  <1>3. NoRow.ckpt = NoCheckpoint
    BY DEF NoRow
  <1>4. \A q \in Process, t \in Shard : CoveredAfter(t, status'[q][t].ckpt)
    BY <1>2, <1>3, StillCovered, NothingCovered
  <1>5. \A q \in Process, t \in Shard : PositionCoveredAfter(q, t)
    BY <1>2, StillCovered DEF PositionCoveredAfter, Reading, Offered, Holding
  <1>. QED
    BY <1>1, <1>4, <1>5, StillCovered, LossInvAfter

(* The inductive step of the coverage invariant.                              *)
LEMMA LossInvStep ==
    ASSUME TypeOK, TypeOK', LoopInv, LossInv, [Next]_vars
    PROVE  LossInv'
PROOF
  <1>1. Grows
    BY StepGrows
  <1>2. ASSUME UNCHANGED <<table, status, pc, iter, last, closing>>,
               \A t \in Shard : replica'[t] = replica[t] \/ replica'[t] = table[t]
        PROVE  LossInv'
    BY <1>1, <1>2, StillCovered, LossInvAfter DEF PositionCoveredAfter
  <1>3. ASSUME NEW p \in Process, ConsumersStep(p) PROVE LossInv'
    BY <1>1, <1>3, OwnCoveredStep, OwnCoveredSuffices DEF ConsumersStep
  <1>4. CASE ServiceStep
    <2>1. \A t \in Shard : replica'[t] = replica[t] \/ replica'[t] = table[t]
      BY <1>4 DEF ServiceStep, Tick, Replicate, tableVars, TypeOK, TableTypeOK
    <2>2. UNCHANGED <<table, status, pc, iter, last, closing>>
      BY <1>4 DEF ServiceStep, Tick, Replicate, tableVars, consumerVars
    <2>. QED
      BY <1>2, <2>1, <2>2
  <1>5. CASE UNCHANGED vars
    BY <1>2, <1>5 DEF vars, tableVars, consumerVars
  <1>. QED
    BY <1>1, <1>3, <1>4, <1>5, LossLoopStep, LossLifeStep DEF Next

-----------------------------------------------------------------------------
(* Theorems *)

(* The invariants hold at the start.                                          *)
LEMMA InitInv == Init => TypeOK /\ LoopInv /\ LossInv
PROOF
  <1>. SUFFICES ASSUME Init PROVE TypeOK /\ LoopInv /\ LossInv
    OBVIOUS
  <1>. USE RowType, LineageAssumption, MaxHeadAssumption, LeaseAssumption, WorkerAssumption
       DEF Init, StreamInit, TableInit, ConsumerInit
  <1>1. StreamTypeOK /\ TableTypeOK
    BY DEF StreamTypeOK, TableTypeOK, Phases
  <1>2. ConsumerTypeOK
    BY DEF ConsumerTypeOK, ConsumerStates, Fates, NoLease
  <1>3. TypeOK
    BY <1>1, <1>2 DEF TypeOK, LoopStates
  <1>4. LoopInv
    BY DEF LoopInv
  <1>5. LossInv
    <2>1. NoRow.ckpt = NoCheckpoint
      BY DEF NoRow
    <2>2. ASSUME NEW s \in Shard PROVE Covered(s, NoCheckpoint)
      <3>1. head[s] = 0 /\ NoCheckpoint = 0 /\ NoCheckpoint # ShardEnd
        BY DEF NoCheckpoint, ShardEnd
      <3>2. SeenUpTo(s, NoCheckpoint)
        BY <3>1 DEF SeenUpTo
      <3>. QED
        BY <3>1, <3>2 DEF Covered
    <2>. QED
      BY <2>1, <2>2 DEF LossInv, TableCovered, CacheCovered, PositionCovered,
         Reading, Offered, Holding
  <1>. QED
    BY <1>3, <1>4, <1>5

(* Every variable keeps its type, for any number of shards and processes and  *)
(* whatever calls fail.                                                       *)
THEOREM TypeCorrect == Spec => []TypeOK
PROOF
  <1>1. TypeOK /\ LoopInv /\ [Next]_vars => TypeOK' /\ LoopInv'
    BY TypeStep, LoopInvStep
  <1>. QED
    BY <1>1, InitInv, PTL DEF Spec

(* The lease table never runs ahead of what the adapter offered to the sink:  *)
(* for any number of processes with any worker ids, restarts, failing calls   *)
(* and stale reads, a record at or before a persisted checkpoint was posted   *)
(* at least once or passed over at the start (ProcessRecords, Shutdown,       *)
(* CheckpointSequence and GetLease, the four writers of a row, together).     *)
THEOREM NothingLostSilently == Spec => []NoSilentLoss
PROOF
  <1>1. TypeOK /\ LoopInv /\ LossInv /\ [Next]_vars => (TypeOK /\ LoopInv /\ LossInv)'
    BY TypeStep, LoopInvStep, LossInvStep
  <1>2. LossInv => NoSilentLoss
    BY DEF LossInv, TableCovered, NoSilentLoss
  <1>. QED
    BY <1>1, <1>2, InitInv, PTL DEF Spec

-----------------------------------------------------------------------------
(* Ownership: the worker ids of the adapter are the same in every process     *)
(* (adapter.go:139), and within a process no shard is ever given a second     *)
(* consumer.                                                                  *)

(* config.ConsumerName is the worker id of every process of a source.         *)
SharedWorkerID == \A p, q \in Process : WorkerID[p] = WorkerID[q]

(* A missing row counts as the own one.                                       *)
LEMMA NoRowIsOwn ==
    \A p \in Process : OwnRow(p, NoRow)
BY DEF OwnRow, NoRow

(* The row GetLease writes carries the worker id.                             *)
LEMMA LeaseRowIsOwn ==
    ASSUME NEW p \in Process, NEW s \in Shard
    PROVE  LeaseRow(p, s).owner = WorkerID[p] /\ OwnRow(p, LeaseRow(p, s))
BY DEF LeaseRow, OwnRow

(* FetchCheckpoint of such a row leaves a shard with its owner.               *)
LEMMA FetchedIsOwn ==
    ASSUME TypeOK, ConsumerInv, NEW p \in Process, NEW s \in Shard, Owns(p, s),
           NEW row \in Readable(s)
    PROVE  Fetched(row, status[p][s]).owner = WorkerID[p]
PROOF
  <1>1. OwnRow(p, row)
    BY DEF ConsumerInv, Readable
  <1>. QED
    BY <1>1 DEF Fetched, OwnRow, Owns

(* A checkpoint changes neither the owner in the cache ...                    *)
LEMMA CheckpointedOwner ==
    ASSUME TypeOK, NEW p \in Process, NEW s \in Shard, NEW c
    PROVE  Checkpointed(p, s, c).owner = status[p][s].owner
PROOF
  <1>1. status[p][s] \in Row
    BY DEF TypeOK, ConsumerTypeOK
  <1>. QED
    BY <1>1 DEF Checkpointed, Row

(* ... nor the one in the table.                                              *)
LEMMA WriteCheckpointIsOwn ==
    ASSUME TypeOK, ConsumerInv, NEW p \in Process, NEW s \in Shard, Owns(p, s), NEW c,
           WriteCheckpoint(p, s, c)
    PROVE  OwnRow(p, table'[s]) /\ status'[p][s].owner = WorkerID[p]
PROOF
  <1>1. Checkpointed(p, s, c).owner = WorkerID[p]
    BY CheckpointedOwner DEF Owns
  <1>2. status'[p][s] = Checkpointed(p, s, c)
    BY DEF WriteCheckpoint, SetStatus, TypeOK, ConsumerTypeOK
  <1>3. table'[s] = Checkpointed(p, s, c) \/ table'[s] = table[s]
    BY DEF WriteCheckpoint, CheckpointSequence, PutRow, TypeOK, TableTypeOK
  <1>. QED
    BY <1>1, <1>2, <1>3 DEF OwnRow, ConsumerInv

(* What a step of a consumer does to the ownership of its own shard.          *)
LEMMA OwnerStep ==
    ASSUME TypeOK, ConsumerInv, NEW p \in Process, NEW s \in Shard, ConsumerStep(p, s)
    PROVE  /\ pc[p][s] # "idle"
           /\ OwnRow(p, table'[s])
           /\ pc'[p][s] # "idle" => status'[p][s].owner = WorkerID[p]
PROOF
  <1>. USE DEF streamUnchanged, positionUnchanged, streamVars, tableVars
  <1>1. pc[p][s] # "idle"
    BY DEF ConsumerStep, ParentDone, ParentError, FetchCheckpoint, IteratorLatest,
       IteratorAfterCheckpoint, IteratorError, RenewRead, RenewWrite, RenewError,
       GetRecords, GetRecordsError, PostMessage, ProcessRecordsCheckpoint,
       ShardClosed, NextIterator, ReleaseLease
  <1>2. Owns(p, s) /\ OwnRow(p, table[s])
    BY <1>1 DEF ConsumerInv
  <1>3. ASSUME UNCHANGED <<table, status>>
        PROVE  OwnRow(p, table'[s]) /\ status'[p][s].owner = WorkerID[p]
    BY <1>2, <1>3 DEF Owns
  <1>4. ASSUME NEW st, SetStatus(p, s, st), st.owner = WorkerID[p]
        PROVE  status'[p][s].owner = WorkerID[p]
    BY <1>4 DEF SetStatus, TypeOK, ConsumerTypeOK
  <1>5. CASE FetchCheckpoint(p, s)
    <2>1. table' = table
      BY <1>5 DEF FetchCheckpoint
    <2>2. CASE UNCHANGED status
      BY <1>1, <1>3, <2>1, <2>2
    <2>3. ASSUME NEW row \in Readable(s), SetStatus(p, s, Fetched(row, status[p][s]))
          PROVE  status'[p][s].owner = WorkerID[p]
      BY <1>2, <1>4, <2>3, FetchedIsOwn
    <2>4. OwnRow(p, table'[s])
      BY <1>2, <2>1
    <2>5. UNCHANGED status \/ \E row \in Readable(s) : SetStatus(p, s, Fetched(row, status[p][s]))
      BY <1>5 DEF FetchCheckpoint
    <2>. QED
      BY <1>1, <2>2, <2>3, <2>4, <2>5
  <1>6. CASE RenewWrite(p, s) \/ RenewError(p, s)
    <2>1. table'[s] = LeaseRow(p, s) \/ table'[s] = table[s]
      BY <1>6 DEF RenewWrite, RenewError, PutRow, TypeOK, TableTypeOK
    <2>2. status'[p][s].owner = WorkerID[p]
      BY <1>2, <1>4, <1>6, LeaseRowIsOwn DEF RenewWrite, RenewError, Owns
    <2>. QED
      BY <1>1, <1>2, <2>1, <2>2, LeaseRowIsOwn
  <1>7. CASE ProcessRecordsCheckpoint(p, s) \/ ShardClosed(p, s)
    BY <1>1, <1>2, <1>7, WriteCheckpointIsOwn DEF ProcessRecordsCheckpoint, ShardClosed
  <1>8. CASE ReleaseLease(p, s)
    <2>1. table' = table /\ pc'[p][s] = "idle"
      BY <1>8 DEF ReleaseLease, Goto, TypeOK, ConsumerTypeOK
    <2>. QED
      BY <1>1, <1>2, <2>1
  <1>9. CASE UNCHANGED <<table, status>>
    BY <1>1, <1>3, <1>9
  <1>. QED
    BY <1>5, <1>6, <1>7, <1>8, <1>9 DEF ConsumerStep, ParentDone, ParentError, IteratorLatest,
       IteratorAfterCheckpoint, IteratorError, RenewRead, GetRecords, GetRecordsError,
       PostMessage, NextIterator

-----------------------------------------------------------------------------
(* The inductive step *)

(* ConsumerInv taken apart: the rows, and the consumer of one shard.          *)
RowsOwn == \A p \in Process, s \in Shard : OwnRow(p, table[s]) /\ OwnRow(p, replica[s])
ConsumerOwns(p, s) ==
    pc[p][s] # "idle" =>
        Owns(p, s) /\ cand[p] # s /\ (s \in known[p] \/ phase[s] = "gone")

(* The invariant of the table and of each consumer.                           *)
LEMMA ConsumerInvParts ==
    ConsumerInv <=> RowsOwn /\ \A p \in Process, s \in Shard : ConsumerOwns(p, s)
BY DEF ConsumerInv, RowsOwn, ConsumerOwns

(* The same with the worker id of any process.                                *)
LEMMA AnyOwner ==
    ASSUME SharedWorkerID, NEW p \in Process, NEW q \in Process, NEW row, OwnRow(p, row)
    PROVE  OwnRow(q, row)
BY DEF SharedWorkerID, OwnRow

(* Consumers keep what they own: only their own shard's row is written.       *)
LEMMA OwnershipConsumersStep ==
    ASSUME SharedWorkerID, TypeOK, ConsumerInv, NEW p \in Process, ConsumersStep(p)
    PROVE  ConsumerInv'
PROOF
  <1>1. PICK s \in Shard : ConsumerStep(p, s)
    BY DEF ConsumersStep
  <1>2. known' = known /\ cand' = cand
    BY DEF ConsumersStep, workerVars
  <1>3. phase' = phase
    BY <1>1, ConsumerFrame
  <1>4. RowsOwn'
    <2>1. \A q \in Process, t \in Shard : OwnRow(q, table'[t])
      <3>1. ASSUME NEW q \in Process, NEW t \in Shard, t # s PROVE OwnRow(q, table'[t])
        BY <1>1, <3>1, OthersUntouched DEF ConsumerInv
      <3>. QED
        BY <1>1, <3>1, OwnerStep, AnyOwner
    <2>2. \A q \in Process, t \in Shard : OwnRow(q, replica'[t])
      BY <1>1, OthersUntouched DEF ConsumerInv
    <2>. QED
      BY <2>1, <2>2 DEF RowsOwn, OwnRow
  <1>5. ASSUME NEW q \in Process, NEW t \in Shard PROVE ConsumerOwns(q, t)'
    <2>1. CASE <<q, t>> = <<p, s>>
      BY <1>1, <1>2, <1>3, <2>1, OwnerStep DEF ConsumerInv, ConsumerOwns, Owns
    <2>2. CASE <<q, t>> # <<p, s>>
      <3>1. status'[q][t] = status[q][t] /\ pc'[q][t] = pc[q][t]
        BY <1>1, <2>2, OthersUntouched
      <3>. QED
        BY <1>2, <1>3, <3>1 DEF ConsumerInv, ConsumerOwns, Owns
    <2>. QED
      BY <2>1, <2>2
  <1>. QED
    BY <1>4, <1>5 DEF ConsumerInv, RowsOwn, ConsumerOwns

(* The event loop starts a consumer only for the candidate, which has none;   *)
(* a new list drops a consumed shard from the map only when it is gone.       *)
LEMMA OwnershipLoopStep ==
    ASSUME SharedWorkerID, TypeOK, LoopInv, ConsumerInv, NEW p \in Process, LoopStep(p)
    PROVE  ConsumerInv'
PROOF
  <1>. USE DEF streamUnchanged, consumersUnchanged, streamVars, tableVars
  <1>1. phase' = phase
    BY LoopFrame
  <1>2. RowsOwn'
    <2>1. ASSUME NEW R, RemoveRows(R) PROVE RowsOwn'
      <3>1. replica' = replica /\ \A t \in Shard : table'[t] = NoRow \/ table'[t] = table[t]
        BY <2>1 DEF RemoveRows
      <3>2. \A q \in Process, t \in Shard : OwnRow(q, table'[t])
        BY <3>1, NoRowIsOwn DEF ConsumerInv
      <3>. QED
        BY <3>1, <3>2 DEF ConsumerInv, RowsOwn, OwnRow
    <2>2. ASSUME UNCHANGED <<table, replica>> PROVE RowsOwn'
      BY <2>2 DEF ConsumerInv, RowsOwn, OwnRow
    <2>3. ASSUME NEW s \in Shard, PutRow(s, LeaseRow(p, s)) PROVE RowsOwn'
      <3>1. /\ replica' = replica
            /\ \A t \in Shard : table'[t] = IF t = s THEN LeaseRow(p, s) ELSE table[t]
        BY <2>3 DEF PutRow, TypeOK, TableTypeOK
      <3>2. \A q \in Process, t \in Shard : OwnRow(q, table'[t])
        BY <3>1, LeaseRowIsOwn, AnyOwner DEF ConsumerInv
      <3>. QED
        BY <3>1, <3>2 DEF ConsumerInv, RowsOwn, OwnRow
    <2>4. CASE SyncShard(p)
      BY <2>1, <2>4 DEF SyncShard
    <2>5. CASE GetLeaseWrite(p) \/ GetLeaseWriteError(p)
      <3>1. cand[p] \in Shard
        BY <2>5 DEF GetLeaseWrite, GetLeaseWriteError, LoopInv, TypeOK
      <3>. QED
        BY <2>2, <2>3, <2>5, <3>1 DEF GetLeaseWrite, GetLeaseWriteError
    <2>. QED
      BY <2>2, <2>4, <2>5 DEF LoopStep, SyncShardError, SkipOwned, FetchForLease,
         FetchForLeaseError, GetLeaseRead, GetLeaseRefused, ScanDone
  <1>3. ASSUME NEW q \in Process, NEW t \in Shard PROVE ConsumerOwns(q, t)'
    <2>. DEFINE Kept == /\ status'[q][t] = status[q][t]
                        /\ pc'[q][t] = pc[q][t]
    <2>1. ASSUME Kept, cand'[q] # t, t \in known[q] => t \in known'[q] \/ phase[t] = "gone"
          PROVE  ConsumerOwns(q, t)'
      BY <1>1, <2>1 DEF ConsumerInv, ConsumerOwns, Owns
    <2>2. ASSUME Kept, pc[q][t] = "idle" PROVE ConsumerOwns(q, t)'
      BY <2>2 DEF ConsumerOwns
    <2>3. ASSUME NEW new, AddShards(p, new), UNCHANGED pc, q # p \/ t \notin new
          PROVE  Kept
      <3>1. status' = [status EXCEPT ![p] =
                          [s \in Shard |-> IF s \in new THEN NoRow ELSE status[p][s]]]
        BY <2>3 DEF AddShards
      <3>2. status \in [Process -> [Shard -> Row]]
        BY DEF TypeOK, ConsumerTypeOK
      <3>. QED
        BY <2>3, <3>1, <3>2
    <2>4. ASSUME NEW s \in Shard, NEW st, SetStatus(p, s, st), UNCHANGED pc,
                 <<q, t>> # <<p, s>>
          PROVE  Kept
      <3>1. status' = [status EXCEPT ![p][s] = st] /\ status \in [Process -> [Shard -> Row]]
        BY <2>4 DEF SetStatus, TypeOK, ConsumerTypeOK
      <3>. QED
        BY <2>4, <3>1
    <2>5. pc[q][t] # "idle" => Owns(q, t) /\ cand[q] # t /\ (t \in known[q] \/ phase[t] = "gone")
      BY DEF ConsumerInv
    <2>6. CASE SyncShard(p)
      <3>1. /\ AddShards(p, Listed \ known[p])
            /\ known' = [known EXCEPT ![p] = Listed]
            /\ UNCHANGED <<pc, cand>>
        BY <2>6 DEF SyncShard
      <3>2. CASE pc[q][t] = "idle"
        BY <3>1, <3>2 DEF ConsumerOwns
      <3>3. CASE pc[q][t] # "idle"
        <4>1. t \in known[q] => phase[t] \in {"open", "closed", "gone"}
          BY DEF LoopInv, TypeOK, StreamTypeOK, Phases
        <4>2. t \in known[q] => t \in known'[q] \/ phase[t] = "gone"
          BY <3>1, <4>1 DEF Listed, TypeOK
        <4>3. q # p \/ t \notin Listed \ known[p]
          BY <2>5, <3>3 DEF Listed
        <4>. QED
          BY <2>1, <2>3, <2>5, <3>1, <3>3, <4>2, <4>3
      <3>. QED
        BY <3>2, <3>3
    <2>7. CASE SyncShardError(p)
      <3>1. PICK found \in SUBSET (Listed \ known[p]) :
               AddShards(p, found) /\ known' = [known EXCEPT ![p] = @ \cup found]
        BY <2>7 DEF SyncShardError
      <3>2. UNCHANGED <<pc, cand>>
        BY <2>7 DEF SyncShardError
      <3>3. CASE pc[q][t] = "idle"
        BY <3>2, <3>3 DEF ConsumerOwns
      <3>4. CASE pc[q][t] # "idle"
        <4>1. t \in known[q] => t \in known'[q]
          BY <3>1 DEF TypeOK
        <4>2. q # p \/ t \notin found
          BY <2>5, <3>1, <3>4 DEF Listed
        <4>. QED
          BY <2>1, <2>3, <2>5, <3>1, <3>2, <3>4, <4>1, <4>2
      <3>. QED
        BY <3>3, <3>4
    <2>8. ASSUME NEW s \in Shard, FetchForLease(p, s) PROVE ConsumerOwns(q, t)'
      <3>1. PICK st : SetStatus(p, s, st)
        BY <2>8 DEF FetchForLease
      <3>2. /\ ~Owns(p, s) /\ UNCHANGED <<pc, known>>
            /\ cand' = cand \/ cand' = [cand EXCEPT ![p] = s]
        BY <2>8 DEF FetchForLease
      <3>3. CASE pc[q][t] = "idle"
        BY <3>2, <3>3 DEF ConsumerOwns
      <3>4. CASE pc[q][t] # "idle"
        <4>1. <<q, t>> # <<p, s>>
          BY <2>5, <3>2, <3>4
        <4>2. cand'[q] # t
          BY <2>5, <3>2, <3>4, <4>1 DEF TypeOK
        <4>. QED
          BY <2>1, <2>4, <3>1, <3>2, <4>1, <4>2
      <3>. QED
        BY <3>3, <3>4
    <2>9. CASE GetLeaseWrite(p)
      <3>1. cand[p] \in Shard /\ cand[p] \in known[p]
        BY <2>9 DEF GetLeaseWrite, LoopInv, TypeOK
      <3>2. /\ SetStatus(p, cand[p], LeaseRow(p, cand[p]))
            /\ Goto(p, cand[p], "parent")
            /\ cand' = [cand EXCEPT ![p] = NoShard]
            /\ known' = known
        BY <2>9 DEF GetLeaseWrite
      <3>3. cand'[p] = NoShard /\ NoShard \notin Shard
        BY <3>2, LineageAssumption DEF TypeOK
      <3>4. CASE <<q, t>> = <<p, cand[p]>>
        <4>1. status'[p][cand[p]] = LeaseRow(p, cand[p])
          BY <3>1, <3>2 DEF SetStatus, TypeOK, ConsumerTypeOK
        <4>. QED
          BY <3>1, <3>2, <3>3, <3>4, <4>1, LeaseRowIsOwn DEF ConsumerOwns, Owns
      <3>5. CASE <<q, t>> # <<p, cand[p]>>
        <4>1. /\ status' = [status EXCEPT ![p][cand[p]] = LeaseRow(p, cand[p])]
              /\ pc' = [pc EXCEPT ![p][cand[p]] = "parent"]
              /\ status \in [Process -> [Shard -> Row]]
              /\ pc \in [Process -> [Shard -> ConsumerStates]]
          BY <3>2 DEF SetStatus, Goto, TypeOK, ConsumerTypeOK
        <4>2. Kept
          BY <3>1, <3>5, <4>1
        <4>3. cand'[q] = cand[q] \/ cand'[q] = NoShard
          BY <3>2 DEF TypeOK
        <4>4. CASE pc[q][t] = "idle"
          BY <2>2, <4>2, <4>4
        <4>5. CASE pc[q][t] # "idle"
          BY <2>1, <2>5, <3>2, <3>3, <4>2, <4>3, <4>5
        <4>. QED
          BY <4>4, <4>5
      <3>. QED
        BY <3>4, <3>5
    <2>10. ASSUME UNCHANGED <<status, pc, known>>, cand'[q] = cand[q] \/ cand'[q] = NoShard
           PROVE  ConsumerOwns(q, t)'
      BY <1>1, <2>5, <2>10, LineageAssumption DEF ConsumerOwns, Owns
    <2>11. CASE GetLeaseRefused(p) \/ GetLeaseWriteError(p)
      <3>1. UNCHANGED <<status, pc, known>> /\ cand' = [cand EXCEPT ![p] = NoShard]
        BY <2>11 DEF GetLeaseRefused, GetLeaseWriteError
      <3>. QED
        BY <2>10, <3>1 DEF TypeOK
    <2>. QED
      BY <2>6, <2>7, <2>8, <2>9, <2>10, <2>11 DEF LoopStep, SkipOwned, FetchForLeaseError,
         GetLeaseRead, ScanDone
  <1>. QED
    BY <1>2, <1>3 DEF ConsumerInv, RowsOwn, ConsumerOwns

(* A process that starts has no consumers, and one that ends loses them all.  *)
LEMMA OwnershipLifeStep ==
    ASSUME TypeOK, ConsumerInv, NEW p \in Process, LifeStep(p)
    PROVE  ConsumerInv'
PROOF
  <1>. USE DEF streamUnchanged, consumersUnchanged, streamVars, tableVars
  <1>1. UNCHANGED <<table, replica, phase>>
    BY DEF LifeStep, StartProcess, Shutdown, EndProcess
  <1>2. ASSUME NEW q \in Process, NEW t \in Shard PROVE ConsumerOwns(q, t)'
    <2>1. CASE StartProcess(p) \/ Shutdown(p)
      <3>1. UNCHANGED <<status, pc, cand, known>>
        BY <2>1 DEF StartProcess, Shutdown
      <3>. QED
        BY <1>1, <3>1 DEF ConsumerInv, ConsumerOwns, Owns
    <2>2. CASE EndProcess(p)
      <3>1. /\ status' = [status EXCEPT ![p] = [s \in Shard |-> NoRow]]
            /\ pc' = [pc EXCEPT ![p] = [s \in Shard |-> "idle"]]
            /\ cand' = [cand EXCEPT ![p] = NoShard]
            /\ known' = [known EXCEPT ![p] = {}]
        BY <2>2 DEF EndProcess
      <3>2. CASE q = p
        <4>1. pc'[q][t] = "idle"
          BY <3>1, <3>2 DEF TypeOK, ConsumerTypeOK
        <4>. QED
          BY <4>1 DEF ConsumerOwns
      <3>3. CASE q # p
        <4>1. /\ status'[q] = status[q] /\ pc'[q] = pc[q]
              /\ cand'[q] = cand[q] /\ known'[q] = known[q]
          BY <3>1, <3>3 DEF TypeOK, ConsumerTypeOK
        <4>. QED
          BY <1>1, <4>1 DEF ConsumerInv, ConsumerOwns, Owns
      <3>. QED
        BY <3>2, <3>3
    <2>. QED
      BY <2>1, <2>2 DEF LifeStep
  <1>. QED
    BY <1>1, <1>2 DEF ConsumerInv, ConsumerOwns, OwnRow

(* The services: a replica catches up with the table, a shard that is gone    *)
(* stays gone.                                                                *)
LEMMA OwnershipServiceStep ==
    ASSUME TypeOK, ConsumerInv, ServiceStep
    PROVE  ConsumerInv'
PROOF
  <1>1. /\ table' = table
        /\ \A t \in Shard : replica'[t] = replica[t] \/ replica'[t] = table[t]
    BY DEF ServiceStep, Tick, Replicate, tableVars, TypeOK, TableTypeOK
  <1>2. UNCHANGED <<status, pc, cand, known>>
    BY DEF ServiceStep, consumerVars, workerVars
  <1>3. Grows
    BY StepGrows DEF Next
  <1>4. \A t \in Shard : phase[t] = "gone" => phase'[t] = "gone"
    BY <1>3 DEF Grows
  <1>5. \A q \in Process, t \in Shard : OwnRow(q, table'[t]) /\ OwnRow(q, replica'[t])
    BY <1>1 DEF ConsumerInv
  <1>6. ASSUME NEW q \in Process, NEW t \in Shard PROVE ConsumerOwns(q, t)'
    BY <1>2, <1>4 DEF ConsumerInv, ConsumerOwns, Owns
  <1>. QED
    BY <1>5, <1>6 DEF ConsumerInv, ConsumerOwns, OwnRow

(* Every step of the specification keeps the invariant.                       *)
LEMMA OwnershipStep ==
    ASSUME SharedWorkerID, TypeOK, LoopInv, ConsumerInv, [Next]_vars
    PROVE  ConsumerInv'
PROOF
  <1>1. CASE UNCHANGED vars
    BY <1>1 DEF vars, streamVars, tableVars, consumerVars, workerVars, ConsumerInv,
       OwnRow, Owns
  <1>. QED
    BY <1>1, OwnershipLoopStep, OwnershipConsumersStep, OwnershipLifeStep,
       OwnershipServiceStep DEF Next

(* It holds at the start.                                                     *)
LEMMA InitOwnership == Init => ConsumerInv
PROOF
  <1>. SUFFICES ASSUME Init PROVE ConsumerInv
    OBVIOUS
  <1>1. \A s \in Shard : table[s] = NoRow /\ replica[s] = NoRow
    BY DEF Init, TableInit
  <1>2. \A p \in Process, s \in Shard : pc[p][s] = "idle"
    BY DEF Init, ConsumerInit
  <1>. QED
    BY <1>1, <1>2, NoRowIsOwn DEF ConsumerInv

-----------------------------------------------------------------------------
(* Theorems *)

(* In a process configured as the adapter configures it, whatever fails and   *)
(* however many processes and shards there are, a consumer that has not       *)
(* returned keeps the cached owner, so the event loop passes over its shard   *)
(* (worker.go:269) and never gives it a second consumer.                      *)
THEOREM NeverTwoConsumers == SharedWorkerID /\ Spec => []OneConsumerPerShard
PROOF
  <1>. SUFFICES ASSUME SharedWorkerID PROVE Spec => []OneConsumerPerShard
    OBVIOUS
  <1>1. TypeOK /\ LoopInv /\ ConsumerInv /\ [Next]_vars => (TypeOK /\ LoopInv /\ ConsumerInv)'
    BY TypeStep, LoopInvStep, OwnershipStep
  <1>2. Init => TypeOK /\ LoopInv /\ ConsumerInv
    BY InitInv, InitOwnership
  <1>3. ConsumerInv => OneConsumerPerShard
    BY DEF ConsumerInv, OneConsumerPerShard
  <1>. QED
    BY <1>1, <1>2, <1>3, PTL DEF Spec

=============================================================================
