--------------------------- MODULE AdapterProcess ---------------------------
(***************************************************************************)
(* One process of the receive adapter, from main() to its exit code: the   *)
(* start of the adapter and of its KCL worker, the two signal handlers,    *)
(* the worker's event loop with the wait group of its shard consumers, and *)
(* the CloudWatch monitoring service that the loop, the consumers and its  *)
(* own flushing thread share.                                              *)
(*                                                                         *)
(* What is exchanged with the lease table and the stream is modelled by    *)
(* Worker and ShardConsumer; here a lease that is granted, a batch that is *)
(* read or a call that fails is a choice of the environment, and what      *)
(* matters is who waits for whom.  A process that exits loses its memory,  *)
(* and nothing moves any more.                                             *)
(***************************************************************************)
EXTENDS Integers, Sequences, FiniteSets, TLC

CONSTANTS
  Shards,
  Parent,         \* [Shards -> Shards \cup {NoShard}]: ParentShardId, "" for none
  NoShard,
  Containers,     \* environments a container may have: [required, credsFile, role : BOOLEAN]
  Tables,         \* what the lease table may hold when the process starts
  MaxConsumers,   \* bound: shard consumers started
  MaxBatches,     \* bound: batches counted of one shard
  MaxSignals,     \* bound: SIGINT and SIGTERM sent to the process
  MaxRepeats      \* [Shards -> Nat], bound: counts of a shard published again

ASSUME ProcessAssumption ==
  /\ NoShard \notin Shards /\ Parent \in [Shards -> Shards \cup {NoShard}]
  /\ Containers \subseteq [required : BOOLEAN, credsFile : BOOLEAN, role : BOOLEAN]
  /\ Tables \subseteq [Shards -> {"none", "some", "end"}]
  /\ {MaxConsumers, MaxBatches, MaxSignals} \subseteq Nat
  /\ MaxRepeats \in [Shards -> Nat]

VARIABLES
  env,          \* the environment: which variables the container defines
  main,         \* where main() is
  exit,         \* the exit code, or "none" while the process lives
  signals,      \* signals sent so far
  handler,      \* signals the handler of SetupSignalHandler took; -1 before it exists
  pending,      \* signals in the channel of that handler
  stopCh,       \* stopCh is closed
  sigs,         \* signals in the worker's channel, -1 before signal.Notify
  loop,         \* where Worker.eventLoop is
  gained,       \* the shard the loop has just leased, or NoShard
  held,         \* shards whose AssignedTo is this worker
  consumers,    \* the shard consumers, in the order they were started
  waitGroup,    \* counter of Worker.waitGroup
  stop,         \* Worker.stop is closed
  checkpoint,   \* [Shards -> {"none", "some", "end"}] as the lease table has it
  ready,        \* CloudWatchMonitoringService.Init returned no error
  monitor,      \* where the monitoring service's event loop is
  monitorStop,  \* its stop channel is closed
  todo,         \* metrics the flush under way has still to visit
  locked,       \* the metric whose mutex flushShard holds, or NoShard
  sent,         \* the count flushShard has put into the request
  metrics,      \* [Shards -> [held, processed]]: cloudWatchMetrics
  known,        \* the keys of shardMetrics
  counted,      \* [Shards -> Nat]: history, the records consumers counted
  published,    \* [Shards -> Nat]: history, the counts CloudWatch has taken
  repeated      \* [Shards -> Nat]: history, those of them whose answer was lost

mainVars == <<env, main, signals, handler, pending, stopCh, sigs>>
loopVars == <<loop, gained, held, consumers, waitGroup, stop, checkpoint>>
flushVars == <<monitor, monitorStop, todo, locked, sent>>
countVars == <<metrics, known, counted, published, repeated>>
workerVars == <<loopVars, ready, flushVars, countVars>>
vars == <<mainVars, exit, workerVars>>

Places == {"main", "client", "session", "stream", "worker", "metrics",
           "checkpointer", "service", "wait"}
Loops == {"off", "round", "gained", "started", "consumers", "monitor", "done"}
Consumers == [shard : Shards, last : BOOLEAN, pc : {"parent", "read", "count",
                "select", "release", "lost", "done", "gone"}]

Init ==
  /\ exit = "none" /\ env \in Containers /\ checkpoint \in Tables
  /\ main = "main" /\ signals = 0
  /\ handler = -1 /\ pending = 0 /\ stopCh = FALSE /\ sigs = -1
  /\ loop = "off" /\ gained = NoShard /\ held = {} /\ consumers = << >>
  /\ waitGroup = 0 /\ stop = FALSE
  /\ ready = FALSE /\ monitor = "off" /\ monitorStop = FALSE
  /\ todo = {} /\ locked = NoShard /\ sent = 0
  /\ metrics = [s \in Shards |-> [held |-> 0, processed |-> 0]] /\ known = {}
  /\ counted = [s \in Shards |-> 0] /\ published = [s \in Shards |-> 0]
  /\ repeated = [s \in Shards |-> 0]

Alive == exit = "none"

---------------------------------------------------------------------------
(* main() and Adapter.Start: each step goes on or ends the process with    *)
(* the code it fails with: 1 for log.Fatal, 2 for a panic.                 *)

Ends(code) ==
  /\ exit' = code /\ UNCHANGED <<env, checkpoint>>
  /\ main' = "main" /\ signals' = 0
  /\ handler' = -1 /\ pending' = 0 /\ stopCh' = FALSE /\ sigs' = -1
  /\ loop' = "off" /\ gained' = NoShard /\ held' = {} /\ consumers' = << >>
  /\ waitGroup' = 0 /\ stop' = FALSE
  /\ ready' = FALSE /\ monitor' = "off" /\ monitorStop' = FALSE
  /\ todo' = {} /\ locked' = NoShard /\ sent' = 0
  /\ metrics' = [s \in Shards |-> [held |-> 0, processed |-> 0]] /\ known' = {}
  /\ counted' = [s \in Shards |-> 0] /\ published' = [s \in Shards |-> 0]
  /\ repeated' = [s \in Shards |-> 0]

GoesTo(place) == main' = place /\ UNCHANGED <<env, signals, handler, pending, stopCh, exit>>

(* getRequiredEnv of every variable, then SetupSignalHandler. *)
Setup ==
  /\ Alive /\ main = "main"
  /\ \/ ~env.required /\ Ends("1")
     \/ /\ env.required /\ main' = "client" /\ handler' = 0
        /\ UNCHANGED <<env, exit, signals, pending, stopCh, sigs, workerVars>>

InitClient ==
  /\ Alive /\ main = "client"
  /\ \/ GoesTo("session") /\ UNCHANGED <<sigs, workerVars>>
     \/ Ends("1")

(* The credentials file is taken before the role; session.Must panics. *)
Session ==
  /\ Alive /\ main = "session"
  /\ \/ (env.credsFile \/ env.role) /\ GoesTo("stream") /\ UNCHANGED <<sigs, workerVars>>
     \/ (env.credsFile \/ env.role) /\ Ends("2")
     \/ ~(env.credsFile \/ env.role) /\ Ends("1")

DescribeStream ==
  /\ Alive /\ main = "stream"
  /\ \/ GoesTo("worker") /\ UNCHANGED <<sigs, workerVars>>
     \/ Ends("1")

NewWorker ==
  /\ Alive /\ main = "worker"
  /\ \/ GoesTo("metrics") /\ UNCHANGED <<sigs, workerVars>>
     \/ Ends("1")

(* Worker.initialize only logs an error of metricsConfig.Init, which       *)
(* leaves the service without its wait group.                              *)
InitMetrics ==
  /\ Alive /\ main = "metrics" /\ GoesTo("checkpointer")
  /\ ready' \in BOOLEAN
  /\ UNCHANGED <<sigs, loopVars, flushVars, countVars>>

(* The rest of Worker.initialize: a second handler takes the signals too.  *)
InitCheckpointer ==
  /\ Alive /\ main = "checkpointer"
  /\ \/ GoesTo("service") /\ sigs' = 0 /\ UNCHANGED workerVars
     \/ Ends("1")

(* mService.Start adds to the wait group it may not have; Worker.Start     *)
(* then leaves the event loop to its thread.                               *)
StartWorker ==
  /\ Alive /\ main = "service"
  /\ \/ ~ready /\ Ends("2")
     \/ /\ ready /\ GoesTo("wait")
        /\ monitor' = "walk" /\ loop' = "round"
        /\ UNCHANGED <<sigs, gained, held, consumers, waitGroup, stop, checkpoint, ready,
                       monitorStop, todo, locked, sent, countVars>>

(* Bug variant: main returns when the worker's loop has ended. *)
ReturnWhenWorkerIsDone ==
  /\ Alive /\ main = "wait" /\ stopCh /\ loop = "done"
  /\ Ends("0")

(* <-stopCh, and main returns: nothing waits for the worker. *)
Return ==
  /\ Alive /\ main = "wait" /\ stopCh
  /\ Ends("0")

MainStep ==
  \/ Setup \/ InitClient \/ Session \/ DescribeStream \/ NewWorker
  \/ InitMetrics \/ InitCheckpointer \/ StartWorker \/ Return

---------------------------------------------------------------------------
(* Signals.  Each registered channel takes a signal if it has room.        *)

Signal ==
  /\ Alive /\ signals < MaxSignals
  /\ \/ handler = -1 /\ Ends("killed")
     \/ /\ handler >= 0 /\ signals' = signals + 1
        /\ pending' = IF pending < 2 THEN pending + 1 ELSE pending
        /\ sigs' = IF sigs = 0 THEN 1 ELSE sigs
        /\ UNCHANGED <<env, main, handler, stopCh, exit, workerVars>>

(* The goroutine of SetupSignalHandler: the first signal closes stopCh,    *)
(* the second ends the process.                                            *)
Handle ==
  /\ Alive /\ pending > 0
  /\ \/ /\ handler = 0 /\ handler' = 1 /\ pending' = pending - 1 /\ stopCh' = TRUE
        /\ UNCHANGED <<env, main, signals, sigs, exit, workerVars>>
     \/ handler = 1 /\ Ends("1")

---------------------------------------------------------------------------
(* The monitoring service.  A caller of its counters waits for the mutex   *)
(* of the metric, which flushShard holds across PutMetricData.             *)

(* Bug variant: the counters are changed without the mutex. *)
Unguarded(s) == s \in Shards

Free(s) == locked # s

(* getOrCreatePerShardMetrics(s), then a change of the counter.  The walk  *)
(* of a flush under way may or may not visit an entry that is new.         *)
Bump(s, field, n) ==
  /\ Free(s)
  /\ metrics' = [metrics EXCEPT ![s][field] = @ + n]
  /\ known' = known \cup {s}
  /\ \/ UNCHANGED todo
     \/ s \notin known /\ monitor \in {"walk", "last"} /\ todo' = todo \cup {s}

(* flushShard: lock the metric and build the request ... *)
LockMetric(s) ==
  /\ Alive /\ monitor \in {"walk", "last"} /\ locked = NoShard /\ s \in todo
  /\ locked' = s /\ sent' = metrics[s].processed
  /\ UNCHANGED <<mainVars, exit, loopVars, ready, monitor, monitorStop, todo, countVars>>

(* ... send it, and start from zero only if the call returned no error.    *)
(* An error may mean that CloudWatch took nothing, or that the data was    *)
(* taken and the answer lost: the counter is kept and sent again.          *)
PutMetricData ==
  /\ Alive /\ locked # NoShard /\ locked' = NoShard /\ todo' = todo \ {locked}
  /\ \/ /\ metrics' = [metrics EXCEPT ![locked].processed = 0]
        /\ published' = [published EXCEPT ![locked] = @ + sent]
        /\ UNCHANGED repeated
     \/ UNCHANGED <<metrics, published, repeated>>
     \/ /\ repeated[locked] + sent <= MaxRepeats[locked]
        /\ published' = [published EXCEPT ![locked] = @ + sent]
        /\ repeated' = [repeated EXCEPT ![locked] = @ + sent]
        /\ UNCHANGED metrics
  /\ sent' = 0
  /\ UNCHANGED <<mainVars, exit, loopVars, ready, monitor, monitorStop, known, counted>>

(* The select after a flush: the buffer time passes and the next flush     *)
(* begins, or stop is closed and a last one follows.                       *)
MonitorSelect ==
  /\ Alive /\ todo = {} /\ locked = NoShard
  /\ \/ monitor = "walk" /\ todo' = known /\ UNCHANGED monitor
     \/ monitor = "walk" /\ monitorStop /\ monitor' = "last" /\ todo' = known
     \/ monitor = "last" /\ monitor' = "done" /\ UNCHANGED todo
  /\ UNCHANGED <<mainVars, exit, loopVars, ready, monitorStop, locked, sent, countVars>>

MonitorStep == (\E s \in Shards : LockMetric(s)) \/ PutMetricData \/ MonitorSelect

---------------------------------------------------------------------------
(* Worker.eventLoop.  In a round it leases one shard at most and then      *)
(* waits for a signal or for the timer; a round that leases nothing, or    *)
(* whose syncShard fails, takes no step of its own.                        *)

Children == {i \in DOMAIN consumers : consumers[i].pc # "gone"}

(* GetLease of a shard, then the metric of the lease. *)
GainLease(s) ==
  /\ Alive /\ loop = "round" /\ s \notin held /\ checkpoint[s] # "end"
  /\ Len(consumers) < MaxConsumers
  /\ held' = held \cup {s} /\ gained' = s /\ loop' = "gained"
  /\ Bump(s, "held", 1)
  /\ UNCHANGED <<mainVars, exit, consumers, waitGroup, stop, checkpoint, ready,
                 monitor, monitorStop, locked, sent, counted, published, repeated>>

(* go sc.getRecords(shard) *)
StartConsumer ==
  /\ Alive /\ loop = "gained" /\ loop' = "started" /\ gained' = NoShard
  /\ consumers' = Append(consumers, [shard |-> gained, last |-> FALSE, pc |-> "parent"])
  /\ UNCHANGED <<mainVars, exit, held, waitGroup, stop, checkpoint, ready, flushVars, countVars>>

(* w.waitGroup.Add(1), once the consumer is already running. *)
AddConsumer ==
  /\ Alive /\ loop = "started" /\ loop' = "round" /\ waitGroup' = waitGroup + 1
  /\ UNCHANGED <<mainVars, exit, gained, held, consumers, stop, checkpoint, ready, flushVars, countVars>>

(* The select of the loop takes a signal and calls Shutdown.  Nobody else  *)
(* closes stop.                                                            *)
TakeSignal ==
  /\ Alive /\ loop = "round" /\ sigs > 0
  /\ sigs' = sigs - 1 /\ stop' = TRUE /\ loop' = "consumers"
  /\ UNCHANGED <<env, main, signals, handler, pending, stopCh, exit, gained, held, consumers,
                 waitGroup, checkpoint, ready, flushVars, countVars>>

(* Bug variant: the monitoring service is stopped without waiting. *)
StopMonitorAtOnce ==
  /\ Alive /\ loop = "consumers"
  /\ monitorStop' = TRUE /\ loop' = "monitor"
  /\ UNCHANGED <<mainVars, exit, gained, held, consumers, waitGroup, stop, checkpoint, ready,
                 monitor, todo, locked, sent, countVars>>

(* Worker.Shutdown: wait for the consumers, then stop the service ... *)
StopMonitor ==
  /\ Alive /\ loop = "consumers" /\ waitGroup = 0
  /\ monitorStop' = TRUE /\ loop' = "monitor"
  /\ UNCHANGED <<mainVars, exit, gained, held, consumers, waitGroup, stop, checkpoint, ready,
                 monitor, todo, locked, sent, countVars>>

(* ... and wait for its thread. *)
LoopEnds ==
  /\ Alive /\ loop = "monitor" /\ monitor = "done" /\ loop' = "done"
  /\ UNCHANGED <<mainVars, exit, gained, held, consumers, waitGroup, stop, checkpoint, ready,
                 flushVars, countVars>>

LoopStep ==
  \/ \E s \in Shards : GainLease(s)
  \/ StartConsumer \/ AddConsumer \/ TakeSignal \/ StopMonitor \/ LoopEnds

---------------------------------------------------------------------------
(* ShardConsumer.getRecords of the i-th consumer.                          *)

ConsumerAt(i, pc) == Alive /\ consumers[i].pc = pc

Moves(i, pc) == consumers' = [consumers EXCEPT ![i].pc = pc]

consumerUnchanged == <<mainVars, loop, gained, stop, ready, monitor, monitorStop, locked, sent,
                       published, repeated>>

(* waitOnParentShard polls until the parent's checkpoint is SHARD_END or   *)
(* absent, and never looks at stop; then the shard iterator is fetched.    *)
WaitOnParent(i) ==
  LET parent == Parent[consumers[i].shard] IN
  /\ ConsumerAt(i, "parent")
  /\ \/ (parent # NoShard => checkpoint[parent] # "some") /\ Moves(i, "read")
     \/ Moves(i, "release")
  /\ UNCHANGED <<exit, held, waitGroup, checkpoint, todo, metrics, known, counted, consumerUnchanged>>

(* One round of the loop: the lease cannot be renewed or the read fails    *)
(* for good; or a batch is processed, and checkpointed when it was posted. *)
ReadBatch(i) ==
  LET s == consumers[i].shard IN
  /\ Alive /\ consumers[i].pc \in {"read", "select"}
  /\ \/ Moves(i, "release") /\ UNCHANGED checkpoint
     \/ /\ counted[s] < MaxBatches
        /\ \E last \in BOOLEAN :
             consumers' = [consumers EXCEPT ![i].pc = "count", ![i].last = last]
        /\ \/ UNCHANGED checkpoint
           \/ checkpoint' = [checkpoint EXCEPT ![s] = "some"]
  /\ UNCHANGED <<exit, held, waitGroup, todo, metrics, known, counted, consumerUnchanged>>

(* IncrRecordsProcessed; at the end of the shard the processor is shut     *)
(* down with TERMINATE, which writes SHARD_END unless the write fails.     *)
CountBatch(i) ==
  LET s == consumers[i].shard IN
  /\ ConsumerAt(i, "count")
  /\ Bump(s, "processed", 1) /\ counted' = [counted EXCEPT ![s] = @ + 1]
  /\ \/ ~consumers[i].last /\ Moves(i, "select") /\ UNCHANGED checkpoint
     \/ /\ consumers[i].last /\ Moves(i, "release")
        /\ checkpoint' \in {checkpoint, [checkpoint EXCEPT ![s] = "end"]}
  /\ UNCHANGED <<exit, held, waitGroup, consumerUnchanged>>

(* The select of the consumer may take stop, or the timer and read on. *)
Stop(i) ==
  /\ ConsumerAt(i, "select") /\ stop /\ Moves(i, "release")
  /\ UNCHANGED <<exit, held, waitGroup, checkpoint, todo, metrics, known, counted, consumerUnchanged>>

(* releaseLease, deferred: the shard has no owner any more ... *)
ReleaseLease(i) ==
  /\ ConsumerAt(i, "release") /\ Moves(i, "lost")
  /\ held' = held \ {consumers[i].shard}
  /\ UNCHANGED <<exit, waitGroup, checkpoint, todo, metrics, known, counted, consumerUnchanged>>

(* Bug variant: a lease is not counted as lost once the worker stops. *)
LoseLeaseUnlessStopped(i) ==
  /\ ConsumerAt(i, "lost") /\ Moves(i, "done")
  /\ Bump(consumers[i].shard, "held", IF stop THEN 0 ELSE -1)
  /\ UNCHANGED <<exit, held, waitGroup, checkpoint, counted, consumerUnchanged>>

(* ... and the metric follows. *)
LoseLease(i) ==
  /\ ConsumerAt(i, "lost") /\ Moves(i, "done")
  /\ Bump(consumers[i].shard, "held", -1)
  /\ UNCHANGED <<exit, held, waitGroup, checkpoint, counted, consumerUnchanged>>

(* Bug variant: a counter below zero goes unnoticed. *)
DoneUnchecked(i) ==
  /\ ConsumerAt(i, "done") /\ Moves(i, "gone") /\ waitGroup' = waitGroup - 1
  /\ UNCHANGED <<exit, held, checkpoint, todo, metrics, known, counted, consumerUnchanged>>

(* Bug variant: a consumer that was stopped returns without Done. *)
DoneUnlessStopped(i) ==
  /\ ConsumerAt(i, "done") /\ Moves(i, "gone")
  /\ waitGroup' = IF stop \/ waitGroup = 0 THEN waitGroup ELSE waitGroup - 1
  /\ UNCHANGED <<exit, held, checkpoint, todo, metrics, known, counted, consumerUnchanged>>

(* waitGroup.Done, deferred: a counter below zero is a panic. *)
Done(i) ==
  /\ ConsumerAt(i, "done")
  /\ \/ waitGroup = 0 /\ Ends("2")
     \/ /\ waitGroup > 0 /\ waitGroup' = waitGroup - 1 /\ Moves(i, "gone")
        /\ UNCHANGED <<exit, held, checkpoint, todo, metrics, known, counted, consumerUnchanged>>

ConsumerStep(i) ==
  \/ WaitOnParent(i) \/ ReadBatch(i) \/ CountBatch(i) \/ Stop(i)
  \/ ReleaseLease(i) \/ LoseLease(i) \/ Done(i)

Next ==
  \/ MainStep \/ Signal \/ Handle \/ MonitorStep \/ LoopStep
  \/ \E i \in DOMAIN consumers : ConsumerStep(i)

(* The calls of main return and its threads are scheduled.  Nothing is     *)
(* assumed of the calls of the loop, the consumers or the service.         *)
Spec == Init /\ [][Next]_vars /\ WF_vars(MainStep) /\ WF_vars(Handle)

---------------------------------------------------------------------------

(* Every variable keeps its type. *)
TypeOK ==
  /\ env \in Containers /\ main \in Places /\ exit \in {"none", "0", "1", "2", "killed"}
  /\ signals \in 0..MaxSignals /\ handler \in -1..1 /\ pending \in 0..2
  /\ stopCh \in BOOLEAN /\ sigs \in -1..1
  /\ loop \in Loops /\ gained \in Shards \cup {NoShard} /\ held \subseteq Shards
  /\ consumers \in Seq(Consumers) /\ Len(consumers) <= MaxConsumers
  /\ waitGroup \in Nat
  /\ stop \in BOOLEAN /\ checkpoint \in [Shards -> {"none", "some", "end"}]
  /\ ready \in BOOLEAN /\ monitor \in {"off", "walk", "last", "done"}
  /\ monitorStop \in BOOLEAN /\ todo \subseteq known /\ known \subseteq Shards
  /\ locked \in Shards \cup {NoShard} /\ sent \in Nat
  /\ metrics \in [Shards -> [held : Int, processed : Nat]]
  /\ counted \in [Shards -> Nat] /\ published \in [Shards -> Nat]
  /\ repeated \in [Shards -> Nat]

(* The wait group counts the consumers that have not returned, short by    *)
(* the one that runs already and is not yet added: unless that one returns *)
(* first the counter does not pass zero, and Wait does not end too early.  *)
WaitGroupCounts ==
  waitGroup = Cardinality(Children) - (IF loop = "started" THEN 1 ELSE 0)

(* The lease metric of a shard is the number of its consumers between      *)
(* LeaseGained and LeaseLost, although a shard whose lease was dropped can *)
(* be leased again before the metric of its last consumer follows.         *)
LeasesHeldCountsConsumers ==
  \A s \in Shards :
    metrics[s].held =
      Cardinality({i \in Children : consumers[i].shard = s /\ consumers[i].pc # "done"})
      + (IF gained = s THEN 1 ELSE 0)

(* Whatever a consumer counts is published or still to be published, and   *)
(* it is published again only after a request that took effect without an  *)
(* answer: consumers count while a flush is in flight, and its reset takes *)
(* back what the request held and nothing else.                            *)
NoCountIsLost ==
  \A s \in Shards :
    counted[s] + repeated[s] = published[s] + metrics[s].processed

(* Once the monitoring service has been told to stop no consumer is left   *)
(* and none is started, so that its last flush has all they counted.       *)
MonitorOutlivesConsumers == monitorStop => Children = {} /\ gained = NoShard

(* One signal is enough: main does not depend on the worker's shutdown,    *)
(* which a child that waits for its parent can hold up for ever.           *)
SignalEndsProcess == signals > 0 ~> ~Alive

(* What is not so: that the worker gets to shut its consumers down before  *)
(* the process exits with 0.                                               *)
WorkerIsShutDown == [][exit' = "0" => Children = {}]_vars
=============================================================================
