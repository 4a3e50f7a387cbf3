# TLA+ models of the Kinesis event source

The Kinesis event source delivers the records of an AWS Kinesis stream to a
Knative sink. A controller turns every `KinesisSource` object into a Deployment
of a *receive adapter*; the adapter reads the stream with the Kinesis Client
Library for Go (KCL, vendored) and posts each batch of records to the sink as
one CloudEvent. Other programs reach `KinesisSource` objects through a generated
client, informers and a fake for tests. This directory holds TLA+ specifications
of all of these, the TLC configurations that model-check them, and TLAPS proofs
of the main invariants. Paths below are relative to the repository; `W/` stands for
`vendor/github.com/vmware/vmware-go-kcl/clientlibrary/worker/` and `KCL/` for
the library's directory `clientlibrary/` above it, and `SDK/` for
`vendor/github.com/knative/eventing-sources/pkg/controller/sdk/`.

## 1. Inventory

| component | source | state | operations | what makes it hard | correct when |
|---|---|---|---|---|---|
| event loop of a KCL worker | `W/worker.go` | map of `shardStatus`, stop channel | list shards, add new and remove vanished ones, count leases, scan, fetch checkpoint, take a lease, start a consumer, shut down | consumers change the same `shardStatus` concurrently; every call can fail; the process can end between any two calls | a shard it owns has a consumer, never two; the lease limit holds |
| shard consumer | `W/shard-consumer.go` | iterator, its share of the `shardStatus` | wait for the parent, obtain an iterator, renew the lease, read, hand over, release | parents still running, reshards and expiry while it reads, throttling, renewal refused | parents first; no record between two iterators is missed |
| checkpointer | `W/checkpointer.go`, `W/record-processor-checkpointer.go` | the DynamoDB table | GetLease (read, conditional write), CheckpointSequence, FetchCheckpoint, RemoveLeaseInfo | read and write are separate calls, unconditional puts of a cached row, eventually consistent reads, lost answers | a checkpoint never claims more than was offered, and does not move back |
| record processor | `pkg/adapter/adapter.go` | none | post a batch, checkpoint it, checkpoint SHARD_END | a refused batch, an ignored checkpoint error, a lost answer | no record is dropped silently |
| receive adapter process | `cmd/receive_adapter/main.go`, `pkg/adapter/adapter.go`, `W/worker.go` (Start, initialize, Shutdown) | its threads, wait group, stop channels | start, SIGINT and SIGTERM, shut down, exit with a code | three places wait for one another; `waitGroup.Add` comes late; two processes with one worker id overlap in a rolling update | a signal ends it; nothing waits too short or too long |
| metrics of the KCL | `KCL/metrics/cloudwatch.go` | a counter per shard, each under its mutex | count, flush, stop | the loop, all consumers and the flushing thread share the counters; a flush can fail | no count is lost, and none is published again but after a lost answer; the lease metric is true |
| source reconciler | `pkg/reconciler/kinesissource.go` | none of its own | resolve the sink, find, create or update the Deployment, mark conditions, add and remove the finalizer | reads caches that lag behind its own writes; a failing request; deletion meanwhile | one up-to-date Deployment; a truthful status |
| generic reconciler | `SDK/reconciler.go`, `SDK/provider.go` | none of its own | read, call, compare, write finalizers, read again, write status | two writes with a cached read before each; conflicts; retries | never overwrites what users did; deletion completes |
| conditions | `vendor/github.com/knative/pkg/apis/duck/v1alpha1/condition_set.go` | conditions of a status | MarkTrue, MarkUnknown, MarkFalse, InitializeConditions | any order of calls | Ready is true exactly when all others are |
| Deployment of the adapter | `pkg/reconciler/resources/receive_adapter.go` | none | build the object | two ways to give credentials, partial configurations | an adapter that can start |
| controller runtime | `vendor/sigs.k8s.io/controller-runtime`, `vendor/k8s.io/client-go` | caches, work queue | deliver events, queue keys, retry with back-off, resync | events arrive later than the writes that follow from them | every change is reconciled in the end |
| generated clientset | `pkg/client/clientset/versioned` | none | Create, Update, UpdateStatus, Delete, DeleteCollection, Get, List, Watch, Patch | whole copies are written back; copies are stale, replies get lost | writing a copy back is an atomic edit; spec and status are apart |
| informers and listers | `pkg/client/informers`, `pkg/client/listers`, `vendor/k8s.io/client-go/tools/cache` | one informer per type; reflector, DeltaFIFO, indexer | Informer, Lister, Start, WaitForCacheSync, Get, List | the list, the watch and the queue overlap; callers come in any order | one informer; after sync the cache is complete; in the end it is up to date |
| fake clientset | `pkg/client/clientset/versioned/fake`, `vendor/k8s.io/client-go/testing` | table of objects, open watches | as the clientset | namespaces of handle, object and watch may differ | one object per key; a watch misses nothing |
| Kinesis, DynamoDB, the API server | outside the repository | streams, table, objects | see `KinesisStream.tla`, `LeaseTable.tla`, `SourceReconciler.tla`, `KinesisSources.tla` | reshards, expiry, lagging replicas, optimistic concurrency | (assumed) |
| controller main, deep copies, KCL configuration, CloudEvents transport | `cmd/controller`, `zz_generated.deepcopy.go`, `KCL/config`, `vendor/github.com/cloudevents` | configuration | start-up, serialisation | hardly | not modelled, see section 8 |

How they interact: users write `KinesisSource` objects to the API server. An
informer delivers them to a cache and queues their key. The generic reconciler
takes the key, reads the source from the cache, calls the source reconciler,
and writes finalizers and status back. The source reconciler asks the sink for
its address (a live read, not cached), lists Deployments (cached) and creates or
updates one. Kubernetes runs the Deployment; its process starts one KCL worker,
whose event loop starts a goroutine per leased shard. Loops and consumers of all
processes meet in the lease table only; the consumers of a process and its loop
meet in the map of `shardStatus`, in the wait group and in the metrics too. The
generated clientset writes the same `KinesisSource` objects with the same
optimistic concurrency; the generated informers watch them for whoever
imports the package (the controller of this repository has caches of its own,
from controller-runtime).

The full list of hazards, each at its line and with the properties that watch
it, is the `hazards` list of `PROJECT.json`.

## 2. Modules

```
Delivery              what the adapter promises of a stream (abstract)
Shards                lineage of shards (constants)
  KinesisStream       the stream: records, splits, merges, expiry   (external)
  LeaseTable          the DynamoDB table and the checkpointer's requests
    ShardConsumer     one goroutine per leased shard + record processor
      Worker          event loop, process life cycle, properties; implements Delivery
        MCWorker      instances for TLC
        WorkerProofs  types; nothing is lost silently; no shard has two consumers
          CheckpointProofs  Delivery is implemented; what takes checkpoints back and
                      what leaves leases behind; leases are limited

ConditionSet          the condition manager (operators)
  Conditions          any sequence of calls on it
    MCConditions      instance for TLC
    ConditionsProofs  Ready sums up its dependents

AdapterProcess        main, signals, event loop, wait group, metrics of one process
  MCProcess           instances for TLC
  ProcessProofs       wait group, metrics, the order of the shutdown

SourceStore           what a client may rely on: edits of one table (abstract)
KinesisSources        generated clientset and API server; implements SourceStore
  MCSources           instance for TLC
  SourcesProofs       the implementation, versions, halves and namespaces
  Informers           factory, reflector, DeltaFIFO, cache and lister over those objects
    MCInformers       instances for TLC
    InformersProofs   one informer; what its cache holds (EXTENDS SourcesProofs too)

FakeClientset         the fake of the clientset and its object tracker
  MCFake              instances for TLC
  FakeProofs          keys, watches, errors

ReceiveAdapter        the Deployment asked for and its comparison (operators)
  SourceReconciler    both reconcilers, caches, API server; INSTANCE ConditionSet
    MCReconciler      instances for TLC
    ReconcilerProofs  edits survive; the status is truthful
```

### The KCL half

State: `table[s]` is the row of shard `s` (AssignedTo, LeaseTimeout,
Checkpoint), `replica[s]` an older version a read may still return; `status[p][s]`
is the `shardStatus` cached by process `p`, `known[p]` the keys of its map,
`stop[p]` its stop channel, `loop[p]`, `todo[p]`, `cand[p]` the position of its
event loop, and `pc[p][s]`, `iter[p][s]`, `last[p][s]`, `closing[p][s]` the
position of the consumer of `s`. `lease[p][s]` is what a GetLease call in progress
has read, since its read and its conditional write are separate requests. `fate`
is for checking only: it records for every record whether it was never offered
to the sink, passed over by an iterator of type LATEST, refused, or delivered.

Grain: one action per network call, with the local computation that follows it,
up to the next call. Mutexes of `shardStatus` protect single fields only, so
this is where interleavings matter. Local steps between two calls touch only
`shardStatus` of the goroutine's own shard; the two that the loop and a consumer
share (owner and checkpoint) are written in the same step as the call they follow.

| actions | code |
|---|---|
| `SyncShard`, `SyncShardError` | `W/worker.go` syncShard, getShardIDs, and the count of leases before the scan |
| `SkipOwned`, `FetchForLease`, `FetchForLeaseError` | the scan, up to the SHARD_END test |
| `GetLeaseRead`, `GetLeaseRefused`, `GetLeaseWrite`, `GetLeaseWriteError` | GetLease for a candidate and the start of its consumer |
| `ScanDone`, `Shutdown` | end of a round; the signal branch of the select |
| `StartProcess`, `EndProcess` | Worker.initialize; any end of the process |
| `ParentDone`, `ParentError` | waitOnParentShard |
| `FetchCheckpoint`, `IteratorLatest`, `IteratorAfterCheckpoint`, `IteratorError` | getShardIterator |
| `RenewRead`, `RenewWrite`, `RenewError` | the renewal inside getRecords |
| `GetRecords`, `GetRecordsError` | the GetRecords call |
| `PostMessage`, `ProcessRecordsCheckpoint` | ProcessRecords of the adapter |
| `ShardClosed`, `NextIterator`, `ReleaseLease` | end of an iteration; Shutdown(TERMINATE), Shutdown(REQUESTED); the deferred releaseLease |

Sequence numbers are 1, 2, ... per shard, so an iterator is the number of the
record behind which it points. Time is a bounded clock that all processes read;
a lease lasts `LeaseDuration` ticks and is renewed `RefreshMargin` ticks before
its end. Waiting (the sleep between polls, the sleep before the parent is looked
at again) is a step that is not taken yet. Data the properties cannot tell apart
is left out: payloads, partition keys, the shard's sequence range, event ids.

### One process

`AdapterProcess` looks at one process of the KCL half from the inside, where
`Worker` sees several of them meet at the table. In `Worker` a process starts and
ends at any time, in one step; here the start can fail in eight places, the end
takes several threads, and the exchange with stream and table is a choice of the
environment. State: `main` and `exit`, the channels of the two signal handlers
(`pending`, `sigs`) and what they close (`stopCh`, `stop`), the position of the
event loop, the list of consumers started so far, the wait group's counter, and
the monitoring service: its flushing thread (`monitor`, `todo`, `locked`, `sent`)
and its counters (`metrics`). `counted`, `published` and `repeated` serve the properties only:
what was counted, what CloudWatch was told, and what of that was told again later
because the answer of `PutMetricData` was lost.
A process that exits loses all of it. Grain: one action per call that blocks or
per lock that is held; a mutex held across a network call is two actions.

| actions | code |
|---|---|
| `Setup`, `InitClient`, `Session`, `DescribeStream`, `NewWorker`, `Return` | `cmd/receive_adapter/main.go`; `Adapter.Start` |
| `InitMetrics`, `InitCheckpointer`, `StartWorker` | Worker.initialize, Worker.Start |
| `Signal`, `Handle` | delivery of a signal; SetupSignalHandler |
| `GainLease`, `StartConsumer`, `AddConsumer`, `TakeSignal` | one round of the event loop and its select |
| `StopMonitor`, `LoopEnds` | Worker.Shutdown |
| `WaitOnParent`, `ReadBatch`, `CountBatch`, `Stop`, `ReleaseLease`, `LoseLease`, `Done` | getRecords of a consumer with its deferred calls |
| `LockMetric`, `PutMetricData`, `MonitorSelect` | flush, flushShard and the loop of the monitoring service |

### The controller half

State: the source and its Deployments in the API server (`src`, `deps`), the
informer's copies (`srcCache`, `depCache`), whether the key is queued, and the
locals of the Reconcile in progress (`pc`, `orig`, `obj`, `uri`, `ra`, `oldRa`,
`fresh`, `failed`). One worker handles the key (MaxConcurrentReconciles is 1),
so there is one `pc`. Resource versions are only ever compared with the current
one; `current` says which copies are of the current version. `created` records
for which uids a Deployment was ever created, and serves the properties only.

| actions | code |
|---|---|
| `Fetch` | `SDK/reconciler.go` Reconcile up to the call, the deletion branch, addFinalizer, InitializeConditions |
| `GetSinkURI` | `sinks.GetSinkURI`, MarkSink or MarkNoSink |
| `ListDeployments` | getReceiveAdapter, the guard of createReceiveAdapter, podSpecChanged |
| `CreateDeployment`, `CreateFails`, `UpdateDeployment`, `UpdateDeploymentFails` | the writes of createReceiveAdapter, MarkDeployed |
| `Compare`, `UpdateFinalizers`, `Refetch`, `UpdateStatus`, `UpdateRefused`, `UpdateFails` | needsUpdate and update |
| `DeliverSource`, `DeliverDeployments`, `Resync` | informers, handlers and the periodic resync |
| `RestartController` | the process dies in the middle of a Reconcile |
| `CreateSource`, `EditSpec`, `DeleteSource`, `AddForeign`, `RemoveForeign`, `ChangeSink`, `DeleteDeployment`, `CollectGarbage` | users, the sink, other controllers, Kubernetes |

Finalizers are a set: a write that only sorts their list is left out. The
Deployment is compared on the fields that take part in a decision (service
account, secret volume, environment); image and names never change.
The update of a Deployment compares contents in place of versions, which
agrees with the API server as long as a Deployment is not changed, changed back
unseen by the cache, and then changed a third time.

### Clients, informers and the fake

`KinesisSources` has the objects the server stores (`store`), every write it
accepted (`log`; a resource version is a position in it), the copy each caller
holds (`copy`) and what a DeleteCollection under way has still to delete
(`doomed`). A call is one step, with its reply received or lost: a reply that
comes late holds up nobody but its caller. Edits are abstracted to the mark of
their author, so that an edit that is overwritten is a mark that is gone.
`SourceStore` is the abstract specification: one table, edited atomically.
`EditsAreAtomic` says that `KinesisSources` implements it, stored contents being
the table.

`Informers` composes that with the factory (`informers`, `started`, `handle`,
`waits`, and `inside`, who holds its lock) and its one informer: the reflector (`phase`, `at`), the DeltaFIFO
(`queue`, `items`, `populated`, `initial`) and the indexer (`cache`). The
reflector and the process loop are threads of their own, so a list or an event
that is queued and the deltas that are popped are separate actions. Each holds
the lock of the FIFO for its whole step. Of a key's deltas only the type `sync`
and the object matter, since `HandleDeltas` treats added, updated and replaced
objects alike. InformerFor and Start are two steps each, what they look up and what
they make of it, and the lock of the factory is what keeps others out between them.

`FakeClientset` has the tracker's list of objects, the open watches with their
channels, and what the last call returned. `Invokes` locks the fake, so a call
is one step; the reader of a watch is another thread.

| actions | code |
|---|---|
| `Get`, `Create`, `Update`, `UpdateStatus`, `Patch`, `Delete`, `DeleteCollection`, `DeleteNext` | `typed/sources/v1alpha1/kinesissource.go`, one method each; `DeleteNext` is the server's part |
| `InformerFor` and `CreateInformer`, `Start` and `RunInformer`, `WaitForCacheSync`, `PollSynced` | `externalversions/factory.go`, `sources/v1alpha1/kinesissource.go` |
| `List`, `WatchEvent`, `WatchFails`, `Resync` | ListAndWatch and watchHandler in `reflector.go`; Replace, Add, Update, Delete, Resync in `delta_fifo.go` |
| `Pop` | Pop and HandleDeltas |
| `ListerList`, `ListerGet` (operators) | `pkg/client/listers` |
| `Get`, `List`, `Create`, `Update`, `Patch`, `Delete`, `DeleteCollection`, `Watch` of the fake | `fake/fake_kinesissource.go`, and `testing/fixture.go` behind it |

## 3. Runs that pass

Every process of the model may stop for good when its starts are used up, a
source that is settled needs no more steps, a process that has exited takes none,
and a watch of the fake whose channel is full ends the test with a panic: these
runs set `CHECK_DEADLOCK FALSE`. `MCConditions`, `MCSources` and `MCInformers`
check for deadlock.

| run | what it asks | properties |
|---|---|---|
| `MCTwoProcesses` | two processes with one worker id overlap on a shard; table and sink fail | `TypeOK`, `NoSilentLoss`, `OneConsumerPerShard`, `GoesBackOnlyWhenOutdated`, `OrphanedOnlyByGetLease` |
| `MCLineage` | a shard and a child of its split with one lease for both, a restart, failures of table and Kinesis, a table whose reads lag | `WithinLeaseLimit`, `GoesBackOnlyWhenOutdated`, `DeliversInOrder` |
| `MCRestart` | one process, restarted, every kind of failure, leases expire | `PostsOnlyBeyondCheckpoint`, `CheckpointNeverGoesBack`, `DeliversInOrder` |
| `MCLive` | a split and a restart without failing calls, with fairness | `EveryRecordOffered`, `ClosedShardFinishes`, `BlockedChildStarts` |
| `MCConditions` | three dependents and an outsider marked in any order | `HappySummarises` |
| `MCConverge` | edits, deletion and a moving sink, with failing requests, a restart and fairness | `TypeOK`, `DeployedMeansCreated`, `UserSpecKept`, `DeletionCompletes`, `Converges` |
| `MCProcess` | one process from main to its exit code, with failing initialisation, two signals at any time, a parent and its child | `TypeOK`, `WaitGroupCounts`, `LeasesHeldCountsConsumers`, `NoCountIsLost`, `MonitorOutlivesConsumers`, `SignalEndsProcess` |
| `MCSources` | two users and a controller of one namespace, a user of another, stale reads, lost replies | `VersionNamesContent`, `EachWritesItsHalf`, `HandlesKeepToTheirNamespace`, `EditsAreAtomic` |
| `MCInformers` | an informer with a label filter lists, watches and lists again while an object is created, relabelled and deleted | `TypeOK`, `OnlySelected`, `SyncedMeansComplete`, `CacheForward`, `WaitReturns`, `CatchesUp` |
| `MCFake` | a handle with and one without a namespace, two watches | `TypeOK`, `KeysAreUnique`, `WatchesKeepUp`, `ErrorsChangeNothing` |

`NoSilentLoss` is the central one: no row of the table is ever ahead of what was
offered to the sink. It does not say that the sink accepted every record (the
code does not promise that, see 4), nor that records before the very first
iterator are read (they are not: the position is LATEST).

`DeliversInOrder` is the refinement of `Delivery.tla`, which knows neither
processes nor leases nor caches: of each shard there is what was put, what was
offered, what was passed over and what is committed. In `MCLineage`, with reads
that lag, it says that records are offered in their order and that only what
was offered or passed over is committed, up to the end of a closed shard and
while the other shard expires. In `MCRestart`, with fresh reads, it says moreover
that nothing committed is offered again or passed over, and that no commit is undone
(the conjuncts with `Alone`).

`CheckpointNeverGoesBack` and `PostsOnlyBeyondCheckpoint` hold for one process and
consistent reads only, and the code ensures neither: a rolling update overlaps
processes, and FetchCheckpoint reads the table without asking for consistency.
What it does ensure then is `GoesBackOnlyWhenOutdated`, checked with two processes
and with lagging reads: a row goes back only by a put of a process that had not
seen how far it was, never by one that had. Likewise a shard may end up owned
without a consumer (`OwnedHasConsumer`, section 4), but `OrphanedOnlyByGetLease` says
that this takes a GetLease that fails, or loses a race, after FetchCheckpoint has
set the owner: no return of a consumer leaves a lease behind.

`EditsAreAtomic` is a refinement: a stale copy that is written back, a reply that
got lost and was tried again, a DeleteCollection interrupted by creations, are
all steps of a table on which edits are atomic. `SyncedMeansComplete` and
`CatchesUp` except lists that come in while deltas are still queued; section 4
says what those do. `MonitorOutlivesConsumers` and `WaitGroupCounts` speak of a
process that lives: a consumer that returns before it is added to the wait group
panics, which the model has as an exit with code 2.

Bounds. One shard of up to three records and batches of one or two suffice for a
batch in flight, one checkpointed and one behind; two processes are the least
with which leases conflict; two starts give one restart, which is where
persisted state meets cached state; a parent and one child are the least with
which a consumer waits. The clock moves where renewal and expiry are the
question, and stands still elsewhere. `MaxLeases` is one or two (20 in the
adapter): the limit matters only against the number of shards. In the
controller's run there are two values for every string and two steps of users,
sink and failures beyond the creation of the source: a failure after a failure,
or an edit during the retry of a failure. `MCConverge` has room for one
Deployment, since liveness is asked of sources whose Deployment is not
duplicated; the safety properties are proved for any number of them (section 6).
`MaxChanges`, `MaxUID`,
`MaxDeployments`, `MaxHead`, `MaxClock` and `MaxStarts` are the bounds; nothing
else limits the behaviours.

`MCProcess` starts at most two consumers, of a parent and its child or twice of
one shard (a lease that is dropped and taken again is the least with which the
metric could be counted twice); one batch each is counted, before, during or
after a flush; two signals are what main and the worker take. The table is that
of a restart in the middle of the parent, the case in which the child waits. The
bounds are `MaxConsumers`, `MaxBatches` and `MaxSignals`, and `MaxRepeats`, how many
counts of a shard may be published again after an answer was lost: one of the child,
which is all a batch counts, and none of the parent.

`MCSources` lets the server accept three writes (`MaxRevision`): one caller
creates, two read, and both write back, to the same half of the object or to one
each. `MCInformers` too lets it accept three and the reflector
list twice (`MaxLists`): an object is created, leaves the selection or is
deleted, and comes back, around a list anywhere. One key is enough for everything
about one object; the safety properties are proved for any number. It has one caller of
the factory, whose operations come in any order and more than once: what is asked
there is what the informer's cache holds. Several callers only meet in the factory's lock;
`MCFactory.cfg` has three of them and next to no objects, and checks `OneInformer`,
which is also proved for any number (section 6). It passes, and with `LockIgnored`
in the place of `LockIsFree` TLC finds two informers. It is no run of its own. `MCFake` has one name in two namespaces, and channels of two
events in place of 100 (`ChanSize`), so that a slow reader meets the limit.

`Worker` allows processes with ids of their own, merges, and more than one source
in turn. No run of the table above has them: the adapter gives all processes one
id (so the branch of GetLease for a row of another worker is never reached), and
merges and re-created sources break the code (section 4).

No run uses symmetry: the processes share a worker id, the shards have a
lineage, and liveness would not allow it.

## 4. Where the code does not keep what its comments say

Each of these runs checks one statement of the repository and TLC shows a
behaviour of the code that breaks it; `findings` in `PROJECT.json` has the quotations.

| run | statement | what happens |
|---|---|---|
| `MCShardEnd` | `ShardEndMeansProcessed` | a refused batch is logged and passed over; the next checkpoint or SHARD_END covers it |
| `MCDuplicate` | `OneAdapter` | a Deployment with a generated name is created again before the cache shows the first |

The directory holds further configurations in which TLC finds the code breaking
a property. They are not part of the list of runs in `PROJECT.json`; each can be
started like the others, and ends with a counterexample.

| configuration | statement | what happens |
|---|---|---|
| `MCLock` | `LeaseIsALock` | all processes of a source have one worker id, so each takes the other's lease for its own |
| `MCOrphan` | `OwnedHasConsumer` | FetchCheckpoint sets the cached owner, GetLease fails, and from then on the shard counts as owned |
| `MCGoneParent` | `GoneParentIgnored` | the row of a parent that expired while no process ran is never removed; its child waits for ever |
| `MCBackwards` | `CheckpointNeverGoesBack` | of two processes, the slower overwrites the checkpoint of the faster |
| `MCStaleBackwards` | `CheckpointNeverGoesBack` | a restarted process reads an old checkpoint and writes it back with its lease |
| `MCMerge` | `ParentsFirst` | a parent without a checkpoint is taken for deleted, so the child starts |
| `MCMerge` (with `-continue`, the second error) | `AllParentsAwaited` | only one parent of a merged shard is kept and waited for |
| `MCLeaseLimit` | `BlockedChildStarts` | waiting children hold all leases, the parent gets none |
| `MCCannotStart` | `ReadyAdapterStarts` | a role to assign without one to assume passes the guard; the adapter exits at once |
| `MCStaysReady` | `FailureUnreadies` | after a failed Reconcile the source keeps Ready, as MarkNotDeployed is never called |
| `MCForeign` | `ForeignFinalizerKept` | the finalizers of a stale copy are written over a fresh one |
| `MCRole` | `RoleFollowsSpec` | only the pod's spec is compared and updated, the annotation with the role is neither |
| `MCRecreated` | `DeployedMeansCreated` | the status computed for a deleted source is written to its successor of the same name |
| `MCShutDown` | `WorkerIsShutDown` | main returns as soon as the signal handler closes its channel; the worker's own handler has no time to stop the consumers and flush the metrics |
| `MCOvertake` | `ListMayOvertake` | a creation is queued, the object is deleted, and the list after a failed watch lacks it: Replace compares with the indexer only, queues no deletion, and the object stays in the cache. A sync behind a queued deletion is dropped in the same way. reflector.go:173-174 says that a late list is caught up with by watching |
| `MCStaleList` | `CacheForward` | with several API servers, a list with version 0 may be older than what was watched before |

`CollectionDeleted` of `FakeClientset.tla` has no configuration of its own; as a
property of `MCFake.cfg` it is violated. Nothing in the tracker reacts to DeleteCollection: the fake
returns no error and deletes nothing, where fake_kinesissource.go:123 says that it
deletes a collection.

## 5. Fairness

`FairSpec` of `Worker.tla`. Goroutines are scheduled and network calls return, so
the loop's steps and every consumer's steps are weakly fair; the Deployment starts
a process that ended (weak fairness of `StartProcess`). Kinesis may answer with an
empty batch although records wait, and keep a NextShardIterator for a drained
shard, but not for ever: strong fairness of the `GetRecords` steps that make
progress, which are disabled between polls. Nothing is assumed of producers,
reshards, expiry, signals, crashes and the clock. The properties hold for
behaviours in which some process stays up from some moment on
(`StaysUp`) and no shard expires meanwhile: a shard that expires before it is read
is lost to any consumer.

`FairSpec` of `SourceReconciler.tla`. The worker goroutine, the informers, the
resync and the garbage collector are weakly fair. Strong fairness is asked of one
thing, `CatchUp`: again and again the informer delivers the source before the next
attempt starts. `Controller.processNextWorkItem` retries with `AddRateLimited`,
whose delays grow from milliseconds to minutes, so this is what happens. It is
needed: with weak fairness alone TLC finds a controller that writes the
finalizers, reads a cache without that write, is refused, and starts over, for
ever. Users and the sink are not fair, and the foreign finalizer is removed
by its owner once the source is being deleted.

`Spec` of `Informers.tla`. The goroutines of the informer (the reflector's
list and events, the process loop's Pop) and the poll of WaitForCacheSync are
weakly fair. Clients, resyncs, failures of the watch and the close of `stopCh`
are not. `CatchesUp` is about what happens after the last write, which the bound
on writes brings about in every behaviour.

`Spec` of `AdapterProcess.tla`. main, whose calls return, and the goroutine of
the signal handler are weakly fair; that is all `SignalEndsProcess` needs. Nothing
is assumed of the event loop, the consumers and the service: a child may poll for
its parent for ever, and main does not depend on it.

`SourceStore`, `Delivery`, `KinesisSources` and `FakeClientset` state no fairness: their
callers owe nobody a call.

## 6. Proofs

All are checked by TLAPS for any shards, lineage, processes, bounds and sets of
failing calls that satisfy the `ASSUME`s of the modules; no constant is given a
value. A theorem that needs more says so as a named hypothesis, and where the
hypothesis is one the code does not ensure, a configuration of section 4 shows
what happens without it:

| hypothesis | meaning | without it |
|---|---|---|
| `SharedWorkerID` | all processes have one worker id (`adapter.go:139` configures it) | not a case of this program |
| `FiniteShards` | the stream has finitely many shards, so that they can be counted | not a case of this program |
| `NotRecreated` | a source is created once under its name | `MCRecreated` |
| `OneServer` | one API server, so that no list is older than what was watched | `MCStaleList` |

The KCL half:

* `WorkerProofs!TypeCorrect`: `Spec => []TypeOK`. `TypeOK` alone is not inductive:
  the loop indexes by `cand[p]`, which is a shard only while a lease is asked
  for. `LoopInv` says so, and is proved along with it.
* `WorkerProofs!NothingLostSilently`: `Spec => []NoSilentLoss`. The table's rows are
  written from the cached `shardStatus` and from the consumer's position, and the
  cache is filled from rows a lagging replica returns. `LossInv` therefore says
  of all of them what `NoSilentLoss` says of the table: every checkpoint in a row, a
  replica or a cache, and every iterator in use, is covered by records that were
  offered or skipped; a batch that ends a shard ends with its last record. New
  records keep this (they lie beyond `head`), and fates never return to unseen.
  The proof has one lemma per kind of step. It needs no assumption on
  worker ids or clocks: overlap of processes costs duplicates, not records.
* `WorkerProofs!NeverTwoConsumers`: `SharedWorkerID /\ Spec => []OneConsumerPerShard`.
  With one id for all processes a row with a checkpoint
  carries that id, so a FetchCheckpoint by a running consumer cannot
  change the cached owner of its shard; that is `OwnRow` in `ConsumerInv`. A shard
  that is consumed leaves the map only when it is gone, so it cannot enter again
  with an empty status.
* `CheckpointProofs!DeliveryIsKept`: `Spec => DeliversInOrder`, without any hypothesis: the
  promise itself distinguishes processes that are `Alone` from others. A batch
  becomes `Offer` because the iterator is covered (`LossInv`) and beyond the row
  (`ProgressInv`); an iterator of type LATEST is `Pass`; the steps that write a row
  are `Commit`, for what they write is covered after the step and not behind what
  was there; the rows syncShard removes are `Forget`, as their shards are gone. All
  other steps change nothing the promise speaks of. The second half, that nothing
  committed is offered again, is promised only if `Alone` holds (one process at a
  time, reads that do not lag), and so is its invariant: `ProgressInv` orders the
  row, the cached checkpoint and the position of the consumer. The first half
  rests on none of this.
* `CheckpointProofs!NothingKnownIsPosted`: `SharedWorkerID /\ Spec => []PostsOnlyBeyondCached`,
  for any number of processes, lagging reads and failing calls: a batch about to be
  posted is beyond the checkpoint its process has cached. `KnownInv` follows the
  cached checkpoint and the iterator through the places of a consumer; that nobody
  else changes either rests on `ConsumerInv`, as a second consumer of the shard or
  a status that is dropped and read again would break the order.
* `CheckpointProofs!OnlyOutdatedGoBack`: `SharedWorkerID /\ Spec => GoesBackOnlyWhenOutdated`.
  Rows are overwritten unconditionally from the cache (GetLease, the renewal) and from
  the position of the consumer (CheckpointSequence). The first cannot be behind a
  row that the cache is not behind, and the second is not behind the cache
  (`KnownInv`). So whoever takes a row back had a cache behind it (`Outdated`).
* `CheckpointProofs!OrphansComeFromGetLease`: `SharedWorkerID /\ Spec => OrphanedOnlyByGetLease`.
  A cached owner is this process or nobody, since rows, replicas and the row that
  GetLease has read have one worker id at most (`OwnersInv`). A consumer that returns
  empties the cached owner, and a process that starts has an empty map. What is left
  is the loop between FetchCheckpoint and the answer of GetLease; without failing
  calls that answer is a refusal only if the row changed since it was read.
* `CheckpointProofs!LeaseLimitKept`: `WithinLeaseLimit` for any number of processes,
  with stale reads and failures. The code counts leases once per round and
  checks the limit before the scan; `LimitInv` says that a loop in the scan still has a lease
  to give, that a round starts one consumer at most, and that a consumed shard that
  has reached SHARD_END (and so no longer counts in the loop's own sum) has
  none left that reads. The set of consumed shards is counted, hence `FiniteShards`.

One process:

* `ProcessProofs!TypeCorrect`, `WaitGroupIsRight`, `LeaseMetricIsRight`, `CountsAreKept`,
  `MonitorIsStoppedLast`: all invariants of `MCProcess`, for any shards, lineage,
  number of consumers, batches and signals. `IInv` is inductive only as a whole: the counters agree
  with the list of consumers (`WaitGroupCounts`, `LeasesHeldCountsConsumers`) only because
  the loop holds at most one shard whose consumer is not yet started (`LoopPart`),
  a flush that resets a counter resets what it has sent because nobody counts
  while it holds the lock (`FlushPart`), a flush without an answer keeps the counter
  and adds as much to what is published as to what is repeated, and a count can be lost only after the
  service was told to stop, which `MonitorOutlivesConsumers` puts after the wait.
  The sums are cardinalities of sets of consumers, so the lemmas say how a
  change of one consumer's place changes them.

Conditions and reconcilers:

* `ConditionsProofs!HappySumsUp`: `TypeOK` and `HappySummarises` of the condition manager,
  if there is a dependent. Neither half of the summary is inductive without the other.
* `ReconcilerProofs!TypeCorrect`: `IInv` ties the places of Reconcile to its locals (an
  object is in hand, an update has a Deployment that was once created) and the
  copies to the versions they claim.
* `ReconcilerProofs!EditsSurvive`: `Spec => UserSpecKept`, for any number of edits,
  deletions, failures and restarts. The two writes of one Reconcile take different parts of
  an object: the first writes all but the status and is refused unless its copy is current,
  and a copy that counts as current has the stored spec (`Copies`); the second goes
  through the status subresource.
* `ReconcilerProofs!DeployedIsTrue`: `NotRecreated /\ Spec => []DeployedMeansCreated`. A
  status travels: it is computed on `obj`, written over `fresh`, stored in `src`, and
  read back into `srcCache`, and a later Reconcile starts from what it reads. So
  `Truthful` asks of all four that the Deployment they claim was created.

Clients, informers and the fake:

* `SourcesProofs!ClientsetImplementsStore`: `ClientsSpec => EditsAreAtomic`, the
  refinement of `SourceStore`, for any callers, namespaces, controllers and number of
  writes. Every method is first shown to be a read of some version or a write of one
  of four kinds (`StepReadsOrWrites`); each kind is an action of `SourceStore`
  (`WriteIsAtomicEdit`). An Update writes what its caller *holds*, so the step needs that a
  copy whose version is the stored one has the stored content. That is
  `VersionNamesContent`, which is not inductive alone: Get may return any entry of
  the log, so entries must carry their position as version
  (`PositionsAreVersions`), and a copy must lie in its holder's namespace
  (`CopiesAreAtHome`). The assumption is that the value for absence is no object.
* `SourcesProofs!VersionsNameContents`, `HalvesStayApart` and `NamespacesStayApart`: the
  other properties of `MCSources`, from the same invariant.
* `InformersProofs!TypeCorrect` and `OneInformerRuns`: any number of callers of the factory
  share one informer, and it runs once (`FactoryInv`): one of them at most is inside the
  factory, and what it found when it took the lock is still so. That a key is in the
  queue of the DeltaFIFO exactly once, if it has deltas, is part of the type
  (`QueueInv`): five operations queue keys and `Pop` takes them out.
* `InformersProofs!OnlySelectedSeen`: needs `ContentAt`, of the cache *and* of the delta
  that will be applied last: both are versions the server wrote, and selected.
  It rests on the invariant of `KinesisSources`, which a lagging read refers to.
* `InformersProofs!CacheGoesForward` (`OneServer /\ Spec => CacheForward`): `OrderAt` orders,
  for every key, the cached version, the last delta and the position of the watch.
* `InformersProofs!SyncedIsComplete` (`OneServer /\ Spec => []SyncedMeansComplete`): `KeptAt`
  follows an object of the first list from the queue to the cache, as long as it is
  there. HasSynced counts the keys of the first list that are still queued, so the
  proof says *where* in the queue they are: among the first `initial` ones. With
  a list over queued deltas the property is false (`MCOvertake`), which is why it
  excepts them.
* `FakeProofs!TypeCorrect`, `KeysStayUnique`, `WatchesMissNothing`, `ErrorsAreHarmless`:
  the properties of `MCFake`, for any handles, namespaces and
  watches. That the reader of a watch with the events in its channel knows
  what the tracker has is inductive with two more facts: keys are unique, or
  an event would name two objects, and the channel of a closed watch is empty
  (`IdleIsEmpty`), or the next watch would begin with old events. `Replay`, what a
  sequence of events makes of what is known, is written as the set it yields
  (objects no event names, and those whose last event left them), since
  nothing can be proved by induction over the sequence; `ReplayLast` and
  `ReplayFirst` show that it grows by one event at either end as it should.

`LoopInv`, `LossInv`, `ConsumerInv`, `KnownInv`, `ProgressInv`, `OwnersInv`, `LimitInv` and the invariants of the
other modules were checked by TLC before they were proved.

Only model-checked: all liveness properties (`EveryRecordOffered`,
`ClosedShardFinishes`, `BlockedChildStarts`, `DeletionCompletes`, `Converges`,
`SignalEndsProcess`, `WaitReturns`, `CatchesUp`), which are out of the prover's reach; their
fairness is that of section 5; and two safety properties of `MCRestart`,
`PostsOnlyBeyondCheckpoint` and `CheckpointNeverGoesBack`, which need one process and
fresh reads. (`DeliveryIsKept` includes what they say of the table, as part of what
is promised to a process that is `Alone`.) Every other safety property of a passing
run is proved.

## 7. Plan

Done: stream, table, consumer, worker; conditions; Deployment and reconcilers;
the adapter process with its wait group and metrics; the clientset with its abstract
specification; the informers; the fake; for each of them the proofs of
its safety properties, that the worker implements `Delivery`, and that the
clientset implements `SourceStore`.

Next, in this order:

1. `DeployedMeansCreated` for a source that is created again, in the form
   that does hold: the status speaks of some incarnation of its name.
2. The work queue of client-go (dirty and processing sets, back-off) with an
   abstract queue it implements, in place of the `queued` flag.

## 8. Not modelled, and why

* Creation of the DynamoDB table (`Init`, `createTable`): the table exists.
* The filter of an informer by namespace: `Scope` is part of the model and of the proofs,
  but the run has one namespace, so it exercises the filter by labels only.
* A request to DynamoDB that takes effect after the client gave up on it, behind
  later requests; answers that are lost are modelled.
* The counters of the KCL other than records processed and leases held: bytes,
  the milliseconds behind latest, the times of reads and batches and the renewals are
  changed under the same mutex and sent in the same request. The service that exports
  to Prometheus and the one that does nothing: the adapter configures CloudWatch.
* Serialisation and transport of the CloudEvent: `PostMessage` is accepted,
  refused, or accepted with its answer lost. Event ids (they are built from a
  pointer, see the hazard list) are no part of any property.
* Deep copies (`zz_generated.deepcopy.go`): the models have values in place of
  pointers, so sharing of memory between a copy and its original cannot be stated.
* Handlers that are added to a shared informer, with their own queues: nothing in
  the repository adds one. `generic.go` and the `interface.go` files choose the
  informer of a resource, and there is one.
* The set-up of the REST client and of the discovery client (`clientset.go`,
  `NewForConfig`): configuration. What the client does on the wire is external.
* A List of the fake followed by a Watch: the fake's Watch ignores resource versions
  and sends nothing of what is there, so a reader in the model knows the table at
  the moment it opens the watch. The list of recorded actions is left out.
* The controller's main (configuration, no leader election), KCL's configuration type.

## 9. Running

```
tlc -workers 2 -config MCTwoProcesses.cfg MCWorker      # also: MCProcess, MCSources, MCInformers, MCFake,
                                                        #   MCConditions, MCReconciler
tlapm WorkerProofs.tla                                  # also: CheckpointProofs, ConditionsProofs, SourcesProofs,
                                                        #   InformersProofs, ProcessProofs, FakeProofs, ReconcilerProofs
```

Definitions marked "Bug variant" are not part of any specification: each is the
body of the definition after it with a plausible mistake, and putting it in that
definition's place makes TLC report the property that guards against it.
