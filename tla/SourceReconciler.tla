-------------------------- MODULE SourceReconciler --------------------------
(* The controller of one KinesisSource: the reconciler of kinesissource.go    *)
(* inside the generic one of eventing-sources (sdk/reconciler.go), which      *)
(* reads the source and its Deployments from informer caches and writes to    *)
(* the API server under optimistic concurrency.  Every request is a step of   *)
(* its own; users, the sink, the garbage collector and the informers act      *)
(* between any two of them.                                                   *)
EXTENDS ReceiveAdapter, Integers, FiniteSets

CONSTANTS
    Specs,          \* the specs users give the source
    Addresses,      \* the addresses the sink may have
    Ours,           \* the finalizer of this controller
    Foreign,        \* a finalizer of somebody else
    Faults,         \* requests that may fail: "create", "update"
    MaxUID,         \* bound: how often the source is created
    MaxDeployments, \* bound: how many Deployments there are at a time
    MaxChanges      \* bound: other steps of users and the sink, and failures

ASSUME ReconcilerAssumption ==
    /\ Specs \subseteq SourceSpec
    /\ Addresses \subseteq Value
    /\ Ours # Foreign
    /\ Faults \subseteq {"create", "update"}
    /\ MaxUID \in Nat /\ MaxDeployments \in Nat /\ MaxChanges \in Nat

(* The conditions of a KinesisSource.                                         *)
INSTANCE ConditionSet WITH
    Happy <- "Ready", Dependents <- {"SinkProvided", "Deployed"}, Others <- {}

VARIABLES
    src,       \* the source in the API server; uid 0 when there is none
    uids,      \* how often it was created
    deps,      \* the Deployments in the API server; owner 0 in a free slot
    created,   \* the sources (uids) a Deployment was created for
    sink,      \* the address the sink resolves to, Empty when it does not
    changes,   \* steps of the environment so far
    srcCache,  \* the source in the informer's cache
    depCache,  \* the Deployments in the informer's cache
    queued,    \* the source's key is in the work queue
    pc,        \* where the reconciler is
    orig,      \* the source as it was read
    obj,       \* the copy of it that Reconcile changes
    uri,       \* the address of the sink GetSinkURI returned
    ra,        \* the slot of the Deployment to update
    oldRa,     \* that Deployment as it was read
    fresh,     \* the source as update read it again and will write it
    current,   \* which of srcCache and fresh are of the current version
    failed     \* Reconcile returned an error

apiVars == <<src, uids, deps, created>>
cacheVars == <<srcCache, depCache>>
localVars == <<orig, obj, uri, ra, oldRa, fresh, failed>>
vars == <<apiVars, current, sink, changes, cacheVars, queued, pc, localVars>>

Finalizers == {Ours, Foreign}
Slot == 1..MaxDeployments

(* KinesisSourceStatus.                                                       *)
Status == [conds : Conditions, sinkURI : StringValue]
NewStatus == [conds |-> NoConditions, sinkURI |-> Empty]

NoSpec == [secretName |-> Empty, secretKey |-> Empty, assignedRole |-> Empty,
           kclRole |-> Empty, serviceAccount |-> Empty]
NoSource == [uid |-> 0, deleting |-> FALSE, fins |-> {},
             spec |-> NoSpec, status |-> NewStatus]

NoDeployment == [owner |-> 0, template |-> Template(NoSpec, Empty)]

SourceType == [uid : 0..MaxUID, deleting : BOOLEAN, fins : SUBSET Finalizers,
               spec : SourceSpec, status : Status]
DeploymentType == [owner : 0..MaxUID, template : TemplateType]

(* Types; once the sink is resolved Reconcile goes on with an address of it.  *)
TypeOK ==
    /\ {src, srcCache, orig, obj, fresh} \subseteq SourceType
    /\ uids \in 0..MaxUID
    /\ created \subseteq 1..MaxUID
    /\ deps \in [Slot -> DeploymentType] /\ depCache \in [Slot -> DeploymentType]
    /\ sink \in Addresses \cup {Empty}
    /\ uri \in IF pc \in {"list", "create", "updateDep"} THEN Addresses ELSE StringValue
    /\ ra \in 0..MaxDeployments /\ oldRa \in DeploymentType
    /\ changes \in 0..MaxChanges
    /\ current \subseteq {"srcCache", "fresh"}
    /\ queued \in BOOLEAN /\ failed \in BOOLEAN
    /\ pc \in {"idle", "sink", "list", "create", "updateDep", "diff",
               "finalizers", "refetch", "status"}

Init ==
    /\ src = NoSource /\ srcCache = NoSource
    /\ uids = 0 /\ created = {} /\ changes = 0
    /\ deps = [i \in Slot |-> NoDeployment] /\ depCache = deps
    /\ sink \in Addresses \cup {Empty}
    /\ queued = FALSE /\ pc = "idle" /\ failed = FALSE
    /\ orig = NoSource /\ obj = NoSource /\ fresh = NoSource
    /\ current = {"srcCache"}
    /\ uri = Empty /\ ra = 0 /\ oldRa = NoDeployment

Exists(source) == source.uid # 0
Goto(state) == pc' = state

(* A step of the environment, and a request that fails for no good reason.    *)
Change == changes < MaxChanges /\ changes' = changes + 1
Fault(request) == request \in Faults /\ Change

-----------------------------------------------------------------------------
(* The API server *)

(* Resource versions are only compared with the current one, so all that is   *)
(* kept of them is which copies of the source are current.                    *)

(* What a write leaves: a deleted source without finalizers disappears.       *)
Stored(new) == IF new.deleting /\ new.fins = {} THEN NoSource ELSE new
Current(source) == IF source = src THEN current ELSE {}
Write(new) == src' = Stored(new) /\ current' = Current(Stored(new))

(* Bug variant: writes without a resource version are never refused.          *)
UpdateUnconditional ==
    /\ Exists(src)
    /\ src.deleting => fresh.fins \subseteq src.fins

(* Update of the resource: not the status; no new finalizers while deleting.  *)
UpdateAllowed ==
    /\ Exists(src) /\ "fresh" \in current
    /\ src.deleting => fresh.fins \subseteq src.fins

(* Update of the status subresource: nothing but the status.                  *)
StatusUpdateAllowed == Exists(src) /\ "fresh" \in current
WithStatus(source) == [source EXCEPT !.status = fresh.status]

-----------------------------------------------------------------------------
(* The generic reconciler: fetch, Reconcile, compare, write back *)

(* Reconcile returns: with an error the key is queued again.                  *)
Return(error) ==
    /\ Goto("idle")
    /\ queued' = (queued \/ error)
    /\ orig' = NoSource /\ obj' = NoSource /\ fresh' = NoSource
    /\ uri' = Empty /\ ra' = 0 /\ oldRa' = NoDeployment /\ failed' = FALSE

(* The source is read from the cache.  A source being deleted only loses the  *)
(* finalizer; any other gets it, and its conditions are initialized.          *)
Initialized(s) == [s EXCEPT !.fins = @ \cup {Ours},
                            !.status.conds = InitializeConditions(@)]
Fetch ==
    /\ pc = "idle"
    /\ queued
    /\ queued' = FALSE
    /\ IF ~Exists(srcCache)
       THEN UNCHANGED <<pc, localVars>>
       ELSE /\ orig' = srcCache
            /\ IF srcCache.deleting
               THEN /\ obj' = [srcCache EXCEPT !.fins = @ \ {Ours}]
                    /\ Goto("diff")
               ELSE /\ obj' = Initialized(srcCache)
                    /\ Goto("sink")
            /\ UNCHANGED <<uri, ra, oldRa, fresh, failed>>
    /\ UNCHANGED <<apiVars, current, sink, changes, cacheVars>>

(* Reconcile ends, with or without an error, and leaves obj.                  *)
Reconciled(new, error) ==
    /\ obj' = new
    /\ failed' = error
    /\ Goto("diff")

(* Bug variant: only the status is compared.                                  *)
NeedsStatusUpdate == obj.status # orig.status

(* needsUpdate, and the first Get of update: both on caches.                  *)
NeedsUpdate == obj.status # orig.status \/ obj.fins # orig.fins
Reread(new) ==
    /\ fresh' = new
    /\ current' = IF "srcCache" \in current THEN {"srcCache", "fresh"} ELSE {}
    /\ UNCHANGED <<queued, orig, obj, uri, ra, oldRa, failed>>

Compare ==
    /\ pc = "diff"
    /\ IF ~NeedsUpdate THEN Return(failed) /\ UNCHANGED current
       ELSE IF ~Exists(srcCache) THEN Return(TRUE) /\ UNCHANGED current
       ELSE Reread([srcCache EXCEPT !.fins = obj.fins]) /\ Goto("finalizers")
    /\ UNCHANGED <<apiVars, sink, changes, cacheVars>>

UpdateFinalizers ==
    /\ pc = "finalizers"
    /\ UpdateAllowed
    /\ Write(fresh)
    /\ Goto("refetch")
    /\ UNCHANGED <<uids, deps, created, sink, changes, cacheVars, queued, localVars>>

(* The second Get of update reads the cache as well, which need not have seen *)
(* the write of the finalizers.                                               *)
Refetch ==
    /\ pc = "refetch"
    /\ IF ~Exists(srcCache) THEN Return(TRUE) /\ UNCHANGED current
       ELSE Reread([srcCache EXCEPT !.status = obj.status]) /\ Goto("status")
    /\ UNCHANGED <<apiVars, sink, changes, cacheVars>>

UpdateStatus ==
    /\ pc = "status"
    /\ StatusUpdateAllowed
    /\ Write(WithStatus(src))
    /\ Return(failed)
    /\ UNCHANGED <<uids, deps, created, sink, changes, cacheVars>>

(* A write is refused.                                                        *)
UpdateRefused ==
    /\ \/ pc = "finalizers" /\ ~UpdateAllowed
       \/ pc = "status" /\ ~StatusUpdateAllowed
    /\ Return(TRUE)
    /\ UNCHANGED <<apiVars, current, sink, changes, cacheVars>>

(* A write fails although it is allowed, or its answer is lost.               *)
UpdateFails ==
    /\ Fault("update")
    /\ \/ pc = "finalizers" /\ UpdateAllowed /\ (Write(src) \/ Write(fresh))
       \/ pc = "status" /\ StatusUpdateAllowed /\ (Write(src) \/ Write(WithStatus(src)))
    /\ Return(TRUE)
    /\ UNCHANGED <<uids, deps, created, sink, cacheVars>>

-----------------------------------------------------------------------------
(* Reconcile of a KinesisSource *)

MarkSink(status, address) ==
    [conds |-> MarkTrue(status.conds, "SinkProvided"), sinkURI |-> address]
MarkNoSink(status) == [status EXCEPT !.conds = MarkFalse(@, "SinkProvided")]
MarkDeployed(status) == [status EXCEPT !.conds = MarkTrue(@, "Deployed")]

Deployed(source) == [source EXCEPT !.status = MarkDeployed(@)]

(* Bug variant: the error of a sink that does not resolve is dropped.         *)
GetSinkURIUnchecked ==
    /\ pc = "sink"
    /\ obj' = [obj EXCEPT !.status = MarkSink(@, sink)]
    /\ uri' = sink
    /\ Goto("list")
    /\ UNCHANGED failed
    /\ UNCHANGED <<apiVars, current, sink, changes, cacheVars, queued,
                   orig, ra, oldRa, fresh>>

(* The sink is read from the API server itself.                               *)
GetSinkURI ==
    /\ pc = "sink"
    /\ IF sink = Empty
       THEN /\ Reconciled([obj EXCEPT !.status = MarkNoSink(@)], TRUE)
            /\ UNCHANGED uri
       ELSE /\ obj' = [obj EXCEPT !.status = MarkSink(@, sink)]
            /\ uri' = sink
            /\ Goto("list")
            /\ UNCHANGED failed
    /\ UNCHANGED <<apiVars, current, sink, changes, cacheVars, queued,
                   orig, ra, oldRa, fresh>>

(* getReceiveAdapter returns some cached Deployment controlled by the source; *)
(* createReceiveAdapter compares it with the one expected.  The bound makes a *)
(* new Deployment wait for a free slot.                                       *)
Controlled(deployments, uid) == {i \in Slot : deployments[i].owner = uid}
FreeSlots == {i \in Slot : deps[i].owner = 0 /\ depCache[i].owner = 0}
ListDeployments ==
    /\ pc = "list"
    /\ LET found == Controlled(depCache, obj.uid) IN
          \/ /\ ConfigurationError(obj.spec)
             /\ Reconciled(obj, TRUE)
             /\ UNCHANGED <<ra, oldRa>>
          \/ /\ ~ConfigurationError(obj.spec)
             /\ found = {} /\ FreeSlots # {}
             /\ Goto("create")
             /\ UNCHANGED <<obj, ra, oldRa, failed>>
          \/ /\ ~ConfigurationError(obj.spec)
             /\ \E i \in found :
                   IF PodSpecChanged(depCache[i].template.pod, PodSpec(obj.spec, uri))
                   THEN /\ ra' = i
                        /\ oldRa' = depCache[i]
                        /\ Goto("updateDep")
                        /\ UNCHANGED <<obj, failed>>
                   ELSE /\ Reconciled(Deployed(obj), FALSE)
                        /\ UNCHANGED <<ra, oldRa>>
    /\ UNCHANGED <<apiVars, current, sink, changes, cacheVars, queued, orig, uri, fresh>>

(* The new Deployment gets a generated name, so nothing stops a second one.   *)
Create ==
    LET slot == CHOOSE i \in FreeSlots : TRUE IN
    /\ deps' = [deps EXCEPT ![slot] = [owner |-> obj.uid,
                                       template |-> Template(obj.spec, uri)]]
    /\ created' = created \cup {obj.uid}

CreateDeployment ==
    /\ pc = "create"
    /\ Create
    /\ Reconciled(Deployed(obj), FALSE)
    /\ UNCHANGED <<src, uids, current, sink, changes, cacheVars, queued,
                   orig, uri, ra, oldRa, fresh>>

(* Bug variant: the error of the request is dropped.                          *)
CreateErrorIgnored ==
    /\ pc = "create"
    /\ Fault("create")
    /\ Create \/ UNCHANGED <<deps, created>>
    /\ Reconciled(Deployed(obj), FALSE)
    /\ UNCHANGED <<src, uids, current, sink, cacheVars, queued,
                   orig, uri, ra, oldRa, fresh>>

(* The request fails, or its answer is lost.                                  *)
CreateFails ==
    /\ pc = "create"
    /\ Fault("create")
    /\ Create \/ UNCHANGED <<deps, created>>
    /\ Reconciled(obj, TRUE)
    /\ UNCHANGED <<src, uids, current, sink, cacheVars, queued,
                   orig, uri, ra, oldRa, fresh>>

(* Update of the Deployment: the pod is replaced, the annotation for KIAM is  *)
(* not.  It is refused if the Deployment changed since it was cached.  Its    *)
(* content stands for its version: the two differ only after a change and a   *)
(* change back that the cache missed, with a third one to be written.         *)
ReplacePod == deps' = [deps EXCEPT ![ra].template.pod = PodSpec(obj.spec, uri)]
UpdateDeployment ==
    /\ pc = "updateDep"
    /\ IF deps[ra] = oldRa
       THEN /\ ReplacePod
            /\ Reconciled(Deployed(obj), FALSE)
       ELSE /\ Reconciled(obj, TRUE)
            /\ UNCHANGED deps
    /\ UNCHANGED <<src, uids, created, current, sink, changes, cacheVars, queued,
                   orig, uri, ra, oldRa, fresh>>

(* The request fails although it is allowed, or its answer is lost.           *)
UpdateDeploymentFails ==
    /\ pc = "updateDep"
    /\ Fault("update")
    /\ deps[ra] = oldRa /\ (ReplacePod \/ UNCHANGED deps)
    /\ Reconciled(obj, TRUE)
    /\ UNCHANGED <<src, uids, created, current, sink, cacheVars, queued,
                   orig, uri, ra, oldRa, fresh>>

ReconcilerStep ==
    \/ Fetch \/ GetSinkURI \/ ListDeployments
    \/ CreateDeployment \/ CreateFails
    \/ UpdateDeployment \/ UpdateDeploymentFails
    \/ Compare \/ UpdateFinalizers \/ Refetch \/ UpdateStatus
    \/ UpdateRefused \/ UpdateFails

-----------------------------------------------------------------------------
(* Informers: a change arrives in the cache and queues the source's key; the  *)
(* sink is not watched, so only the periodic resync notices it.               *)
DeliverSource ==
    /\ "srcCache" \notin current
    /\ srcCache' = src
    /\ current' = current \cup {"srcCache"}
    /\ queued' = TRUE
    /\ UNCHANGED <<apiVars, sink, changes, depCache, pc, localVars>>

DeliverDeployments ==
    /\ depCache # deps
    /\ depCache' = deps
    /\ queued' = TRUE
    /\ UNCHANGED <<apiVars, current, sink, changes, srcCache, pc, localVars>>

Resync ==
    /\ Exists(srcCache) /\ ~queued
    /\ queued' = TRUE
    /\ UNCHANGED <<apiVars, current, sink, changes, cacheVars, pc, localVars>>

(* The controller dies in the middle of a Reconcile, and lists everything     *)
(* anew (at rest, that would be a delivery and no more).                      *)
RestartController ==
    /\ Change
    /\ pc # "idle"
    /\ srcCache' = src /\ depCache' = deps
    /\ current' = {"srcCache"}
    /\ Goto("idle")
    /\ queued' = Exists(src)
    /\ orig' = NoSource /\ obj' = NoSource /\ fresh' = NoSource
    /\ uri' = Empty /\ ra' = 0 /\ oldRa' = NoDeployment /\ failed' = FALSE
    /\ UNCHANGED <<apiVars, sink>>

-----------------------------------------------------------------------------
(* Users, other controllers, and the garbage collector *)

ChangeSource(new) ==
    /\ Write(new)
    /\ UNCHANGED <<uids, deps, created, sink, cacheVars, queued, pc, localVars>>

CreateSource(spec) ==
    /\ ~Exists(src) /\ uids < MaxUID
    /\ uids' = uids + 1
    /\ Write([NoSource EXCEPT !.uid = uids', !.spec = spec])
    /\ UNCHANGED <<deps, created, sink, changes, cacheVars, queued, pc, localVars>>

EditSpec(spec) ==
    /\ Change
    /\ Exists(src) /\ ~src.deleting /\ spec # src.spec
    /\ ChangeSource([src EXCEPT !.spec = spec])

DeleteSource ==
    /\ Change
    /\ Exists(src) /\ ~src.deleting
    /\ ChangeSource([src EXCEPT !.deleting = TRUE])

AddForeign ==
    /\ Change
    /\ Exists(src) /\ ~src.deleting /\ Foreign \notin src.fins
    /\ ChangeSource([src EXCEPT !.fins = @ \cup {Foreign}])

(* Its owner takes a finalizer away once the source is being deleted.         *)
RemoveForeign ==
    /\ src.deleting /\ Foreign \in src.fins
    /\ ChangeSource([src EXCEPT !.fins = @ \ {Foreign}])
    /\ UNCHANGED changes

ChangeSink(address) ==
    /\ Change
    /\ address # sink
    /\ sink' = address
    /\ UNCHANGED <<apiVars, current, cacheVars, queued, pc, localVars>>

Remove(i) ==
    /\ deps' = [deps EXCEPT ![i] = NoDeployment]
    /\ UNCHANGED <<src, uids, created, current, sink, cacheVars, queued, pc, localVars>>

DeleteDeployment(i) ==
    /\ Change
    /\ deps[i].owner # 0
    /\ Remove(i)

CollectGarbage(i) ==
    /\ deps[i].owner \notin {0, src.uid}
    /\ Remove(i)
    /\ UNCHANGED changes

EnvironmentStep ==
    \/ \E spec \in Specs : CreateSource(spec) \/ EditSpec(spec)
    \/ DeleteSource \/ AddForeign \/ RemoveForeign
    \/ \E address \in Addresses \cup {Empty} : ChangeSink(address)
    \/ \E i \in Slot : DeleteDeployment(i) \/ CollectGarbage(i)

Next ==
    \/ ReconcilerStep
    \/ DeliverSource \/ DeliverDeployments \/ Resync \/ RestartController
    \/ EnvironmentStep

Spec == Init /\ [][Next]_vars

(* The controller's worker keeps going, informers deliver and resync, the     *)
(* garbage collector works, and whoever set the other finalizer removes it.   *)
(* Retries back off exponentially (AddRateLimited), so that again and again   *)
(* the informer catches up before the next one; without that, the controller  *)
(* may chase its own writes of the finalizers for ever.                       *)
CatchUp == DeliverSource /\ pc = "idle"

FairSpec ==
    /\ Spec
    /\ WF_vars(ReconcilerStep)
    /\ WF_vars(DeliverSource) /\ SF_vars(CatchUp)
    /\ WF_vars(DeliverDeployments) /\ WF_vars(Resync)
    /\ WF_vars(RemoveForeign)
    /\ \A i \in Slot : WF_vars(CollectGarbage(i))

-----------------------------------------------------------------------------
(* Safety *)

Condition(source, type) == source.status.conds[type]
Ready(source) == Condition(source, "Ready") = "True"

(* DeployedMeansCreated: a source that says Deployed has had a Deployment     *)
(* created for it, whatever caches, conflicts, lost answers and restarts came *)
(* in between (createReceiveAdapter, MarkDeployed, update).                   *)
DeployedMeansCreated ==
    Condition(src, "Deployed") = "True" => src.uid \in created

(* UserSpecKept: the controller writes back whole objects it read from a      *)
(* cache, and yet never undoes a user's edit of the spec or a deletion        *)
(* (update: the finalizers, then the status).                                 *)
UserSpecKept ==
    [][ReconcilerStep => \/ ~Exists(src')
                         \/ src'.spec = src.spec /\ src'.deleting = src.deleting]_vars

(* OneAdapter: a source never has two Deployments ("Create a receive adapter  *)
(* in the form of a Deployment", Reconcile).                                  *)
OneAdapter == Cardinality(Controlled(deps, src.uid)) <= 1 \/ ~Exists(src)

(* ReadyAdapterStarts: the adapter of a source that is Ready can start        *)
(* ("Ready has status True when the source is ready to send events").         *)
ReadyAdapterStarts ==
    Exists(src) /\ Ready(src) =>
        \A i \in Controlled(deps, src.uid) : CanStart(deps[i].template.pod.env)

(* FailureUnreadies: a Reconcile that ends in an error does not leave the     *)
(* source Ready (Reconcile, MarkNoSink; MarkNotDeployed is never called).     *)
FailureUnreadies == pc = "diff" /\ failed => ~Ready(obj)

(* ForeignFinalizerKept: writing back the result of Reconcile leaves the      *)
(* finalizers of others as they are ("write back any status updates").        *)
ForeignFinalizerKept ==
    [][UpdateFinalizers => (Foreign \in src.fins <=> Foreign \in src'.fins)]_vars

-----------------------------------------------------------------------------
(* Liveness *)

(* DeletionCompletes: a deleted source disappears, through stale caches,      *)
(* conflicts and restarts (removeFinalizer, update, the retry of errors).     *)
DeletionCompletes ==
    \A u \in 1..MaxUID : (src.uid = u /\ src.deleting) ~> src.uid # u

(* Converges: when users and sink leave a valid source alone, some Deployment *)
(* of it gets the environment its spec and sink ask for, and its status says  *)
(* Ready with the address of the sink.                                        *)
Wanted == Exists(src) /\ ~src.deleting /\ sink # Empty /\ ~ConfigurationError(src.spec)
UpToDate ==
    /\ Ready(src) /\ src.status.sinkURI = sink
    /\ \E i \in Controlled(deps, src.uid) :
          deps[i].template.pod.env = Environment(src.spec, sink)
Converges == <>[]Wanted => <>[]UpToDate

(* RoleFollowsSpec: the same for the role of the pod (AssignedIAMRole "is the *)
(* IAM role that KIAM assigns to Receive Adapter").                           *)
RoleFollowsSpec ==
    <>[]Wanted => <>[](\E i \in Controlled(deps, src.uid) :
                          deps[i].template.role = Template(src.spec, sink).role)

=============================================================================
