----------------------------- MODULE Informers -----------------------------
(***************************************************************************)
(* The generated informer factory of KinesisSource, the shared informer it *)
(* creates and runs, and the lister over the informer's cache, composed    *)
(* with the clients that write the objects (KinesisSources).               *)
(*                                                                         *)
(* The factory keeps one informer per type under its lock; KinesisSource   *)
(* is the only type of this repository.  A running informer has two        *)
(* threads: the reflector lists, then watches from the version of the      *)
(* list, and puts what it learns as deltas into a FIFO; the process loop   *)
(* pops the deltas of one key at a time and applies them to the indexer,   *)
(* the cache that listers read.  The callers of the factory ask for the    *)
(* informer, start the factory and wait until its caches are synced, in    *)
(* any order.                                                              *)
(***************************************************************************)
EXTENDS KinesisSources, SequencesExt

CONSTANTS
  Callers,      \* threads that use the factory
  Scope,        \* WithNamespace: a namespace, or All
  All,          \* v1.NamespaceAll
  Tweak,        \* WithTweakListOptions: the labels that are selected
  Resyncs,      \* TRUE iff the factory has a resync period
  OneServer,    \* TRUE iff every List is answered by the same API server
  MaxLists      \* bound: how often the reflector lists

ASSUME InformersAssumption ==
  /\ Scope \in Namespaces \cup {All} /\ Tweak \subseteq Apps
  /\ Resyncs \in BOOLEAN /\ OneServer \in BOOLEAN /\ MaxLists \in Nat

VARIABLES
  informers,   \* how many informers the factory has created for the type
  started,     \* startedInformers of the type
  running,     \* how many times Run of the informer was called
  handle,      \* [Callers -> 0..informers]: the informer a caller was given, 0 for none
  inside,      \* [Callers -> "out", "creating" or "starting"]: who holds f.lock, and for what
  waits,       \* [Callers -> "not", "waiting", "synced", "stopped" or "vacuous"]
  stopped,     \* stopCh is closed
  phase,       \* of the reflector: "off", "listing" or "watching"
  at,          \* resourceVersion of the reflector: how much of the log it has seen
  lists,       \* the revisions of the lists so far, in order
  overlapped,  \* TRUE once a list came in while deltas were still queued
  queue,       \* queue of the DeltaFIFO: keys
  items,       \* [Keys -> Seq(Deltas)]: items of the DeltaFIFO
  populated,   \* of the DeltaFIFO
  initial,     \* initialPopulationCount of the DeltaFIFO
  cache        \* [Keys -> Objects \cup {Absent}]: the indexer

factoryVars == <<informers, started, handle, inside, waits>>
fifoVars == <<queue, items, populated, initial>>
reflectorVars == <<phase, at, lists, overlapped>>
informerVars == <<factoryVars, running, stopped, reflectorVars, fifoVars, cache>>
vars == <<clientVars, informerVars>>

Deleted == Absent
Deltas == [type : {"sync", "watch"}, obj : Objects \cup {Deleted}]

Init ==
  /\ ClientsInit
  /\ informers = 0 /\ started = FALSE /\ running = 0
  /\ handle = [t \in Callers |-> 0] /\ inside = [t \in Callers |-> "out"]
  /\ waits = [t \in Callers |-> "not"]
  /\ stopped = FALSE
  /\ phase = "off" /\ at = 0 /\ lists = <<>> /\ overlapped = FALSE
  /\ queue = <<>> /\ items = [k \in Keys |-> <<>>]
  /\ populated = FALSE /\ initial = 0
  /\ cache = [k \in Keys |-> Absent]

-----------------------------------------------------------------------------
(* What the server answers.                                                *)

Selected(k, app) == Scope \in {k.ns, All} /\ app \in Tweak

(* The object of k after the first p writes.                               *)
After(p, k) ==
  LET writes == {i \in 1..p : log[i].key = k}
  IN IF writes = {} THEN Absent ELSE log[CHOOSE i \in writes : \A j \in writes : j <= i].obj

(* ListFunc: namespace and tweakListOptions go into the request, so the    *)
(* server shows what they select.                                          *)
Listed(p, k) ==
  LET obj == After(p, k)
  IN IF obj # Absent /\ Selected(k, obj.app) THEN obj ELSE Absent

(* Bug variant: tweakListOptions is applied to lists only.                 *)
WatchedUntweaked(i) ==
  LET k == log[i].key
  IN IF After(i, k) # Absent THEN {[type |-> "watch", obj |-> After(i, k)]}
     ELSE {[type |-> "watch", obj |-> Deleted]}

(* WatchFunc: the event of the i-th write, for a watch of the same         *)
(* selection: an object that leaves the selection is reported as deleted,  *)
(* and a write outside of it is not reported.                              *)
Watched(i) ==
  LET k == log[i].key
  IN IF Listed(i, k) # Absent THEN {[type |-> "watch", obj |-> Listed(i, k)]}
     ELSE IF Listed(i - 1, k) # Absent THEN {[type |-> "watch", obj |-> Deleted]}
     ELSE {}

-----------------------------------------------------------------------------
(* The DeltaFIFO.                                                          *)

EndsDeleted(ds) == ds # <<>> /\ Last(ds).obj = Deleted

(* queueActionLocked: a sync is dropped when the object is about to be     *)
(* deleted, and two deletions in a row are one.                            *)
Extended(ds, d) ==
  IF EndsDeleted(ds) /\ (d.type = "sync" \/ d.obj = Deleted) THEN ds
  ELSE Append(ds, d)

(* Replace: a sync for every object of the list, a deletion for every      *)
(* object of the indexer that the list has not.                            *)
ReplaceDelta(p, k) == [type |-> IF Listed(p, k) # Absent THEN "sync" ELSE "watch",
                       obj |-> Listed(p, k)]

Replaced(p) == {k \in Keys : Listed(p, k) # Absent \/ cache[k] # Absent}

Replace(p) ==
  LET keys == Replaced(p)
      new == {k \in keys : items[k] = <<>>}
  IN /\ items' = [k \in Keys |-> IF k \in keys THEN Extended(items[k], ReplaceDelta(p, k))
                                 ELSE items[k]]
     /\ \E order \in SetToSeqs(new) : queue' = queue \o order
     /\ populated' = TRUE
     /\ initial' = IF populated THEN initial ELSE Cardinality(keys)

(* Bug variant: a key is queued with every delta.                          *)
EnqueueAgain(k, d) ==
  /\ populated' = TRUE
  /\ IF d.obj = Deleted /\ cache[k] = Absent /\ items[k] = <<>>
     THEN UNCHANGED <<queue, items>>
     ELSE /\ items' = [items EXCEPT ![k] = Extended(@, d)]
          /\ queue' = Append(queue, k)
  /\ UNCHANGED initial

(* Add, Update and Delete; a deletion of what neither the indexer nor the  *)
(* queue knows is ignored.                                                 *)
Enqueue(k, d) ==
  /\ populated' = TRUE
  /\ IF d.obj = Deleted /\ cache[k] = Absent /\ items[k] = <<>>
     THEN UNCHANGED <<queue, items>>
     ELSE /\ items' = [items EXCEPT ![k] = Extended(@, d)]
          /\ queue' = IF items[k] = <<>> THEN Append(queue, k) ELSE queue
  /\ UNCHANGED initial

(* Bug variant: the first list counts as soon as it is queued.             *)
HasSyncedWhenListed == running > 0 /\ populated

HasSynced == running > 0 /\ populated /\ initial = 0

(* Bug variant: the initial population is never counted down.              *)
PopUncounted ==
  /\ queue # <<>>
  /\ LET k == Head(queue)
     IN /\ cache' = [cache EXCEPT ![k] = Last(items[k]).obj]
        /\ items' = [items EXCEPT ![k] = <<>>]
  /\ queue' = Tail(queue)
  /\ UNCHANGED <<clientVars, factoryVars, running, stopped, reflectorVars, populated, initial>>

(* Pop takes the deltas of the oldest key and HandleDeltas applies them    *)
(* one after the other to the indexer; the last one decides.  The FIFO is  *)
(* locked all the while, so HasSynced does not see the middle of it.       *)
Pop ==
  /\ queue # <<>>
  /\ LET k == Head(queue)
     IN /\ cache' = [cache EXCEPT ![k] = Last(items[k]).obj]
        /\ items' = [items EXCEPT ![k] = <<>>]
  /\ queue' = Tail(queue)
  /\ initial' = IF initial > 0 THEN initial - 1 ELSE 0
  /\ UNCHANGED <<clientVars, factoryVars, running, stopped, reflectorVars, populated>>

(* The resync period has passed: every cached object that is not queued    *)
(* is queued again, as it is cached.                                       *)
Resync ==
  LET idle == {k \in Keys : cache[k] # Absent /\ items[k] = <<>>}
  IN /\ Resyncs /\ phase = "watching" /\ ~stopped /\ idle # {}
     /\ items' = [k \in Keys |-> IF k \in idle
                                 THEN <<[type |-> "sync", obj |-> cache[k]]>> ELSE items[k]]
     /\ \E order \in SetToSeqs(idle) : queue' = queue \o order
     /\ UNCHANGED <<clientVars, factoryVars, running, stopped, reflectorVars,
                    populated, initial, cache>>

-----------------------------------------------------------------------------
(* The reflector.                                                          *)

(* Bug variant: the watch starts behind what happened while it was opened. *)
ListAndWatchNow ==
  /\ phase = "listing" /\ ~stopped /\ Len(lists) < MaxLists
  /\ \E p \in at..Revision : Replace(p) /\ lists' = Append(lists, p)
  /\ at' = Revision
  /\ overlapped' = (overlapped \/ queue # <<>>)
  /\ phase' = "watching"
  /\ UNCHANGED <<clientVars, factoryVars, running, stopped, cache>>

(* ListAndWatch lists with resource version "0", so the answer is what the *)
(* server has cached; the same server never answers with less than it has  *)
(* reported already.                                                       *)
List ==
  /\ phase = "listing" /\ ~stopped /\ Len(lists) < MaxLists
  /\ \E p \in (IF OneServer THEN at ELSE 0)..Revision :
       /\ Replace(p)
       /\ at' = p
       /\ lists' = Append(lists, p)
  /\ overlapped' = (overlapped \/ queue # <<>>)
  /\ phase' = "watching"
  /\ UNCHANGED <<clientVars, factoryVars, running, stopped, cache>>

(* watchHandler: the next event, if the write is one the watch reports.  A *)
(* watch that is closed is opened again at the version it has reached,     *)
(* which changes nothing here.                                             *)
WatchEvent ==
  /\ phase = "watching" /\ ~stopped /\ at < Revision
  /\ at' = at + 1
  /\ IF Watched(at + 1) = {} THEN UNCHANGED fifoVars
     ELSE \E d \in Watched(at + 1) : Enqueue(log[at + 1].key, d)
  /\ UNCHANGED <<clientVars, factoryVars, running, stopped, phase, lists, overlapped, cache>>

(* Bug variant: a watch that ends is resumed at the version of the list.   *)
WatchResumesAtList ==
  /\ phase = "watching" /\ ~stopped /\ Len(lists) < MaxLists
  /\ at' = Last(lists)
  /\ UNCHANGED <<clientVars, factoryVars, running, stopped, phase, lists, overlapped,
                 fifoVars, cache>>

(* An error event (the version is too old, say), a watch that cannot be    *)
(* opened or one that is closed at once: ListAndWatch returns and is       *)
(* called again.                                                           *)
WatchFails ==
  /\ phase = "watching" /\ ~stopped /\ Len(lists) < MaxLists
  /\ phase' = "listing"
  /\ UNCHANGED <<clientVars, factoryVars, running, stopped, at, lists, overlapped,
                 fifoVars, cache>>

-----------------------------------------------------------------------------
(* The factory and its callers.                                            *)

(* Bug variant: the lock is not taken.                                    *)
LockIgnored == TRUE

(* f.lock: InformerFor and Start hold it until they return, the beginning  *)
(* of WaitForCacheSync takes it too.                                       *)
LockIsFree == \A t \in Callers : inside[t] = "out"

(* Informer, Lister and ForResource of a caller, as often as it likes: an  *)
(* informer that exists is returned ...                                    *)
InformerFor(t) ==
  /\ inside[t] = "out" /\ LockIsFree
  /\ \/ informers > 0 /\ handle' = [handle EXCEPT ![t] = informers] /\ UNCHANGED inside
     \/ informers = 0 /\ inside' = [inside EXCEPT ![t] = "creating"] /\ UNCHANGED handle
  /\ UNCHANGED <<clientVars, informers, started, running, waits, stopped, reflectorVars,
                 fifoVars, cache>>

(* ... and otherwise one is made and stored.                               *)
CreateInformer(t) ==
  /\ inside[t] = "creating" /\ inside' = [inside EXCEPT ![t] = "out"]
  /\ informers' = informers + 1
  /\ handle' = [handle EXCEPT ![t] = informers']
  /\ UNCHANGED <<clientVars, started, running, waits, stopped, reflectorVars, fifoVars, cache>>

(* Start finds what has been asked for and is not running ...              *)
Start(t) ==
  /\ inside[t] = "out" /\ LockIsFree
  /\ informers > 0 /\ ~started
  /\ inside' = [inside EXCEPT ![t] = "starting"]
  /\ UNCHANGED <<clientVars, informers, started, handle, running, waits, stopped,
                 reflectorVars, fifoVars, cache>>

(* ... and runs it; what is asked for later waits for another Start.       *)
RunInformer(t) ==
  /\ inside[t] = "starting" /\ inside' = [inside EXCEPT ![t] = "out"]
  /\ started' = TRUE
  /\ running' = running + 1
  /\ phase' = "listing"
  /\ UNCHANGED <<clientVars, informers, handle, waits, stopped, at, lists, overlapped,
                 fifoVars, cache>>

(* WaitForCacheSync takes the started informers under the lock; when there *)
(* is none it returns an empty result, in which nothing is FALSE.          *)
WaitForCacheSync(t) ==
  /\ waits[t] = "not" /\ inside[t] = "out" /\ LockIsFree
  /\ waits' = [waits EXCEPT ![t] = IF started THEN "waiting" ELSE "vacuous"]
  /\ UNCHANGED <<clientVars, informers, started, handle, inside, running, stopped,
                 reflectorVars, fifoVars, cache>>

(* It polls HasSynced until that is TRUE or stopCh is closed.              *)
PollSynced(t) ==
  /\ waits[t] = "waiting"
  /\ \/ HasSynced /\ waits' = [waits EXCEPT ![t] = "synced"]
     \/ stopped /\ waits' = [waits EXCEPT ![t] = "stopped"]
  /\ UNCHANGED <<clientVars, informers, started, handle, inside, running, stopped,
                 reflectorVars, fifoVars, cache>>

Stop ==
  /\ ~stopped /\ stopped' = TRUE
  /\ UNCHANGED <<clientVars, factoryVars, running, reflectorVars, fifoVars, cache>>

(* The lister: List in one namespace or in all of them, and Get, which     *)
(* answers NotFound for Absent.                                            *)
ListerList(ns, sel) ==
  {k \in Keys : cache[k] # Absent /\ ns \in {k.ns, All} /\ cache[k].app \in sel}

ListerGet(ns, name) == cache[[ns |-> ns, name |-> name]]

-----------------------------------------------------------------------------
ServerStep == ClientsNext /\ UNCHANGED informerVars
ReflectorStep == List \/ WatchEvent
CallerStep(t) ==
  \/ InformerFor(t) \/ CreateInformer(t) \/ Start(t) \/ RunInformer(t)
  \/ WaitForCacheSync(t) \/ PollSynced(t)

Next ==
  \/ ServerStep \/ ReflectorStep \/ WatchFails \/ Pop \/ Resync \/ Stop
  \/ \E t \in Callers : CallerStep(t)

(* The goroutines of the informer are scheduled and a poll comes every     *)
(* 100 ms.  Nothing is assumed of the clients, of the callers before they  *)
(* wait, or of failures.                                                   *)
Fairness ==
  /\ WF_vars(ReflectorStep) /\ WF_vars(Pop)
  /\ \A t \in Callers : WF_vars(PollSynced(t))

Spec == Init /\ [][Next]_vars /\ Fairness

-----------------------------------------------------------------------------
(* Type correctness.                                                       *)
TypeOK ==
  /\ ClientsTypeOK
  /\ informers \in Nat /\ started \in BOOLEAN /\ running \in Nat
  /\ handle \in [Callers -> 0..informers]
  /\ inside \in [Callers -> {"out", "creating", "starting"}]
  /\ waits \in [Callers -> {"not", "waiting", "synced", "stopped", "vacuous"}]
  /\ stopped \in BOOLEAN /\ phase \in {"off", "listing", "watching"}
  /\ at \in 0..Revision /\ lists \in Seq(0..Revision) /\ overlapped \in BOOLEAN
  /\ queue \in Seq(Keys) /\ items \in [Keys -> Seq(Deltas)]
  /\ \A k \in Keys : Cardinality({i \in DOMAIN queue : queue[i] = k}) =
                      IF items[k] = <<>> THEN 0 ELSE 1
  /\ populated \in BOOLEAN /\ initial \in 0..Len(queue)
  /\ cache \in [Keys -> Objects \cup {Absent}]

(* However the look-ups, creations and starts of several threads mix, they *)
(* share one informer and it runs at most once: no lister reads a cache    *)
(* that nobody feeds because another informer has taken its place in the   *)
(* map before the factory was started.                                     *)
OneInformer ==
  /\ informers <= 1 /\ running <= informers
  /\ \A t, u \in Callers : handle[t] # 0 /\ handle[u] # 0 => handle[t] = handle[u]

(* Listers obtained from the factory are subject to its filters: an object *)
(* whose labels or namespace are not selected is never seen, also when its *)
(* labels change while the informer watches.                               *)
OnlySelected ==
  \A k \in ListerList(All, Apps) :
    /\ Selected(k, cache[k].app)
    /\ log[cache[k].rv] = [key |-> k, obj |-> cache[k]]

(* Once WaitForCacheSync has answered TRUE the lister has every object     *)
(* that was there when the informer listed first and has been ever since,  *)
(* in that version or a later one, unless a list has overtaken deltas.     *)
SyncedMeansComplete ==
  (\E t \in Callers : waits[t] = "synced") /\ ~overlapped =>
    \A k \in Keys :
      (\A p \in lists[1]..Revision : Listed(p, k) # Absent) =>
        /\ ListerGet(k.ns, k.name) # Absent
        /\ ListerGet(k.ns, k.name).rv >= Listed(lists[1], k).rv

(* With one API server the cache never goes back to an older version of an *)
(* object, resyncs and lists in the middle of a watch included.            *)
CacheForward ==
  [][\A k \in Keys : cache[k] # Absent /\ cache'[k] # Absent =>
       cache[k].rv <= cache'[k].rv]_cache

(* A caller that waits for the cache is not left waiting.                  *)
WaitReturns == \A t \in Callers : waits[t] = "waiting" ~> waits[t] # "waiting"

UpToDate ==
  ~stopped /\ running > 0 => \A k \in Keys : cache[k] = Listed(Revision, k)

(* When the clients have come to rest, the lister shows what the server    *)
(* has, provided no list came in while deltas were still queued.           *)
CatchesUp == <>[](~overlapped => UpToDate)

(* ListAndWatch says that it is fine for the list to be delayed, since the *)
(* reflector will catch up by watching (reflector.go:173-174).             *)
ListMayOvertake == <>[]UpToDate
=============================================================================
