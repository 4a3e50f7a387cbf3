--------------------------- MODULE KinesisSources ---------------------------
(***************************************************************************)
(* The generated client of KinesisSource (clientset/versioned) and the API *)
(* server it talks to.                                                     *)
(*                                                                         *)
(* A caller holds a copy of an object, the last one a call returned to it, *)
(* edits the copy and sends it back.  Other callers act in between, and a  *)
(* read may be served from a cache, so the copy may be stale.  The reply   *)
(* of a call may get lost after the server has carried it out: then the    *)
(* caller is left with its old copy and will try again.  A delayed reply   *)
(* delays nothing but its own caller, so a call is one step.               *)
(*                                                                         *)
(* The API server is external; it is modelled from what the client relies  *)
(* on: resource versions, the comparison of the version of a PUT with the  *)
(* stored one, and the status subresource that                             *)
(* config/300-kinesissource.yaml enables.                                  *)
(***************************************************************************)
EXTENDS Integers, Sequences, FiniteSets

CONSTANTS
  Namespaces, Names,   \* where objects live and what they are called
  Clients,             \* the callers, one handle KinesisSources(ns) each
  HomeOf,              \* [Clients -> Namespaces]: the namespace of the handle
  Controllers,         \* clients that only write status
  Apps,                \* values of the label selectors look at
  Absent,              \* no object, no copy
  MaxRevision          \* bound: writes the server accepts

Keys == [ns : Namespaces, name : Names]

ASSUME ClientsAssumption ==
  /\ HomeOf \in [Clients -> Namespaces]
  /\ Controllers \subseteq Clients
  /\ MaxRevision \in Nat
  /\ Absent \notin [app : Apps, spec : SUBSET Clients, status : SUBSET Clients]
  /\ Absent \notin [rv : Nat, app : Apps,
                    spec : SUBSET Clients, status : SUBSET Clients]
  /\ Absent \notin [key : Keys, rv : Nat, app : Apps,
                    spec : SUBSET Clients, status : SUBSET Clients]

VARIABLES
  store,    \* [Keys -> Objects \cup {Absent}], what the server has stored
  log,      \* every accepted write, in order: [key, obj]; obj is Absent for a deletion
  copy,     \* [Clients -> Copies \cup {Absent}], the last result of a call
  doomed    \* [Clients -> SUBSET Keys], what a DeleteCollection has still to delete

clientVars == <<store, log, copy, doomed>>

(* The resource version of an object is its position in the log.           *)
Objects == [rv : Nat, app : Apps, spec : SUBSET Clients, status : SUBSET Clients]
Copies == [key : Keys, rv : Nat, app : Apps,
           spec : SUBSET Clients, status : SUBSET Clients]

Stored(k) == store[k] # Absent

Revision == Len(log)

ClientsInit ==
  /\ store = [k \in Keys |-> Absent]
  /\ log = <<>>
  /\ copy = [c \in Clients |-> Absent]
  /\ doomed = [c \in Clients |-> {}]

-----------------------------------------------------------------------------
(* The API server.                                                         *)

(* A write gives the object the next resource version.                     *)
Commit(k, app, spec, status) ==
  LET obj == [rv |-> Revision + 1, app |-> app, spec |-> spec, status |-> status]
  IN /\ Revision < MaxRevision
     /\ store' = [store EXCEPT ![k] = obj]
     /\ log' = Append(log, [key |-> k, obj |-> obj])

Erase(k) ==
  /\ Revision < MaxRevision
  /\ store' = [store EXCEPT ![k] = Absent]
  /\ log' = Append(log, [key |-> k, obj |-> Absent])

(* The body of a PUT must carry the version that is stored.                *)
Matches(k, body) == Stored(k) /\ store[k].rv = body.rv

(* POST ignores the status of the body; so does PUT of the object itself,  *)
(* and PUT of its status takes nothing but the status.                     *)
Post(k, body) == ~Stored(k) /\ Commit(k, body.app, body.spec, {})

Put(k, body) == Matches(k, body) /\ Commit(k, body.app, body.spec, store[k].status)

PutStatus(k, body) ==
  Matches(k, body) /\ Commit(k, store[k].app, store[k].spec, body.status)

-----------------------------------------------------------------------------
(* The client.                                                             *)

(* The path of a request: the handle's namespace and the object's name.    *)
Path(c, name) == [ns |-> HomeOf[c], name |-> name]

CopyOf(k, obj) == [key |-> k, rv |-> obj.rv, app |-> obj.app,
                   spec |-> obj.spec, status |-> obj.status]

(* Bug variant: the reply is decoded, but the old resource version kept.   *)
IntoKeepingVersion(c, k) ==
  copy' = [copy EXCEPT ![c] = [CopyOf(k, store'[k]) EXCEPT !.rv = Revision]]

(* Do().Into(result): the reply replaces the caller's copy, or is lost.    *)
Into(c, k) ==
  \/ copy' = [copy EXCEPT ![c] = CopyOf(k, store'[k])]
  \/ UNCHANGED copy

(* Get, or List and picking an item: ListOptions and GetOptions may ask    *)
(* for any version the server still has in its cache.                      *)
Get(c, name) ==
  \E i \in DOMAIN log :
    /\ log[i].key = Path(c, name)
    /\ log[i].obj # Absent
    /\ copy' = [copy EXCEPT ![c] = CopyOf(log[i].key, log[i].obj)]
    /\ UNCHANGED <<store, log, doomed>>

Create(c, name) ==
  /\ \E app \in Apps : Post(Path(c, name), [app |-> app, spec |-> {c} \ Controllers])
  /\ Into(c, Path(c, name))
  /\ UNCHANGED doomed

(* The copy as its holder has edited it, spec and status alike: which of   *)
(* the two the server takes is decided by the call.                        *)
Edited(c, app) == [copy[c] EXCEPT !.app = app, !.spec = @ \cup {c},
                                  !.status = @ \cup {c}]

(* Bug variant: the copy is written over whatever is stored.               *)
UpdateUnversioned(c) ==
  /\ c \notin Controllers /\ copy[c] # Absent
  /\ Stored(copy[c].key)
  /\ \E app \in Apps :
       Commit(copy[c].key, app, Edited(c, app).spec, store[copy[c].key].status)
  /\ Into(c, copy[c].key)
  /\ UNCHANGED doomed

Update(c) ==
  /\ c \notin Controllers /\ copy[c] # Absent
  /\ \E app \in Apps : Put(copy[c].key, Edited(c, app))
  /\ Into(c, copy[c].key)
  /\ UNCHANGED doomed

(* Bug variant: the request does not name the subresource.                 *)
UpdateWithoutSubResource(c) ==
  /\ c \in Controllers /\ copy[c] # Absent
  /\ \E app \in Apps : Put(copy[c].key, Edited(c, app))
  /\ Into(c, copy[c].key)
  /\ UNCHANGED doomed

UpdateStatus(c) ==
  /\ c \in Controllers /\ copy[c] # Absent
  /\ \E app \in Apps : PutStatus(copy[c].key, Edited(c, app))
  /\ Into(c, copy[c].key)
  /\ UNCHANGED doomed

(* Patch merges an edit into what is stored; subresources names "status"   *)
(* or nothing.                                                             *)
Patch(c, name) ==
  LET k == Path(c, name) IN
  /\ Stored(k)
  /\ IF c \in Controllers
     THEN Commit(k, store[k].app, store[k].spec, store[k].status \cup {c})
     ELSE Commit(k, store[k].app, store[k].spec \cup {c}, store[k].status)
  /\ Into(c, k)
  /\ UNCHANGED doomed

Delete(c, name) ==
  /\ Stored(Path(c, name)) /\ Erase(Path(c, name))
  /\ UNCHANGED <<copy, doomed>>

(* Bug variant: the request does not name the namespace.                   *)
DeleteCollectionEverywhere(c) ==
  \E sel \in SUBSET Apps :
    LET matching == {k \in Keys : Stored(k) /\ store[k].app \in sel}
    IN /\ doomed[c] = {} /\ matching # {}
       /\ doomed' = [doomed EXCEPT ![c] = matching]
       /\ UNCHANGED <<store, log, copy>>

(* DeleteCollection: the server lists what the selector matches in the     *)
(* handle's namespace and then deletes one object after the other.         *)
DeleteCollection(c) ==
  \E sel \in SUBSET Apps :
    LET matching == {k \in Keys : k.ns = HomeOf[c] /\ Stored(k) /\ store[k].app \in sel}
    IN /\ doomed[c] = {} /\ matching # {}
       /\ doomed' = [doomed EXCEPT ![c] = matching]
       /\ UNCHANGED <<store, log, copy>>

DeleteNext(c) ==
  \E k \in doomed[c] :
    /\ doomed' = [doomed EXCEPT ![c] = @ \ {k}]
    /\ IF Stored(k) THEN Erase(k) ELSE UNCHANGED <<store, log>>
    /\ UNCHANGED copy

-----------------------------------------------------------------------------
ClientStep(c) ==
  \/ \E name \in Names :
       Get(c, name) \/ Create(c, name) \/ Patch(c, name) \/ Delete(c, name)
  \/ Update(c) \/ UpdateStatus(c)
  \/ DeleteCollection(c) \/ DeleteNext(c)

ClientsNext == \E c \in Clients : ClientStep(c)

ClientsSpec == ClientsInit /\ [][ClientsNext]_clientVars

-----------------------------------------------------------------------------
(* Type correctness of the server's tables and of the callers' copies.     *)
ClientsTypeOK ==
  /\ store \in [Keys -> Objects \cup {Absent}]
  /\ log \in Seq([key : Keys, obj : Objects \cup {Absent}])
  /\ copy \in [Clients -> Copies \cup {Absent}]
  /\ doomed \in [Clients -> SUBSET Keys]

(* A resource version names one content of one object, so two parties that *)
(* hold the same version hold the same thing: what is stored, and every    *)
(* copy a caller holds, is the log's entry at its version.  Optimistic     *)
(* concurrency (the body of Update and UpdateStatus carries the version)   *)
(* rests on it.                                                            *)
VersionNamesContent ==
  /\ \A k \in Keys : Stored(k) =>
       store[k].rv \in DOMAIN log /\ log[store[k].rv] = [key |-> k, obj |-> store[k]]
  /\ \A c \in Clients : copy[c] # Absent =>
       /\ copy[c].rv \in DOMAIN log
       /\ log[copy[c].rv].obj # Absent
       /\ copy[c] = CopyOf(log[copy[c].rv].key, log[copy[c].rv].obj)

(* Reading, editing and writing back takes effect as one atomic edit, for  *)
(* spec and status separately: no caller overwrites what another one wrote *)
(* since the first one read, and Update and UpdateStatus each keep to      *)
(* their half of the object.                                               *)
Contract == INSTANCE SourceStore WITH
  content <- [k \in Keys |->
    IF Stored(k) THEN [app |-> store[k].app, spec |-> store[k].spec,
                       status |-> store[k].status]
    ELSE Absent]

EditsAreAtomic == Contract!SSpec

(* A controller that has changed the spec of its copy in memory and calls  *)
(* UpdateStatus never gets that change stored, and a user's Update never   *)
(* gets a status stored: UpdateStatus names the subresource, Update does   *)
(* not.                                                                    *)
EachWritesItsHalf ==
  \A k \in Keys : Stored(k) =>
    store[k].spec \cap Controllers = {} /\ store[k].status \subseteq Controllers

(* A handle is of one namespace: nothing a handle does ever reaches an     *)
(* object of another namespace.  (The marks say who wrote.)                *)
HandlesKeepToTheirNamespace ==
  /\ \A k \in Keys : Stored(k) =>
       \A c \in store[k].spec \cup store[k].status : HomeOf[c] = k.ns
  /\ \A c \in Clients : \A k \in doomed[c] : HomeOf[c] = k.ns
=============================================================================
