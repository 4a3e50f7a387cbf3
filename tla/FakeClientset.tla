--------------------------- MODULE FakeClientset ---------------------------
(***************************************************************************)
(* The generated fake of the clientset, which tests use in place of a      *)
(* server: FakeKinesisSources builds an action for every call, and the     *)
(* object tracker of client-go reacts to it.  Invokes holds a lock for the *)
(* whole of a call, so each call is one step, whatever threads the test    *)
(* and the code under test consist of; only the reading of a watch goes on *)
(* beside it.                                                              *)
(*                                                                         *)
(* The tracker stores, compares and returns whole objects: there are no    *)
(* resource versions, and no status apart from the object.  An object is   *)
(* therefore its key, its label and its data.  The list of actions that a  *)
(* test may inspect afterwards is left out.                                *)
(***************************************************************************)
EXTENDS Integers, Sequences, FiniteSets, SequencesExt

CONSTANTS
  Namespaces, Names,
  NoNS,          \* the empty namespace, of an object or of a handle
  Clients,       \* the callers, one handle KinesisSources(ns) each
  HomeOf,        \* [Clients -> Namespaces \cup {NoNS}]
  Apps, Data,    \* what label selectors look at, and the rest of an object
  Seeds,         \* the objects NewSimpleClientset may be called with
  Watchers,      \* the watches a test opens
  ChanSize       \* watch.DefaultChanSize (100)

Spaces == Namespaces \cup {NoNS}

Objects == [ns : Spaces, name : Names, app : Apps, data : Data]

ASSUME FakeAssumption ==
  /\ NoNS \notin Namespaces /\ HomeOf \in [Clients -> Spaces]
  /\ Seeds \subseteq Objects /\ ChanSize \in Nat \ {0}

VARIABLES
  objects,    \* Seq(Objects), the tracker's objects of this resource
  watching,   \* [Watchers -> SUBSET Spaces]: the namespace of an open watch, if any
  chan,       \* [Watchers -> Seq(Events)]: its channel
  seen,       \* [Watchers -> SUBSET Objects]: what a reader of the watch knows
  result,     \* [Clients -> Results]: what the last call returned
  panicked    \* "channel full"

vars == <<objects, watching, chan, seen, result, panicked>>

Events == [type : {"Added", "Modified", "Deleted"}, obj : Objects]
Errors == {"", "NotFound", "AlreadyExists", "BadRequest", "Ambiguous"}
Results == [err : Errors, objs : SUBSET Objects]

Key(o) == <<o.ns, o.name>>
InSpace(ns) == {o \in ToSet(objects) : ns \in {o.ns, NoNS}}

(* NewSimpleClientset adds the given objects, if any.                      *)
Init ==
  /\ \E o \in Seeds : objects \in {<<>>, <<o>>}
  /\ watching = [w \in Watchers |-> {}] /\ chan = [w \in Watchers |-> <<>>]
  /\ seen = [w \in Watchers |-> {}]
  /\ result = [c \in Clients |-> [err |-> "", objs |-> {}]]
  /\ panicked = FALSE

-----------------------------------------------------------------------------
(* The tracker: what a request answers, [err, table, event].               *)

Refused(err) == [err |-> err, table |-> objects, event |-> {}]

(* filterByNamespaceAndName, and Get on top of it.                         *)
Found(ns, name) == {o \in InSpace(ns) : o.name = name}

GetError(ns, name) ==
  CASE Found(ns, name) = {} -> "NotFound"
    [] Cardinality(Found(ns, name)) > 1 -> "Ambiguous"
    [] OTHER -> ""

(* Bug variant: the object is entered before its namespace is looked at.   *)
AddThenCheck(body, ns, replace) ==
  LET obj == IF body.ns = NoNS THEN [body EXCEPT !.ns = ns] ELSE body
      at == {i \in DOMAIN objects : Key(objects[i]) = Key(obj)}
      entered == [err |-> "", table |-> Append(objects, obj),
                  event |-> {[type |-> "Added", obj |-> obj]}]
  IN IF at = {} /\ replace THEN Refused("NotFound")
     ELSE IF at = {} THEN IF obj.ns # ns THEN [entered EXCEPT !.err = "BadRequest"] ELSE entered
     ELSE IF obj.ns # ns THEN Refused("BadRequest")
     ELSE IF ~replace THEN Refused("AlreadyExists")
     ELSE [err |-> "",
           table |-> [i \in DOMAIN objects |-> IF i \in at THEN obj ELSE objects[i]],
           event |-> {[type |-> "Modified", obj |-> obj]}]

(* Bug variant: an update is entered like a new object.                    *)
AddAgain(body, ns, replace) ==
  LET obj == IF body.ns = NoNS THEN [body EXCEPT !.ns = ns] ELSE body
      at == {i \in DOMAIN objects : Key(objects[i]) = Key(obj)}
  IN IF obj.ns # ns THEN Refused("BadRequest")
     ELSE IF (at = {}) = replace THEN Refused(IF replace THEN "NotFound" ELSE "AlreadyExists")
     ELSE [err |-> "", table |-> Append(objects, obj),
           event |-> {[type |-> "Modified", obj |-> obj]}]

(* add: an object without a namespace gets that of the request, one with   *)
(* another namespace is refused; Update and UpdateStatus replace the whole *)
(* object.                                                                 *)
Add(body, ns, replace) ==
  LET obj == IF body.ns = NoNS THEN [body EXCEPT !.ns = ns] ELSE body
      at == {i \in DOMAIN objects : Key(objects[i]) = Key(obj)}
  IN IF obj.ns # ns THEN Refused("BadRequest")
     ELSE IF at = {} /\ replace THEN Refused("NotFound")
     ELSE IF at = {} THEN [err |-> "", table |-> Append(objects, obj),
                           event |-> {[type |-> "Added", obj |-> obj]}]
     ELSE IF ~replace THEN Refused("AlreadyExists")
     ELSE [err |-> "",
           table |-> [i \in DOMAIN objects |-> IF i \in at THEN obj ELSE objects[i]],
           event |-> {[type |-> "Modified", obj |-> obj]}]

(* Bug variant: the place of the object is emptied and kept.               *)
RemovedInPlace(ns, name) ==
  LET at == {i \in DOMAIN objects : Key(objects[i]) = <<ns, name>>}
  IN IF at = {} THEN Refused("NotFound")
     ELSE LET i == CHOOSE i \in at : TRUE
          IN [err |-> "", table |-> [objects EXCEPT ![i].name = NoNS],
              event |-> {[type |-> "Deleted", obj |-> objects[i]]}]

Removed(ns, name) ==
  LET at == {i \in DOMAIN objects : Key(objects[i]) = <<ns, name>>}
  IN IF at = {} THEN Refused("NotFound")
     ELSE LET i == CHOOSE i \in at : TRUE
          IN [err |-> "", table |-> RemoveAt(objects, i),
              event |-> {[type |-> "Deleted", obj |-> objects[i]]}]

(* Bug variant: only the watches of the very namespace are told.           *)
NarrowWatches(ns, w) == IF ns \in watching[w] THEN 1 ELSE 0

(* getWatches: the watches of the namespace and those of all namespaces; a *)
(* request without namespace reaches the latter twice.                     *)
Watches(ns, w) ==
  IF NoNS \in watching[w] THEN (IF ns = NoNS THEN 2 ELSE 1)
  ELSE IF ns \in watching[w] THEN 1 ELSE 0

(* A call of c ends: the table and the watches change, or a full channel   *)
(* panics and the test is over.                                            *)
Reply(c, answer, objs) ==
  LET ns == HomeOf[c]
      sent == [w \in Watchers |-> chan[w] \o
                 [i \in 1..(IF answer.event = {} THEN 0 ELSE Watches(ns, w)) |->
                    CHOOSE e \in answer.event : TRUE]]
  IN /\ ~panicked
     /\ IF \E w \in Watchers : Len(sent[w]) > ChanSize
        THEN panicked' = TRUE /\ UNCHANGED <<objects, watching, chan, seen, result>>
        ELSE /\ objects' = answer.table
             /\ chan' = sent
             /\ result' = [result EXCEPT ![c] = [err |-> answer.err, objs |-> objs]]
             /\ UNCHANGED <<watching, seen, panicked>>

(* A write and the Get that follows it within the call.                    *)
WriteAndGet(c, answer, name) ==
  LET there == {o \in ToSet(answer.table) : o.name = name /\ HomeOf[c] \in {o.ns, NoNS}}
  IN IF answer.err # "" THEN Reply(c, answer, {})
     ELSE IF Cardinality(there) = 1 THEN Reply(c, answer, there)
     ELSE Reply(c, [answer EXCEPT !.err = "Ambiguous"], {})

-----------------------------------------------------------------------------
(* FakeKinesisSources.                                                     *)

Get(c, name) ==
  LET err == GetError(HomeOf[c], name)
  IN Reply(c, Refused(err), IF err = "" THEN Found(HomeOf[c], name) ELSE {})

(* List filters what the tracker returns by the label selector.            *)
List(c, sel) ==
  Reply(c, Refused(""), {o \in InSpace(HomeOf[c]) : o.app \in sel})

Create(c, body) == WriteAndGet(c, Add(body, HomeOf[c], FALSE), body.name)

(* Update and UpdateStatus of an object an earlier call returned, edited.  *)
Update(c) ==
  \E o \in result[c].objs, app \in Apps, data \in Data :
    LET body == [o EXCEPT !.app = app, !.data = data]
    IN WriteAndGet(c, Add(body, HomeOf[c], TRUE), o.name)

(* Patch is a Get, a merge and an Update.  When there is nothing to patch  *)
(* no reactor handles the action, and Invokes returns an empty object and  *)
(* no error.                                                               *)
Patch(c, name, app, data) ==
  LET ns == HomeOf[c]
  IN IF GetError(ns, name) # "" THEN Reply(c, Refused(""), {})
     ELSE \E o \in Found(ns, name) :
            LET merged == [o EXCEPT !.app = app, !.data = data]
            IN Reply(c, Add(merged, ns, TRUE),
                     IF Add(merged, ns, TRUE).err = "" THEN {merged} ELSE {})

Delete(c, name) == Reply(c, Removed(HomeOf[c], name), {})

(* No reactor handles the action: no error, and nothing is deleted.        *)
DeleteCollection(c) == Reply(c, Refused(""), {})

(* Watch: the options are not looked at, what is there already is not sent.*)
Watch(c, w) ==
  /\ ~panicked /\ watching[w] = {}
  /\ watching' = [watching EXCEPT ![w] = {HomeOf[c]}]
  /\ seen' = [seen EXCEPT ![w] = InSpace(HomeOf[c])]
  /\ UNCHANGED <<objects, chan, result, panicked>>

-----------------------------------------------------------------------------
(* The reader of a watch applies the events in the order it receives them. *)
Applied(known, e) ==
  {o \in known : Key(o) # Key(e.obj)} \cup (IF e.type = "Deleted" THEN {} ELSE {e.obj})

Receive(w) ==
  /\ ~panicked /\ chan[w] # <<>>
  /\ seen' = [seen EXCEPT ![w] = Applied(@, Head(chan[w]))]
  /\ chan' = [chan EXCEPT ![w] = Tail(@)]
  /\ UNCHANGED <<objects, watching, result, panicked>>

(* Stop of a watch: its reader is done, and later events are dropped.      *)
Stop(w) ==
  /\ ~panicked /\ watching[w] # {}
  /\ watching' = [watching EXCEPT ![w] = {}]
  /\ chan' = [chan EXCEPT ![w] = <<>>] /\ seen' = [seen EXCEPT ![w] = {}]
  /\ UNCHANGED <<objects, result, panicked>>

ClientStep(c) ==
  \/ \E name \in Names : Get(c, name) \/ Delete(c, name)
  \/ \E sel \in SUBSET Apps : List(c, sel)
  \/ \E body \in Objects : Create(c, body)
  \/ Update(c) \/ DeleteCollection(c)
  \/ \E name \in Names, app \in Apps, data \in Data : Patch(c, name, app, data)
  \/ \E w \in Watchers : Watch(c, w)

Next == (\E c \in Clients : ClientStep(c)) \/ (\E w \in Watchers : Receive(w) \/ Stop(w))

Spec == Init /\ [][Next]_vars

-----------------------------------------------------------------------------
(* Type correctness.                                                       *)
TypeOK ==
  /\ objects \in Seq(Objects)
  /\ watching \in [Watchers -> {{}} \cup {{ns} : ns \in Spaces}]
  /\ chan \in [Watchers -> Seq(Events)]
  /\ \A w \in Watchers : Len(chan[w]) <= ChanSize
  /\ seen \in [Watchers -> SUBSET Objects]
  /\ result \in [Clients -> Results] /\ panicked \in BOOLEAN

(* "Add/Update methods enforce kind/namespace/name uniqueness"             *)
(* (fixture.go:263-265), whichever handles the calls come from: a Get in a *)
(* namespace is never ambiguous.                                           *)
KeysAreUnique ==
  \A i, j \in DOMAIN objects : Key(objects[i]) = Key(objects[j]) => i = j

(* What applying these events one after the other to what is known gives:  *)
(* the objects no event is about, and those whose last event left them.    *)
Replay(known, events) ==
  {o \in Objects :
     \/ o \in known /\ \A i \in DOMAIN events : Key(events[i].obj) # Key(o)
     \/ \E i \in DOMAIN events :
          /\ events[i].obj = o /\ events[i].type # "Deleted"
          /\ \A j \in DOMAIN events : j > i => Key(events[j].obj) # Key(o)}

(* Nothing is lost on the way to a watch: what its reader knows, brought   *)
(* up to date with the events under way, is what the tracker holds in the  *)
(* namespaces it watches.                                                  *)
WatchesKeepUp ==
  \A w \in Watchers : \A ns \in watching[w] :
    Replay(seen[w], chan[w]) = InSpace(ns)

(* A call through the handle of a namespace that returns an error has      *)
(* changed nothing, and told no watch of anything.                         *)
ErrorsChangeNothing ==
  [][\A c \in Clients :
       HomeOf[c] # NoNS /\ result'[c] # result[c] /\ result'[c].err # "" =>
         UNCHANGED <<objects, chan>>]_vars

(* The comment of the method says that DeleteCollection deletes a          *)
(* collection of objects (fake_kinesissource.go:123).                      *)
CollectionDeleted ==
  [][\A c \in Clients : DeleteCollection(c) =>
       \A o \in ToSet(objects') : HomeOf[c] \notin {o.ns, NoNS}]_vars
=============================================================================
