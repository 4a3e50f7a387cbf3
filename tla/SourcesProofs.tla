---------------------------- MODULE SourcesProofs ----------------------------
(* Proofs about KinesisSources.tla, for any namespaces, callers and number of *)
(* writes: resource versions name contents, each kind of caller writes its    *)
(* half of an object in its own namespace, and the clientset implements       *)
(* SourceStore.                                                               *)
EXTENDS KinesisSources, TLAPS

(* A caller only ever holds copies of objects of its own namespace.           *)
CopiesAreAtHome ==
    \A c \in Clients : copy[c] # Absent => copy[c].key.ns = HomeOf[c]

(* Get takes any entry of the log, so the entries too must carry the version  *)
(* that is their position.                                                    *)
PositionsAreVersions ==
    \A i \in DOMAIN log : log[i].obj # Absent => log[i].obj.rv = i

SourcesInv ==
    ClientsTypeOK /\ VersionNamesContent /\ PositionsAreVersions /\ CopiesAreAtHome

-----------------------------------------------------------------------------
(* What a step does, whichever method it is: a write of the object of k by a  *)
(* caller whose handle is of its namespace ...                                *)
Writes(k, o) ==
    /\ store' = [store EXCEPT ![k] = o]
    /\ log' = Append(log, [key |-> k, obj |-> o])

Makes(c, k, o) ==
    /\ ~Stored(k) /\ o \in Objects /\ o.rv = Len(log) + 1
    /\ o.spec = {c} \ Controllers /\ o.status = {}

Edits(c, k, o) ==
    /\ Stored(k) /\ o \in Objects /\ o.rv = Len(log) + 1
    /\ c \notin Controllers
    /\ o.spec = store[k].spec \cup {c} /\ o.status = store[k].status

Reports(c, k, o) ==
    /\ Stored(k) /\ o \in Objects /\ o.rv = Len(log) + 1
    /\ c \in Controllers
    /\ o.app = store[k].app
    /\ o.spec = store[k].spec /\ o.status = store[k].status \cup {c}

Removes(k, o) == Stored(k) /\ o = Absent

(* ... after which the caller holds the new object or what it held before ... *)
Replies(c, k, o) ==
    \/ UNCHANGED copy
    \/ o # Absent /\ copy' = [copy EXCEPT ![c] = CopyOf(k, o)]

WriteStep(c) ==
    \E k \in Keys : \E o \in Objects \cup {Absent} :
        /\ k.ns = HomeOf[c] \/ Removes(k, o)
        /\ Makes(c, k, o) \/ Edits(c, k, o) \/ Reports(c, k, o) \/ Removes(k, o)
        /\ Writes(k, o) /\ Replies(c, k, o)

(* ... or a read of some version of an object, or nothing.                    *)
ReadStep(c) ==
    /\ UNCHANGED <<store, log>>
    /\ \/ UNCHANGED copy
       \/ \E i \in DOMAIN log :
            /\ log[i].obj # Absent /\ log[i].key.ns = HomeOf[c]
            /\ copy' = [copy EXCEPT ![c] = CopyOf(log[i].key, log[i].obj)]

(* An object is never taken for the absence of one.                           *)
LEMMA ObjectsArePresent ==
    ASSUME NEW o \in Objects
    PROVE  o # Absent
BY ClientsAssumption DEF Objects

(* The elements of a sequence, for sequences of anything.                     *)
LEMMA ElementsAreIn ==
    ASSUME NEW S, NEW seq \in Seq(S), NEW i \in DOMAIN seq
    PROVE  seq[i] \in S
OBVIOUS

(* The path of a request lies in the namespace of the handle.                 *)
LEMMA PathIsAtHome ==
    ASSUME NEW c \in Clients, NEW name \in Names
    PROVE  Path(c, name) \in Keys /\ Path(c, name).ns = HomeOf[c]
BY ClientsAssumption DEF Path, Keys

(* Commit writes an object with the next resource version.                    *)
LEMMA CommitWrites ==
    ASSUME ClientsTypeOK, NEW k \in Keys, NEW app \in Apps,
           NEW spec \in SUBSET Clients, NEW status \in SUBSET Clients,
           Commit(k, app, spec, status)
    PROVE  \E o \in Objects :
              /\ o.rv = Len(log) + 1 /\ o.app = app
              /\ o.spec = spec /\ o.status = status
              /\ Writes(k, o) /\ store'[k] = o
PROOF
  <1>. DEFINE o == [rv |-> Len(log) + 1, app |-> app, spec |-> spec, status |-> status]
  <1>1. Len(log) \in Nat
    BY DEF ClientsTypeOK
  <1>2. o \in Objects
    BY <1>1 DEF Objects
  <1>3. Writes(k, o)
    BY DEF Commit, Writes, Revision
  <1>4. store'[k] = o
    BY <1>3 DEF Writes, ClientsTypeOK
  <1>5. /\ o.rv = Len(log) + 1 /\ o.app = app
        /\ o.spec = spec /\ o.status = status
    OBVIOUS
  <1>. QED
    BY <1>2, <1>3, <1>4, <1>5

(* The reply of a write carries the object written.                           *)
LEMMA IntoReplies ==
    ASSUME NEW c \in Clients, NEW k \in Keys, NEW o \in Objects,
           store'[k] = o, Into(c, k)
    PROVE  Replies(c, k, o)
BY ObjectsArePresent DEF Into, Replies

(* A copy whose version is the stored one has the stored content.             *)
LEMMA MatchingCopyIsStored ==
    ASSUME SourcesInv, NEW c \in Clients, copy[c] # Absent,
           NEW body, body.rv = copy[c].rv, Matches(copy[c].key, body)
    PROVE  /\ copy[c].key \in Keys /\ copy[c].key.ns = HomeOf[c]
           /\ Stored(copy[c].key) /\ store[copy[c].key] \in Objects
           /\ copy[c].app = store[copy[c].key].app
           /\ copy[c].spec = store[copy[c].key].spec
           /\ copy[c].status = store[copy[c].key].status
PROOF
  <1>. DEFINE k == copy[c].key
  <1>1. copy[c] \in Copies /\ k \in Keys /\ k.ns = HomeOf[c]
    BY DEF SourcesInv, ClientsTypeOK, CopiesAreAtHome, Copies
  <1>2. Stored(k) /\ store[k].rv = copy[c].rv
    BY DEF Matches
  <1>3. store[k] \in Objects
    BY <1>1, <1>2 DEF SourcesInv, ClientsTypeOK, Stored
  <1>4. log[copy[c].rv] = [key |-> k, obj |-> store[k]]
    BY <1>1, <1>2 DEF SourcesInv, VersionNamesContent
  <1>5. copy[c] = CopyOf(log[copy[c].rv].key, log[copy[c].rv].obj)
    BY DEF SourcesInv, VersionNamesContent
  <1>6. copy[c] = CopyOf(k, store[k])
    BY <1>4, <1>5
  <1>7. /\ copy[c].app = store[k].app
        /\ copy[c].spec = store[k].spec
        /\ copy[c].status = store[k].status
    BY <1>6 DEF CopyOf
  <1>. QED
    BY <1>1, <1>2, <1>3, <1>7

-----------------------------------------------------------------------------
(* Each method of the client is one of those steps.                           *)

(* A Get returns a version of an object in the namespace of the handle.        *)
LEMMA GetReads ==
    ASSUME NEW c \in Clients, NEW name \in Names, Get(c, name)
    PROVE  ReadStep(c)
BY PathIsAtHome DEF Get, ReadStep

(* Create makes an object where there is none.                                *)
LEMMA CreateWrites ==
    ASSUME SourcesInv, NEW c \in Clients, NEW name \in Names, Create(c, name)
    PROVE  WriteStep(c)
PROOF
  <1>. DEFINE k == Path(c, name)
  <1>1. k \in Keys /\ k.ns = HomeOf[c]
    BY PathIsAtHome
  <1>2. PICK app \in Apps : Post(k, [app |-> app, spec |-> {c} \ Controllers])
    BY DEF Create
  <1>3. ~Stored(k) /\ Commit(k, app, {c} \ Controllers, {})
    BY <1>2 DEF Post
  <1>4. PICK o \in Objects :
          /\ o.rv = Len(log) + 1 /\ o.spec = {c} \ Controllers /\ o.status = {}
          /\ Writes(k, o) /\ store'[k] = o
    BY <1>1, <1>3, CommitWrites DEF SourcesInv
  <1>5. Replies(c, k, o)
    BY <1>1, <1>4, IntoReplies DEF Create
  <1>6. Makes(c, k, o)
    BY <1>3, <1>4 DEF Makes
  <1>. QED
    BY <1>1, <1>4, <1>5, <1>6 DEF WriteStep

(* Update writes on top of the version its caller has read, or not at all.    *)
LEMMA UpdateWrites ==
    ASSUME SourcesInv, NEW c \in Clients, Update(c)
    PROVE  WriteStep(c)
PROOF
  <1>. DEFINE k == copy[c].key
  <1>1. c \notin Controllers /\ copy[c] # Absent
    BY DEF Update
  <1>2. PICK app \in Apps : Put(k, Edited(c, app))
    BY DEF Update
  <1>3. copy[c] \in Copies
    BY <1>1 DEF SourcesInv, ClientsTypeOK
  <1>4. /\ Edited(c, app).rv = copy[c].rv /\ Edited(c, app).app = app
        /\ Edited(c, app).spec = copy[c].spec \cup {c}
    BY <1>3 DEF Edited, Copies
  <1>5. Matches(k, Edited(c, app)) /\ Commit(k, app, copy[c].spec \cup {c}, store[k].status)
    BY <1>2, <1>4 DEF Put
  <1>6. /\ k \in Keys /\ k.ns = HomeOf[c] /\ Stored(k) /\ store[k] \in Objects
        /\ copy[c].spec = store[k].spec
    BY <1>1, <1>4, <1>5, MatchingCopyIsStored
  <1>7. copy[c].spec \cup {c} \in SUBSET Clients /\ store[k].status \in SUBSET Clients
    BY <1>6 DEF Objects
  <1>8. PICK o \in Objects :
          /\ o.rv = Len(log) + 1 /\ o.spec = copy[c].spec \cup {c}
          /\ o.status = store[k].status
          /\ Writes(k, o) /\ store'[k] = o
    BY <1>5, <1>6, <1>7, CommitWrites DEF SourcesInv
  <1>9. Replies(c, k, o)
    BY <1>6, <1>8, IntoReplies DEF Update
  <1>10. Edits(c, k, o)
    BY <1>1, <1>6, <1>8 DEF Edits
  <1>. QED
    BY <1>6, <1>8, <1>9, <1>10 DEF WriteStep

(* So does UpdateStatus, and it leaves spec and labels alone.                 *)
LEMMA UpdateStatusWrites ==
    ASSUME SourcesInv, NEW c \in Clients, UpdateStatus(c)
    PROVE  WriteStep(c)
PROOF
  <1>. DEFINE k == copy[c].key
  <1>1. c \in Controllers /\ copy[c] # Absent
    BY DEF UpdateStatus
  <1>2. PICK app \in Apps : PutStatus(k, Edited(c, app))
    BY DEF UpdateStatus
  <1>3. copy[c] \in Copies
    BY <1>1 DEF SourcesInv, ClientsTypeOK
  <1>4. /\ Edited(c, app).rv = copy[c].rv
        /\ Edited(c, app).status = copy[c].status \cup {c}
    BY <1>3 DEF Edited, Copies
  <1>5. /\ Matches(k, Edited(c, app))
        /\ Commit(k, store[k].app, store[k].spec, copy[c].status \cup {c})
    BY <1>2, <1>4 DEF PutStatus
  <1>6. /\ k \in Keys /\ k.ns = HomeOf[c] /\ Stored(k) /\ store[k] \in Objects
        /\ copy[c].status = store[k].status
    BY <1>1, <1>4, <1>5, MatchingCopyIsStored
  <1>7. /\ store[k].app \in Apps /\ store[k].spec \in SUBSET Clients
        /\ copy[c].status \cup {c} \in SUBSET Clients
    BY <1>6 DEF Objects
  <1>8. PICK o \in Objects :
          /\ o.rv = Len(log) + 1 /\ o.app = store[k].app
          /\ o.spec = store[k].spec
          /\ o.status = copy[c].status \cup {c}
          /\ Writes(k, o) /\ store'[k] = o
    BY <1>5, <1>6, <1>7, CommitWrites DEF SourcesInv
  <1>9. Replies(c, k, o)
    BY <1>6, <1>8, IntoReplies DEF UpdateStatus
  <1>10. Reports(c, k, o)
    BY <1>1, <1>6, <1>8 DEF Reports
  <1>. QED
    BY <1>6, <1>8, <1>9, <1>10 DEF WriteStep

(* Patch writes on top of what is stored.                                     *)
LEMMA PatchWrites ==
    ASSUME SourcesInv, NEW c \in Clients, NEW name \in Names, Patch(c, name)
    PROVE  WriteStep(c)
PROOF
  <1>. DEFINE k == Path(c, name)
  <1>1. k \in Keys /\ k.ns = HomeOf[c]
    BY PathIsAtHome
  <1>2. Stored(k) /\ store[k] \in Objects
    BY <1>1 DEF Patch, Stored, SourcesInv, ClientsTypeOK
  <1>3. /\ store[k].app \in Apps
        /\ store[k].spec \in SUBSET Clients /\ store[k].status \in SUBSET Clients
        /\ store[k].spec \cup {c} \in SUBSET Clients
        /\ store[k].status \cup {c} \in SUBSET Clients
    BY <1>2 DEF Objects
  <1>4. CASE c \in Controllers
    <2>1. Commit(k, store[k].app, store[k].spec, store[k].status \cup {c})
      BY <1>4 DEF Patch
    <2>2. PICK o \in Objects :
            /\ o.rv = Len(log) + 1 /\ o.app = store[k].app
            /\ o.spec = store[k].spec /\ o.status = store[k].status \cup {c}
            /\ Writes(k, o) /\ store'[k] = o
      BY <1>1, <1>3, <2>1, CommitWrites DEF SourcesInv
    <2>3. Replies(c, k, o)
      BY <1>1, <2>2, IntoReplies DEF Patch
    <2>4. Reports(c, k, o)
      BY <1>2, <1>4, <2>2 DEF Reports
    <2>. QED
      BY <1>1, <2>2, <2>3, <2>4 DEF WriteStep
  <1>5. CASE c \notin Controllers
    <2>1. Commit(k, store[k].app, store[k].spec \cup {c}, store[k].status)
      BY <1>5 DEF Patch
    <2>2. PICK o \in Objects :
            /\ o.rv = Len(log) + 1
            /\ o.spec = store[k].spec \cup {c} /\ o.status = store[k].status
            /\ Writes(k, o) /\ store'[k] = o
      BY <1>1, <1>3, <2>1, CommitWrites DEF SourcesInv
    <2>3. Replies(c, k, o)
      BY <1>1, <2>2, IntoReplies DEF Patch
    <2>4. Edits(c, k, o)
      BY <1>2, <1>5, <2>2 DEF Edits
    <2>. QED
      BY <1>1, <2>2, <2>3, <2>4 DEF WriteStep
  <1>. QED
    BY <1>4, <1>5

(* A deletion, of one object or as a part of DeleteCollection.                *)
LEMMA EraseWrites ==
    ASSUME NEW c \in Clients, NEW k \in Keys, Stored(k), Erase(k), UNCHANGED copy
    PROVE  WriteStep(c)
PROOF
  <1>1. Writes(k, Absent)
    BY DEF Erase, Writes
  <1>2. Removes(k, Absent) /\ Replies(c, k, Absent)
    BY DEF Removes, Replies
  <1>. QED
    BY <1>1, <1>2 DEF WriteStep

(* There is no other method.                                                  *)
LEMMA StepReadsOrWrites ==
    ASSUME SourcesInv, NEW c \in Clients, ClientStep(c)
    PROVE  ReadStep(c) \/ WriteStep(c)
PROOF
  <1>1. ASSUME NEW name \in Names, Get(c, name)
        PROVE  ReadStep(c)
    BY <1>1, GetReads
  <1>2. ASSUME NEW name \in Names, Create(c, name)
        PROVE  WriteStep(c)
    BY <1>2, CreateWrites
  <1>3. ASSUME NEW name \in Names, Patch(c, name)
        PROVE  WriteStep(c)
    BY <1>3, PatchWrites
  <1>4. ASSUME NEW name \in Names, Delete(c, name)
        PROVE  WriteStep(c)
    BY <1>4, PathIsAtHome, EraseWrites DEF Delete
  <1>5. CASE Update(c)
    BY <1>5, UpdateWrites
  <1>6. CASE UpdateStatus(c)
    BY <1>6, UpdateStatusWrites
  <1>7. CASE DeleteCollection(c)
    BY <1>7 DEF DeleteCollection, ReadStep
  <1>8. CASE DeleteNext(c)
    <2>1. PICK k \in doomed[c] :
            /\ IF Stored(k) THEN Erase(k) ELSE UNCHANGED <<store, log>>
            /\ UNCHANGED copy
      BY <1>8 DEF DeleteNext
    <2>2. k \in Keys
      BY DEF SourcesInv, ClientsTypeOK
    <2>3. CASE Stored(k)
      BY <2>1, <2>2, <2>3, EraseWrites
    <2>4. CASE ~Stored(k)
      BY <2>1, <2>4 DEF ReadStep
    <2>. QED
      BY <2>3, <2>4
  <1>. QED
    BY <1>1, <1>2, <1>3, <1>4, <1>5, <1>6, <1>7, <1>8 DEF ClientStep

-----------------------------------------------------------------------------
(* Resource versions name contents.                                           *)

(* The log grows by one entry, whose object, if any, has the next version.    *)
LEMMA LogGrows ==
    ASSUME ClientsTypeOK, NEW k \in Keys, NEW o \in Objects \cup {Absent}, Writes(k, o)
    PROVE  /\ DOMAIN log' = 1..(Len(log) + 1) /\ DOMAIN log = 1..Len(log)
           /\ Len(log) \in Nat
           /\ log' \in Seq([key : Keys, obj : Objects \cup {Absent}])
           /\ \A i \in DOMAIN log : i \in DOMAIN log' /\ log'[i] = log[i]
           /\ log'[Len(log) + 1] = [key |-> k, obj |-> o]
PROOF
  <1>1. log \in Seq([key : Keys, obj : Objects \cup {Absent}]) /\ Len(log) \in Nat
    BY DEF ClientsTypeOK
  <1>2. [key |-> k, obj |-> o] \in [key : Keys, obj : Objects \cup {Absent}]
    OBVIOUS
  <1>. QED
    BY <1>1, <1>2 DEF Writes

(* A copy has the version of its object.                                      *)
LEMMA CopyOfIsCopy ==
    ASSUME NEW k \in Keys, NEW o \in Objects
    PROVE  CopyOf(k, o) \in Copies /\ CopyOf(k, o).rv = o.rv /\ CopyOf(k, o).key = k
BY DEF CopyOf, Copies, Objects

(* What a write step leaves behind in the store, the log and the copies.      *)
LEMMA WriteStepTypes ==
    ASSUME SourcesInv, NEW c \in Clients, WriteStep(c)
    PROVE  /\ store' \in [Keys -> Objects \cup {Absent}]
           /\ log' \in Seq([key : Keys, obj : Objects \cup {Absent}])
           /\ copy' \in [Clients -> Copies \cup {Absent}]
           /\ VersionNamesContent' /\ PositionsAreVersions' /\ CopiesAreAtHome'
PROOF
  <1>1. PICK k \in Keys, o \in Objects \cup {Absent} :
          /\ k.ns = HomeOf[c] \/ Removes(k, o)
          /\ Makes(c, k, o) \/ Edits(c, k, o) \/ Reports(c, k, o) \/ Removes(k, o)
          /\ Writes(k, o) /\ Replies(c, k, o)
    BY DEF WriteStep
  <1>2. ClientsTypeOK /\ VersionNamesContent /\ PositionsAreVersions /\ CopiesAreAtHome
    BY DEF SourcesInv
  <1>3. /\ DOMAIN log' = 1..(Len(log) + 1) /\ DOMAIN log = 1..Len(log)
        /\ Len(log) \in Nat
        /\ log' \in Seq([key : Keys, obj : Objects \cup {Absent}])
        /\ \A i \in DOMAIN log : i \in DOMAIN log' /\ log'[i] = log[i]
        /\ log'[Len(log) + 1] = [key |-> k, obj |-> o]
    BY <1>1, <1>2, LogGrows
  <1>4. store' = [store EXCEPT ![k] = o] /\ store' \in [Keys -> Objects \cup {Absent}]
    BY <1>1, <1>2 DEF Writes, ClientsTypeOK
  <1>5. o # Absent => o \in Objects /\ o.rv = Len(log) + 1 /\ k.ns = HomeOf[c]
    BY <1>1 DEF Makes, Edits, Reports, Removes
  <1>6. \A d \in Clients : copy'[d] = copy[d] \/ (o # Absent /\ d = c /\ copy'[d] = CopyOf(k, o))
    <2>1. copy' = copy \/ (o # Absent /\ copy' = [copy EXCEPT ![c] = CopyOf(k, o)])
      BY <1>1 DEF Replies
    <2>2. copy \in [Clients -> Copies \cup {Absent}]
      BY <1>2 DEF ClientsTypeOK
    <2>. QED
      BY <2>1, <2>2
  <1>7. copy' \in [Clients -> Copies \cup {Absent}]
    <2>1. o # Absent => CopyOf(k, o) \in Copies
      BY <1>5, CopyOfIsCopy
    <2>. QED
      BY <1>1, <1>2, <2>1 DEF Replies, ClientsTypeOK
  <1>8. ASSUME NEW j \in Keys, store'[j] # Absent
        PROVE  store'[j].rv \in DOMAIN log' /\ log'[store'[j].rv] = [key |-> j, obj |-> store'[j]]
    <2>1. CASE j = k
      <3>1. store'[j] = o
        BY <1>2, <1>4, <2>1 DEF ClientsTypeOK
      <3>2. o # Absent /\ o.rv = Len(log) + 1
        BY <1>5, <1>8, <3>1
      <3>3. o.rv \in DOMAIN log'
        BY <1>3, <3>2
      <3>. QED
        BY <1>3, <2>1, <3>1, <3>2, <3>3
    <2>2. CASE j # k
      <3>1. store'[j] = store[j]
        BY <1>2, <1>4, <2>2 DEF ClientsTypeOK
      <3>2. store[j].rv \in DOMAIN log /\ log[store[j].rv] = [key |-> j, obj |-> store[j]]
        BY <1>2, <1>8, <3>1 DEF VersionNamesContent, Stored
      <3>. QED
        BY <1>3, <3>1, <3>2
    <2>. QED
      BY <2>1, <2>2
  <1>9. ASSUME NEW d \in Clients, copy'[d] # Absent
        PROVE  /\ copy'[d].rv \in DOMAIN log'
               /\ log'[copy'[d].rv].obj # Absent
               /\ copy'[d] = CopyOf(log'[copy'[d].rv].key, log'[copy'[d].rv].obj)
               /\ copy'[d].key.ns = HomeOf[d]
    <2>1. CASE copy'[d] = copy[d]
      <3>1. /\ copy[d].rv \in DOMAIN log
            /\ log[copy[d].rv].obj # Absent
            /\ copy[d] = CopyOf(log[copy[d].rv].key, log[copy[d].rv].obj)
            /\ copy[d].key.ns = HomeOf[d]
        BY <1>2, <1>9, <2>1 DEF VersionNamesContent, CopiesAreAtHome
      <3>2. log'[copy[d].rv] = log[copy[d].rv] /\ copy[d].rv \in DOMAIN log'
        BY <1>3, <3>1
      <3>. QED
        BY <2>1, <3>1, <3>2
    <2>2. CASE o # Absent /\ d = c /\ copy'[d] = CopyOf(k, o)
      <3>1. copy'[d].rv = Len(log) + 1 /\ copy'[d].key = k /\ k.ns = HomeOf[d]
        BY <1>5, <2>2, CopyOfIsCopy
      <3>2. Len(log) + 1 \in DOMAIN log'
        BY <1>3
      <3>3. log'[copy'[d].rv].key = k /\ log'[copy'[d].rv].obj = o
        BY <1>3, <3>1
      <3>. QED
        BY <2>2, <3>1, <3>2, <3>3
    <2>. QED
      BY <1>6, <2>1, <2>2
  <1>10. ASSUME NEW i \in DOMAIN log', log'[i].obj # Absent
         PROVE  log'[i].obj.rv = i
    <2>1. CASE i \in DOMAIN log
      BY <1>2, <1>3, <1>10, <2>1 DEF PositionsAreVersions
    <2>2. CASE i = Len(log) + 1
      BY <1>3, <1>5, <1>10, <2>2
    <2>. QED
      BY <1>3, <2>1, <2>2
  <1>. QED
    BY <1>3, <1>4, <1>7, <1>8, <1>9, <1>10
    DEF VersionNamesContent, PositionsAreVersions, CopiesAreAtHome, Stored

(* A reply without a write brings an entry of the log, with its position.     *)
LEMMA ReadStepTypes ==
    ASSUME SourcesInv, NEW c \in Clients, ReadStep(c)
    PROVE  /\ store' \in [Keys -> Objects \cup {Absent}]
           /\ log' \in Seq([key : Keys, obj : Objects \cup {Absent}])
           /\ copy' \in [Clients -> Copies \cup {Absent}]
           /\ VersionNamesContent' /\ PositionsAreVersions' /\ CopiesAreAtHome'
PROOF
  <1>1. ClientsTypeOK /\ VersionNamesContent /\ PositionsAreVersions /\ CopiesAreAtHome
    BY DEF SourcesInv
  <1>2. store' = store /\ log' = log
    BY DEF ReadStep
  <1>3. CASE UNCHANGED copy
    BY <1>1, <1>2, <1>3
    DEF ClientsTypeOK, VersionNamesContent, PositionsAreVersions, CopiesAreAtHome, Stored
  <1>4. ASSUME NEW i \in DOMAIN log, log[i].obj # Absent, log[i].key.ns = HomeOf[c],
               copy' = [copy EXCEPT ![c] = CopyOf(log[i].key, log[i].obj)]
        PROVE  /\ copy' \in [Clients -> Copies \cup {Absent}]
               /\ VersionNamesContent' /\ PositionsAreVersions' /\ CopiesAreAtHome'
    <2>. DEFINE o == log[i].obj
                k == log[i].key
    <2>1. o \in Objects /\ k \in Keys /\ o.rv = i
      <3>1. log[i] \in [key : Keys, obj : Objects \cup {Absent}]
        BY <1>1, <1>4, ElementsAreIn DEF ClientsTypeOK
      <3>. QED
        BY <1>1, <1>4, <3>1 DEF PositionsAreVersions
    <2>2. CopyOf(k, o) \in Copies /\ CopyOf(k, o).rv = i /\ CopyOf(k, o).key = k
      BY <2>1, CopyOfIsCopy
    <2>3. \A d \in Clients : copy'[d] = IF d = c THEN CopyOf(k, o) ELSE copy[d]
      BY <1>1, <1>4 DEF ClientsTypeOK
    <2>4. copy' \in [Clients -> Copies \cup {Absent}]
      BY <1>1, <1>4, <2>2 DEF ClientsTypeOK
    <2>5. VersionNamesContent'
      BY <1>1, <1>2, <1>4, <2>2, <2>3 DEF VersionNamesContent, Stored
    <2>6. PositionsAreVersions' /\ CopiesAreAtHome'
      BY <1>1, <1>2, <1>4, <2>2, <2>3 DEF PositionsAreVersions, CopiesAreAtHome
    <2>. QED
      BY <2>4, <2>5, <2>6
  <1>. QED
    BY <1>1, <1>2, <1>3, <1>4 DEF ReadStep, ClientsTypeOK

(* DeleteCollection dooms objects of the handle's namespace only.             *)
LEMMA DoomedStep ==
    ASSUME ClientsTypeOK, NEW c \in Clients, ClientStep(c)
    PROVE  /\ doomed' \in [Clients -> SUBSET Keys]
           /\ \A d \in Clients : \A k \in doomed'[d] :
                k \in doomed[d] \/ k.ns = HomeOf[d]
PROOF
  <1>1. doomed \in [Clients -> SUBSET Keys]
    BY DEF ClientsTypeOK
  <1>2. CASE UNCHANGED doomed
    BY <1>1, <1>2
  <1>3. CASE DeleteCollection(c)
    <2>1. PICK sel \in SUBSET Apps :
            doomed' = [doomed EXCEPT ![c] =
              {k \in Keys : k.ns = HomeOf[c] /\ Stored(k) /\ store[k].app \in sel}]
      BY <1>3 DEF DeleteCollection
    <2>. QED
      BY <1>1, <2>1
  <1>4. CASE DeleteNext(c)
    <2>1. PICK k \in doomed[c] : doomed' = [doomed EXCEPT ![c] = @ \ {k}]
      BY <1>4 DEF DeleteNext
    <2>. QED
      BY <1>1, <2>1
  <1>. QED
    BY <1>2, <1>3, <1>4 DEF ClientStep, Get, Create, Patch, Delete, Update, UpdateStatus

(* The invariant holds at the start, is kept by every step, and so holds      *)
(* always.                                                                    *)
LEMMA InvInit == ClientsInit => SourcesInv
PROOF
  <1>. SUFFICES ASSUME ClientsInit PROVE SourcesInv
    OBVIOUS
  <1>1. ClientsTypeOK
    BY DEF ClientsInit, ClientsTypeOK
  <1>2. VersionNamesContent /\ PositionsAreVersions /\ CopiesAreAtHome
    BY DEF ClientsInit, VersionNamesContent, PositionsAreVersions, CopiesAreAtHome, Stored
  <1>. QED
    BY <1>1, <1>2 DEF SourcesInv

(* The invariant of the store is kept by every step of the clients ...        *)
LEMMA InvNext ==
    SourcesInv /\ [ClientsNext]_clientVars => SourcesInv'
PROOF
  <1>1. ASSUME SourcesInv, NEW c \in Clients, ClientStep(c)
        PROVE  SourcesInv'
    <2>1. ClientsTypeOK
      BY <1>1 DEF SourcesInv
    <2>2. doomed' \in [Clients -> SUBSET Keys]
      BY <1>1, <2>1, DoomedStep
    <2>3. CASE ReadStep(c)
      BY <1>1, <2>2, <2>3, ReadStepTypes DEF SourcesInv, ClientsTypeOK
    <2>4. CASE WriteStep(c)
      BY <1>1, <2>2, <2>4, WriteStepTypes DEF SourcesInv, ClientsTypeOK
    <2>. QED
      BY <1>1, <2>3, <2>4, StepReadsOrWrites
  <1>2. ASSUME SourcesInv, UNCHANGED clientVars
        PROVE  SourcesInv'
    BY <1>2 DEF SourcesInv, ClientsTypeOK, VersionNamesContent, PositionsAreVersions,
       CopiesAreAtHome, Stored, clientVars
  <1>. QED
    BY <1>1, <1>2 DEF ClientsNext

(* ... and so it always holds.                                                *)
LEMMA InvAlways == ClientsSpec => []SourcesInv
PROOF
  <1>. QED
    BY InvInit, InvNext, PTL DEF ClientsSpec

(* A resource version names one content of one object: two copies with the    *)
(* same version, and the stored object with that version, are the same.       *)
(* Optimistic concurrency of Update and UpdateStatus rests on it.             *)
THEOREM VersionsNameContents ==
    ClientsSpec => []VersionNamesContent
PROOF
  <1>1. SourcesInv => VersionNamesContent
    BY DEF SourcesInv
  <1>. QED
    BY <1>1, InvAlways, PTL

-----------------------------------------------------------------------------
(* Spec and status, and the namespaces.                                       *)

(* The part of HandlesKeepToTheirNamespace about what is stored.              *)
AuthorsAreAtHome ==
    \A k \in Keys : Stored(k) =>
        \A c \in store[k].spec \cup store[k].status : HomeOf[c] = k.ns

(* A write adds its author to the half it is about, in his namespace.         *)
LEMMA WriteKeepsHalves ==
    ASSUME SourcesInv, EachWritesItsHalf, AuthorsAreAtHome,
           NEW c \in Clients, WriteStep(c)
    PROVE  EachWritesItsHalf' /\ AuthorsAreAtHome'
PROOF
  <1>1. PICK k \in Keys, o \in Objects \cup {Absent} :
          /\ k.ns = HomeOf[c] \/ Removes(k, o)
          /\ Makes(c, k, o) \/ Edits(c, k, o) \/ Reports(c, k, o) \/ Removes(k, o)
          /\ Writes(k, o)
    BY DEF WriteStep
  <1>2. \A j \in Keys : store'[j] = IF j = k THEN o ELSE store[j]
    BY <1>1 DEF Writes, SourcesInv, ClientsTypeOK
  <1>3. ASSUME o # Absent
        PROVE  /\ o.spec \cap Controllers = {} /\ o.status \subseteq Controllers
               /\ \A d \in o.spec \cup o.status : HomeOf[d] = k.ns
    <2>1. k.ns = HomeOf[c]
      BY <1>1, <1>3 DEF Removes
    <2>2. CASE Makes(c, k, o)
      BY <2>1, <2>2 DEF Makes
    <2>3. CASE Edits(c, k, o)
      BY <1>1, <2>1, <2>3 DEF Edits, EachWritesItsHalf, AuthorsAreAtHome
    <2>4. CASE Reports(c, k, o)
      BY <1>1, <2>1, <2>4 DEF Reports, EachWritesItsHalf, AuthorsAreAtHome
    <2>. QED
      BY <1>1, <1>3, <2>2, <2>3, <2>4 DEF Removes
  <1>. QED
    BY <1>2, <1>3 DEF EachWritesItsHalf, AuthorsAreAtHome, Stored

(* The two go together: an author is at home, whichever half he wrote.        *)
LEMMA HalvesAndNamespaces ==
    ClientsSpec => [](EachWritesItsHalf /\ HandlesKeepToTheirNamespace)
PROOF
  <1>. DEFINE DoomedAtHome == \A c \in Clients : \A k \in doomed[c] : HomeOf[c] = k.ns
              Inv == EachWritesItsHalf /\ AuthorsAreAtHome /\ DoomedAtHome
  <1>1. ClientsInit => Inv
    BY DEF ClientsInit, EachWritesItsHalf, AuthorsAreAtHome, Stored
  <1>2. SourcesInv /\ Inv /\ [ClientsNext]_clientVars => Inv'
    <2>1. ASSUME SourcesInv, Inv, NEW c \in Clients, ClientStep(c)
          PROVE  Inv'
      <3>1. DoomedAtHome'
        BY <2>1, DoomedStep DEF SourcesInv
      <3>2. CASE ReadStep(c)
        BY <2>1, <3>1, <3>2 DEF ReadStep, EachWritesItsHalf, AuthorsAreAtHome, Stored
      <3>3. CASE WriteStep(c)
        BY <2>1, <3>1, <3>3, WriteKeepsHalves
      <3>. QED
        BY <2>1, <3>2, <3>3, StepReadsOrWrites
    <2>2. ASSUME Inv, UNCHANGED clientVars
          PROVE  Inv'
      BY <2>2 DEF EachWritesItsHalf, AuthorsAreAtHome, Stored, clientVars
    <2>. QED
      BY <2>1, <2>2 DEF ClientsNext
  <1>3. Inv => EachWritesItsHalf /\ HandlesKeepToTheirNamespace
    BY DEF AuthorsAreAtHome, HandlesKeepToTheirNamespace
  <1>. QED
    BY <1>1, <1>2, <1>3, InvAlways, PTL DEF ClientsSpec

(* Whatever users and controllers have in their copies, no controller's       *)
(* change ever reaches a spec and no user's a status: UpdateStatus names the  *)
(* subresource, Update does not.                                              *)
THEOREM HalvesStayApart ==
    ClientsSpec => []EachWritesItsHalf
BY HalvesAndNamespaces, PTL

(* No handle ever reaches an object of another namespace, DeleteCollection    *)
(* included.                                                                  *)
THEOREM NamespacesStayApart ==
    ClientsSpec => []HandlesKeepToTheirNamespace
BY HalvesAndNamespaces, PTL

-----------------------------------------------------------------------------
(* The clientset implements SourceStore.                                      *)

(* The table that SourceStore sees, and an object in it.                      *)
Shown(o) ==
    IF o # Absent THEN [app |-> o.app, spec |-> o.spec, status |-> o.status] ELSE Absent

Table == [k \in Keys |->
    IF Stored(k) THEN [app |-> store[k].app, spec |-> store[k].spec,
                       status |-> store[k].status]
    ELSE Absent]

(* The table and the one after a step.                                        *)
LEMMA TableShows ==
    /\ Table = [k \in Keys |-> Shown(store[k])]
    /\ Table' = [k \in Keys |-> Shown(store'[k])]
BY DEF Table, Shown, Stored

(* A stored object is shown as an object.                                     *)
LEMMA ShownIsPresent ==
    ASSUME NEW o \in Objects
    PROVE  /\ Shown(o) = [app |-> o.app, spec |-> o.spec, status |-> o.status]
           /\ Shown(o) # Absent
           /\ o.app \in Apps /\ o.spec \in SUBSET Clients /\ o.status \in SUBSET Clients
PROOF
  <1>1. o # Absent
    BY ObjectsArePresent
  <1>2. o.app \in Apps /\ o.spec \in SUBSET Clients /\ o.status \in SUBSET Clients
    BY DEF Objects
  <1>3. [app |-> o.app, spec |-> o.spec, status |-> o.status] \in
          [app : Apps, spec : SUBSET Clients, status : SUBSET Clients]
    BY <1>2
  <1>. QED
    BY <1>1, <1>2, <1>3, ClientsAssumption DEF Shown

(* The actions of SourceStore, said of this table.                            *)
LEMMA CreateOfTable ==
    ASSUME NEW k \in Keys, ~(Table[k] # Absent), NEW a \in Apps, NEW S \in SUBSET Clients,
           Table' = [Table EXCEPT ![k] = [app |-> a, spec |-> S, status |-> {}]]
    PROVE  Contract!SCreate(k)
BY DEF Contract!SCreate, Contract!Present, Table

(* An edit of the store is one of the abstract store.                         *)
LEMMA EditOfTable ==
    ASSUME NEW k \in Keys, Table[k] # Absent, NEW a \in Apps, NEW S \in SUBSET Clients,
           Table' = [Table EXCEPT ![k] =
                       [app |-> a, spec |-> Table[k].spec \cup S, status |-> Table[k].status]]
    PROVE  Contract!SEdit(k)
BY DEF Contract!SEdit, Contract!Present, Table

(* So is a report of status.                                                  *)
LEMMA ReportOfTable ==
    ASSUME NEW k \in Keys, Table[k] # Absent, NEW S \in SUBSET Clients,
           Table' = [Table EXCEPT ![k] =
                       [app |-> Table[k].app, spec |-> Table[k].spec,
                        status |-> Table[k].status \cup S]]
    PROVE  Contract!SReport(k)
BY DEF Contract!SReport, Contract!Present, Table

(* Each write, made on whatever version the caller has seen, is an edit of    *)
(* the table as it is now.                                                    *)
LEMMA WriteIsAtomicEdit ==
    ASSUME SourcesInv, NEW c \in Clients, WriteStep(c)
    PROVE  Contract!SNext
PROOF
  <1>1. PICK k \in Keys, o \in Objects \cup {Absent} :
          /\ Makes(c, k, o) \/ Edits(c, k, o) \/ Reports(c, k, o) \/ Removes(k, o)
          /\ Writes(k, o)
    BY DEF WriteStep
  <1>2. Table' = [Table EXCEPT ![k] = Shown(o)]
    BY <1>1, TableShows DEF Writes, SourcesInv, ClientsTypeOK
  <1>3. Table[k] = Shown(store[k]) /\ Table = [j \in Keys |-> Table[j]]
    BY TableShows
  <1>4. Stored(k) => /\ store[k] \in Objects
                     /\ Table[k] = [app |-> store[k].app, spec |-> store[k].spec,
                                    status |-> store[k].status]
                     /\ Table[k] # Absent
    BY <1>3, ShownIsPresent DEF Stored, SourcesInv, ClientsTypeOK
  <1>5. ~Stored(k) => Table[k] = Absent
    BY <1>3 DEF Shown, Stored
  <1>6. CASE Makes(c, k, o)
    <2>1. /\ Shown(o) = [app |-> o.app, spec |-> o.spec, status |-> {}]
          /\ o.app \in Apps /\ o.spec \in SUBSET Clients
      BY <1>6, ShownIsPresent DEF Makes
    <2>2. ~(Table[k] # Absent)
      BY <1>5, <1>6 DEF Makes
    <2>3. Contract!SCreate(k)
      BY <1>2, <2>1, <2>2, CreateOfTable
    <2>. QED
      BY <2>3 DEF Contract!SNext
  <1>7. CASE Edits(c, k, o)
    <2>1. /\ Shown(o) = [app |-> o.app, spec |-> store[k].spec \cup {c},
                         status |-> store[k].status]
          /\ o.app \in Apps /\ Stored(k)
      BY <1>7, ShownIsPresent DEF Edits
    <2>2. Table[k] # Absent /\ Table[k].spec = store[k].spec /\ Table[k].status = store[k].status
      BY <1>4, <2>1
    <2>3. Table' = [Table EXCEPT ![k] = [app |-> o.app, spec |-> Table[k].spec \cup {c},
                                         status |-> Table[k].status]]
      BY <1>2, <2>1, <2>2
    <2>4. {c} \in SUBSET Clients
      OBVIOUS
    <2>5. Contract!SEdit(k)
      BY <2>1, <2>2, <2>3, <2>4, EditOfTable
    <2>. QED
      BY <2>5 DEF Contract!SNext
  <1>8. CASE Reports(c, k, o)
    <2>1. /\ Shown(o) = [app |-> store[k].app, spec |-> store[k].spec,
                         status |-> store[k].status \cup {c}]
          /\ Stored(k)
      BY <1>8, ShownIsPresent DEF Reports
    <2>2. /\ Table[k] # Absent /\ Table[k].app = store[k].app
          /\ Table[k].spec = store[k].spec /\ Table[k].status = store[k].status
      BY <1>4, <2>1
    <2>3. Table' = [Table EXCEPT ![k] = [app |-> Table[k].app, spec |-> Table[k].spec,
                                         status |-> Table[k].status \cup {c}]]
      BY <1>2, <2>1, <2>2
    <2>4. {c} \in SUBSET Clients
      OBVIOUS
    <2>5. Contract!SReport(k)
      BY <2>2, <2>3, <2>4, ReportOfTable
    <2>. QED
      BY <2>5 DEF Contract!SNext
  <1>9. CASE Removes(k, o)
    <2>1. Contract!SRemove(k)
      BY <1>2, <1>4, <1>9 DEF Removes, Shown, Contract!SRemove, Contract!Present, Table
    <2>. QED
      BY <2>1 DEF Contract!SNext
  <1>. QED
    BY <1>1, <1>6, <1>7, <1>8, <1>9

(* Reading, editing and writing back, with stale copies, lost replies and     *)
(* other callers in between, takes effect as an edit of the stored object at  *)
(* once, on top of everybody else's: no edit is undone by a caller who has    *)
(* not seen it.                                                               *)
THEOREM ClientsetImplementsStore ==
    ClientsSpec => EditsAreAtomic
PROOF
  <1>1. ClientsInit => Contract!SInit
    BY DEF ClientsInit, Contract!SInit, Stored
  <1>2. SourcesInv /\ [ClientsNext]_clientVars =>
          Contract!SNext \/ UNCHANGED Table
    <2>1. ASSUME SourcesInv, NEW c \in Clients, ClientStep(c)
          PROVE  Contract!SNext \/ UNCHANGED Table
      BY <2>1, StepReadsOrWrites, WriteIsAtomicEdit DEF ReadStep, Table, Stored
    <2>2. CASE UNCHANGED clientVars
      BY <2>2 DEF clientVars, Table, Stored
    <2>. QED
      BY <2>1, <2>2 DEF ClientsNext
  <1>3. SourcesInv /\ [ClientsNext]_clientVars =>
          [Contract!SNext]_(Table)
    BY <1>2
  <1>. QED
    BY <1>1, <1>3, InvAlways, PTL DEF ClientsSpec, EditsAreAtomic, Contract!SSpec, Table
=============================================================================
