---------------------------- MODULE InformersProofs ----------------------------
(* Proofs about Informers.tla, for any namespaces, clients, callers, filters  *)
(* and bounds: there is one informer, listers see what is selected and no     *)
(* more, and with one API server the cache never goes back and is complete    *)
(* once it is said to be synced.                                              *)
EXTENDS Informers, SourcesProofs, FiniteSetTheorems, SequenceTheorems

-----------------------------------------------------------------------------
(* Numbers and orders *)

(* Some of the first n numbers have a last one.                               *)
LEMMA LastOfSome ==
  ASSUME NEW n \in Nat, NEW S \in SUBSET (1..n), S # {}
  PROVE  \E i \in S : \A j \in S : j <= i
PROOF
  <1>. DEFINE T == {m \in Nat : n - m \in S}
  <1>1. T \subseteq Nat /\ T # {}
    <2>1. PICK i \in S : TRUE
      OBVIOUS
    <2>2. n - i \in Nat /\ n - (n - i) = i
      BY <2>1
    <2>. QED
      BY <2>1, <2>2
  <1>2. T \in SUBSET Nat
    BY <1>1
  <1>. HIDE DEF T
  <1>3. PICK x \in T : \A y \in T : <<y, x>> \notin OpToRel(<, Nat)
    BY <1>1, NatLessThanWellFounded, WFMin
  <1>4. ASSUME NEW y \in T PROVE x <= y
    <2>1. <<y, x>> \in Nat \X Nat
      BY <1>2
    <2>2. <<y, x>> \in OpToRel(<, Nat) <=> <<y, x>>[1] < <<y, x>>[2]
      BY <2>1, Zenon DEF OpToRel
    <2>3. <<y, x>> \notin OpToRel(<, Nat)
      BY <1>3, Zenon
    <2>4. ~ (<<y, x>>[1] < <<y, x>>[2])
      BY <2>2, <2>3, Zenon
    <2>. QED
      BY <1>2, <2>4
  <1>5. n - x \in S /\ \A j \in S : n - j \in T
    BY DEF T
  <1>. QED
    BY <1>2, <1>4, <1>5

(* An order of a finite set has every element once.                           *)
LEMMA OrderIsAll ==
  ASSUME NEW S, IsFiniteSet(S), NEW order \in SetToSeqs(S)
  PROVE  /\ Cardinality(S) \in Nat /\ order \in Seq(S) /\ Len(order) = Cardinality(S)
         /\ \A i, j \in DOMAIN order : order[i] = order[j] => i = j
         /\ \A k \in S : \E i \in DOMAIN order : order[i] = k
PROOF
  <1>. DEFINE n == Cardinality(S)
  <1>1. n \in Nat
    BY FS_CardinalityType
  <1>2. /\ order \in [1..n -> S]
        /\ \A i, j \in 1..n : i # j => order[i] # order[j]
    BY DEF SetToSeqs
  <1>3. order \in Injection(1..n, S)
    BY <1>2 DEF Injection, IsInjective
  <1>4. IsFiniteSet(1..n) /\ Cardinality(1..n) = n
    BY <1>1, FS_Interval
  <1>5. order \in Surjection(1..n, S)
    BY <1>3, <1>4, FS_Injection
  <1>. HIDE DEF n
  <1>6. order \in Seq(S) /\ Len(order) = n
    BY <1>1, <1>2
  <1>7. \A k \in S : \E i \in 1..n : order[i] = k
    BY <1>5 DEF Surjection
  <1>. QED
    BY <1>1, <1>2, <1>6, <1>7 DEF n

-----------------------------------------------------------------------------
(* What lists and watches show *)

(* A listed object is the last write of its key, and is selected.             *)
LEMMA ListedIsLatest ==
    ASSUME SourcesInv, NEW p \in 0..Revision, NEW k \in Keys, Listed(p, k) # Absent
    PROVE  /\ Listed(p, k) \in Objects /\ Listed(p, k).rv \in 1..p
           /\ log[Listed(p, k).rv] = [key |-> k, obj |-> Listed(p, k)]
           /\ Selected(k, Listed(p, k).app)
           /\ \A j \in 1..p : log[j].key = k => j <= Listed(p, k).rv
PROOF
  <1>. DEFINE writes == {i \in 1..p : log[i].key = k}
              last == CHOOSE i \in writes : \A j \in writes : j <= i
  <1>1. /\ log \in Seq([key : Keys, obj : Objects \cup {Absent}])
        /\ Revision = Len(log) /\ Revision \in Nat /\ p \in Nat
    BY DEF SourcesInv, ClientsTypeOK, Revision
  <1>2. Listed(p, k) = After(p, k) /\ Selected(k, Listed(p, k).app)
    BY DEF Listed
  <1>3. After(p, k) = IF writes = {} THEN Absent ELSE log[last].obj
    BY DEF After
  <1>4. writes # {} /\ After(p, k) = log[last].obj
    BY <1>2, <1>3
  <1>5. writes \in SUBSET (1..p)
    OBVIOUS
  <1>. HIDE DEF writes
  <1>6. last \in writes /\ \A j \in writes : j <= last
    BY <1>1, <1>4, <1>5, LastOfSome
  <1>. HIDE DEF last
  <1>7. last \in 1..p /\ last \in DOMAIN log /\ log[last].key = k
    BY <1>1, <1>6 DEF writes
  <1>8. log[last] \in [key : Keys, obj : Objects \cup {Absent}]
    BY <1>1, <1>7, ElementsAreIn
  <1>9. log[last].obj \in Objects /\ log[last].obj.rv = last
    BY <1>2, <1>4, <1>7, <1>8 DEF SourcesInv, PositionsAreVersions
  <1>10. log[last] = [key |-> k, obj |-> log[last].obj]
    BY <1>7, <1>8
  <1>. QED
    BY <1>2, <1>4, <1>6, <1>7, <1>9, <1>10 DEF writes

(* What was listed at some time stays what was listed then.                   *)
LEMMA ListedStays ==
    ASSUME NEW n \in Nat, \A i \in 1..n : log'[i] = log[i], NEW p \in 0..n, NEW k
    PROVE  Listed(p, k)' = Listed(p, k)
PROOF
  <1>. DEFINE old == {i \in 1..p : log[i].key = k}
              new == {i \in 1..p : log'[i].key = k}
              Latest(S) == CHOOSE i \in S : \A j \in S : j <= i
  <1>1. new = old /\ old \in SUBSET (1..p) /\ p \in Nat
    OBVIOUS
  <1>2. After(p, k) = IF old = {} THEN Absent ELSE log[Latest(old)].obj
    BY DEF After
  <1>3. After(p, k)' = IF new = {} THEN Absent ELSE log'[Latest(new)].obj
    BY DEF After
  <1>. HIDE DEF old, new
  <1>4. old # {} => Latest(old) \in old
    <2>1. old # {} => \E i \in old : \A j \in old : j <= i
      BY <1>1, LastOfSome
    <2>. QED
      BY <2>1
  <1>. HIDE DEF Latest
  <1>5. old # {} => log'[Latest(old)] = log[Latest(old)]
    <2>1. \A l \in old : l \in 1..n
      BY <1>1
    <2>. QED
      BY <1>4, <2>1
  <1>6. After(p, k)' = After(p, k)
    BY <1>1, <1>2, <1>3, <1>5
  <1>. QED
    BY <1>6 DEF Listed

(* The event of a write shows what a list would show after it.                *)
LEMMA WatchedIsListed ==
    ASSUME SourcesInv, NEW i \in 1..Revision
    PROVE  LET k == log[i].key
           IN  /\ k \in Keys
               /\ Listed(i, k) # Absent => Listed(i, k).rv = i
               /\ Watched(i) = {} => Listed(i, k) = Absent
               /\ \A d \in Watched(i) : d = [type |-> "watch", obj |-> Listed(i, k)]
               /\ \A d \in Watched(i) : d \in Deltas
PROOF
  <1>. DEFINE k == log[i].key
  <1>1. /\ log \in Seq([key : Keys, obj : Objects \cup {Absent}])
        /\ Revision = Len(log) /\ Revision \in Nat
    BY DEF SourcesInv, ClientsTypeOK, Revision
  <1>2. i \in DOMAIN log
    BY <1>1
  <1>3. k \in Keys
    <2>1. log[i] \in [key : Keys, obj : Objects \cup {Absent}]
      BY <1>1, <1>2, ElementsAreIn
    <2>. QED
      BY <2>1
  <1>4. Listed(i, k) # Absent => Listed(i, k).rv = i /\ Listed(i, k) \in Objects
    <2>. SUFFICES ASSUME Listed(i, k) # Absent
                  PROVE  Listed(i, k).rv = i /\ Listed(i, k) \in Objects
      OBVIOUS
    <2>1. i \in 0..Revision /\ i \in 1..i
      BY <1>1
    <2>2. Listed(i, k).rv \in 1..i /\ i <= Listed(i, k).rv /\ Listed(i, k) \in Objects
      BY <1>3, <2>1, ListedIsLatest
    <2>. QED
      BY <2>2
  <1>5. /\ Watched(i) = {} => Listed(i, k) = Absent
        /\ \A d \in Watched(i) : d = [type |-> "watch", obj |-> Listed(i, k)]
    BY DEF Watched, Deleted
  <1>. HIDE DEF k
  <1>6. \A d \in Watched(i) : d \in Deltas
    BY <1>4, <1>5 DEF Deltas, Deleted
  <1>. QED
    BY <1>3, <1>4, <1>5, <1>6 DEF k

(* Of two lists the later one shows the later version of an object.           *)
LEMMA LaterIsAtLeast ==
    ASSUME SourcesInv, NEW p \in 0..Revision, NEW q \in 0..p, NEW k \in Keys,
           Listed(p, k) # Absent, Listed(q, k) # Absent
    PROVE  Listed(p, k).rv >= Listed(q, k).rv /\ Listed(p, k).rv \in Nat
PROOF
  <1>1. Revision \in Nat /\ q \in 0..Revision
    BY DEF SourcesInv, ClientsTypeOK, Revision
  <1>2. /\ Listed(q, k).rv \in 1..q
        /\ log[Listed(q, k).rv] = [key |-> k, obj |-> Listed(q, k)]
    BY <1>1, ListedIsLatest
  <1>3. /\ Listed(p, k).rv \in 1..p
        /\ \A j \in 1..p : log[j].key = k => j <= Listed(p, k).rv
    BY ListedIsLatest
  <1>4. Listed(q, k).rv \in 1..p /\ log[Listed(q, k).rv].key = k
    BY <1>1, <1>2
  <1>. QED
    BY <1>1, <1>2, <1>3, <1>4

(* Only finitely many objects were ever written.                              *)
LEMMA WrittenAreFinite ==
    ASSUME SourcesInv, NEW S \in SUBSET Keys,
           \A k \in S : \E i \in 1..Revision : log[i].key = k
    PROVE  IsFiniteSet(S)
PROOF
  <1>. DEFINE f == [i \in 1..Revision |-> log[i].key]
              T == {k \in Keys : \E i \in 1..Revision : log[i].key = k}
  <1>1. /\ log \in Seq([key : Keys, obj : Objects \cup {Absent}])
        /\ Revision = Len(log) /\ Revision \in Nat
    BY DEF SourcesInv, ClientsTypeOK, Revision
  <1>2. IsFiniteSet(1..Revision)
    BY <1>1, FS_Interval
  <1>3. \A i \in 1..Revision : log[i].key \in T
    <2>1. ASSUME NEW i \in 1..Revision
          PROVE  log[i] \in [key : Keys, obj : Objects \cup {Absent}]
      <3>1. i \in DOMAIN log
        BY <1>1
      <3>. QED
        BY <1>1, <3>1, ElementsAreIn
    <2>. QED
      BY <2>1
  <1>4. \A k \in T : \E i \in 1..Revision : f[i] = k
    OBVIOUS
  <1>5. f \in [1..Revision -> T]
    BY <1>3
  <1>6. S \subseteq T
    OBVIOUS
  <1>. HIDE DEF f, T
  <1>7. f \in Surjection(1..Revision, T)
    BY <1>4, <1>5 DEF Surjection
  <1>8. IsFiniteSet(T)
    BY <1>2, <1>7, FS_Surjection
  <1>. QED
    BY <1>6, <1>8, FS_Subset

-----------------------------------------------------------------------------
(* The queue *)

(* The last of the deltas is the new one, or a deletion that a sync does not  *)
(* take back.                                                                 *)
LEMMA ExtendedEnds ==
    ASSUME NEW ds \in Seq(Deltas), NEW d \in Deltas
    PROVE  /\ Extended(ds, d) \in Seq(Deltas) /\ Extended(ds, d) # <<>>
           /\ \/ Last(Extended(ds, d)).obj = d.obj
              \/ /\ Last(Extended(ds, d)).obj = Absent
                 /\ d.type = "sync" /\ ds # <<>>
PROOF
  <1>1. Append(ds, d) \in Seq(Deltas) /\ Append(ds, d) # <<>> /\ Last(Append(ds, d)) = d
    BY DEF Last
  <1>2. EndsDeleted(ds) => ds # <<>> /\ Last(ds).obj = Absent
    BY DEF EndsDeleted, Deleted
  <1>. QED
    BY <1>1, <1>2 DEF Extended, Deleted

(* The queue has the keys with deltas, each once.                             *)
Once(q) == \A i, j \in DOMAIN q : q[i] = q[j] => i = j
Queues(q, S) == \A k \in Keys : k \in S <=> \E i \in DOMAIN q : q[i] = k
Busy(ds) == {k \in Keys : ds[k] # <<>>}

(* New keys go behind those that are queued.                                  *)
LEMMA QueueGrows ==
    ASSUME NEW q \in Seq(Keys), NEW order \in Seq(Keys),
           NEW S \in SUBSET Keys, NEW T \in SUBSET Keys, S \cap T = {},
           Once(q), Once(order), Queues(q, S), Queues(order, T)
    PROVE  /\ (q \o order) \in Seq(Keys) /\ Len(q \o order) = Len(q) + Len(order)
           /\ \A i \in 1..Len(q) : (q \o order)[i] = q[i]
           /\ Once(q \o order) /\ Queues(q \o order, S \cup T)
PROOF
  <1>. DEFINE r == q \o order
              m == Len(q)
              n == Len(order)
  <1>1. /\ m \in Nat /\ n \in Nat /\ r \in Seq(Keys) /\ Len(r) = m + n
        /\ DOMAIN q = 1..m /\ DOMAIN order = 1..n /\ DOMAIN r = 1..(m + n)
    OBVIOUS
  <1>2. \A i \in 1..m : r[i] = q[i]
    OBVIOUS
  <1>3. \A i \in 1..n : r[m + i] = order[i]
    OBVIOUS
  <1>4. \A i \in 1..m : q[i] \in S
    BY <1>1 DEF Queues
  <1>5. \A i \in 1..n : order[i] \in T
    BY <1>1 DEF Queues
  <1>. HIDE DEF r, m, n
  <1>6. \A i \in 1..(m + n) : i \in 1..m \/ \E j \in 1..n : i = m + j
    <2>1. ASSUME NEW i \in 1..(m + n), i \notin 1..m
          PROVE  \E j \in 1..n : i = m + j
      <3>1. i - m \in 1..n /\ i = m + (i - m)
        BY <1>1, <2>1
      <3>. QED
        BY <3>1
    <2>. QED
      BY <2>1
  <1>7. ASSUME NEW i \in 1..(m + n), NEW j \in 1..(m + n), r[i] = r[j]
        PROVE  i = j
    <2>1. CASE i \in 1..m /\ j \in 1..m
      BY <1>1, <1>2, <1>7, <2>1 DEF Once
    <2>2. CASE i \notin 1..m /\ j \notin 1..m
      <3>1. PICK u \in 1..n, v \in 1..n : i = m + u /\ j = m + v
        BY <1>6, <2>2
      <3>2. order[u] = order[v]
        BY <1>3, <1>7, <3>1
      <3>. QED
        BY <1>1, <3>1, <3>2 DEF Once
    <2>3. CASE i \in 1..m /\ j \notin 1..m
      BY <1>2, <1>3, <1>4, <1>5, <1>6, <1>7, <2>3
    <2>4. CASE i \notin 1..m /\ j \in 1..m
      BY <1>2, <1>3, <1>4, <1>5, <1>6, <1>7, <2>4
    <2>. QED
      BY <2>1, <2>2, <2>3, <2>4
  <1>8. ASSUME NEW k \in Keys
        PROVE  k \in S \cup T <=> \E i \in 1..(m + n) : r[i] = k
    <2>1. ASSUME k \in S PROVE \E i \in 1..(m + n) : r[i] = k
      <3>1. PICK i \in 1..m : q[i] = k
        BY <1>1, <2>1 DEF Queues
      <3>2. i \in 1..(m + n) /\ r[i] = k
        BY <1>1, <1>2, <3>1
      <3>. QED
        BY <3>2
    <2>2. ASSUME k \in T PROVE \E i \in 1..(m + n) : r[i] = k
      <3>1. PICK i \in 1..n : order[i] = k
        BY <1>1, <2>2 DEF Queues
      <3>2. m + i \in 1..(m + n) /\ r[m + i] = k
        BY <1>1, <1>3, <3>1
      <3>. QED
        BY <3>2
    <2>3. ASSUME NEW i \in 1..(m + n), r[i] = k PROVE k \in S \cup T
      BY <1>2, <1>3, <1>4, <1>5, <1>6, <2>3
    <2>. QED
      BY <2>1, <2>2, <2>3
  <1>9. Once(r) /\ Queues(r, S \cup T)
    BY <1>1, <1>7, <1>8 DEF Once, Queues
  <1>. QED
    BY <1>1, <1>2, <1>9 DEF r, m, n

(* The order in which a list or a resync queues keys.                         *)
LEMMA OrderQueues ==
    ASSUME NEW T \in SUBSET Keys, IsFiniteSet(T), NEW order \in SetToSeqs(T)
    PROVE  /\ order \in Seq(Keys) /\ Len(order) = Cardinality(T)
           /\ Once(order) /\ Queues(order, T)
PROOF
  <1>1. /\ order \in Seq(T) /\ Len(order) = Cardinality(T)
        /\ \A i, j \in DOMAIN order : order[i] = order[j] => i = j
        /\ \A k \in T : \E i \in DOMAIN order : order[i] = k
    BY OrderIsAll
  <1>2. order \in Seq(Keys)
    BY <1>1, SeqMonotonic
  <1>3. \A i \in DOMAIN order : order[i] \in T
    BY <1>1, ElementsAreIn
  <1>. QED
    BY <1>1, <1>2, <1>3 DEF Once, Queues

-----------------------------------------------------------------------------
(* The inductive invariant *)

(* There is at most one informer, and it runs if the factory was started: one *)
(* caller at a time is inside, and what it has looked up still holds.         *)
FactoryInv ==
  /\ informers \in {0, 1} /\ started \in BOOLEAN
  /\ running = IF started THEN 1 ELSE 0
  /\ started => informers = 1
  /\ handle \in [Callers -> 0..informers]
  /\ inside \in [Callers -> {"out", "creating", "starting"}]
  /\ \A t, u \in Callers : inside[t] # "out" /\ inside[u] # "out" => t = u
  /\ \A t \in Callers : inside[t] = "creating" => informers = 0
  /\ \A t \in Callers : inside[t] = "starting" => informers = 1 /\ ~started
  /\ waits \in [Callers -> {"not", "waiting", "synced", "stopped", "vacuous"}]
  /\ stopped \in BOOLEAN

ReflectorType ==
  /\ phase \in {"off", "listing", "watching"} /\ overlapped \in BOOLEAN
  /\ at \in 0..Revision /\ lists \in Seq(0..Revision)

FifoType ==
  /\ queue \in Seq(Keys) /\ items \in [Keys -> Seq(Deltas)]
  /\ populated \in BOOLEAN /\ initial \in 0..Len(queue)
  /\ cache \in [Keys -> Objects \cup {Absent}]

(* A key is queued once, if it has deltas; the queue and the cache are empty  *)
(* until the first list, and only after it something is watched or synced.    *)
QueueInv ==
  /\ Once(queue) /\ Queues(queue, Busy(items))
  /\ populated <=> lists # <<>>
  /\ ~populated => queue = <<>> /\ \A k \in Keys : cache[k] = Absent
  /\ phase = "watching" => populated
  /\ \A t \in Callers : waits[t] = "synced" => populated /\ initial = 0

(* What the cache has of an object, and what the deltas of its key will leave *)
(* there, is a version of it that was written and is selected.                *)
Coming(k) == Last(items[k]).obj
Written(k, o) ==
  o # Absent => /\ o.rv \in DOMAIN log /\ log[o.rv] = [key |-> k, obj |-> o]
                /\ Selected(k, o.app)
ContentAt(k) == Written(k, cache[k]) /\ (items[k] # <<>> => Written(k, Coming(k)))

(* With one server the reflector has seen all of that, and no delta takes the *)
(* cache back.                                                                *)
Seen(o) == o # Absent => o.rv <= at
NotBefore(new, old) == new # Absent /\ old # Absent => old.rv <= new.rv
OrderAt(k) ==
  OneServer => /\ Seen(cache[k])
               /\ items[k] # <<>> => Seen(Coming(k)) /\ NotBefore(Coming(k), cache[k])

(* An object that was in the first list and is there ever since is in the     *)
(* cache, or among the keys of that list which are still queued, and no delta *)
(* removes it.                                                                *)
Kept(k, n) == \A p \in lists[1]..n : Listed(p, k) # Absent
AtLeast(k, o) == o # Absent /\ o.rv >= Listed(lists[1], k).rv
KeptAt(k) ==
  OneServer /\ ~overlapped /\ populated /\ Kept(k, at) =>
    /\ items[k] # <<>> => AtLeast(k, Coming(k))
    /\ AtLeast(k, cache[k]) \/ \E i \in 1..initial : queue[i] = k

KeysInv ==
  /\ \A k \in Keys : ContentAt(k) /\ OrderAt(k) /\ KeptAt(k)
  /\ OneServer /\ populated => lists[1] <= at

IInv == SourcesInv /\ FactoryInv /\ ReflectorType /\ FifoType /\ QueueInv /\ KeysInv

-----------------------------------------------------------------------------
(* Steps that leave deltas and cache alone *)

(* The server's log only grows.                                               *)
LEMMA LogKeeps ==
    ASSUME SourcesInv, ClientsNext
    PROVE  /\ Revision \in Nat /\ Revision' \in Nat /\ Revision <= Revision'
           /\ \A i \in 1..Revision : log'[i] = log[i]
           /\ DOMAIN log = 1..Revision /\ DOMAIN log' = 1..Revision'
PROOF
  <1>. USE DEF Revision
  <1>1. /\ ClientsTypeOK /\ Revision \in Nat /\ DOMAIN log = 1..Revision
    BY DEF SourcesInv, ClientsTypeOK
  <1>2. PICK c \in Clients : ClientStep(c)
    BY DEF ClientsNext
  <1>3. CASE ReadStep(c)
    BY <1>1, <1>3 DEF ReadStep
  <1>4. CASE WriteStep(c)
    <2>1. PICK k \in Keys, o \in Objects \cup {Absent} : Writes(k, o)
      BY <1>4 DEF WriteStep
    <2>2. /\ DOMAIN log' = 1..(Len(log) + 1)
          /\ log' \in Seq([key : Keys, obj : Objects \cup {Absent}])
          /\ \A i \in DOMAIN log : log'[i] = log[i]
      BY <1>1, <2>1, LogGrows
    <2>3. Len(log') = Len(log) + 1
      BY <1>1, <2>1 DEF Writes, ClientsTypeOK
    <2>. QED
      BY <1>1, <2>2, <2>3
  <1>. QED
    BY <1>2, <1>3, <1>4, StepReadsOrWrites DEF SourcesInv

(* What is written stays written, and what was kept is kept.                  *)
LEMMA ServerStepIsGood == ASSUME IInv, ServerStep PROVE IInv'
PROOF
  <1>. USE DEF informerVars, factoryVars, reflectorVars, fifoVars
  <1>1. ClientsNext /\ UNCHANGED informerVars
    BY DEF ServerStep
  <1>2. SourcesInv'
    BY <1>1, InvNext DEF IInv
  <1>3. /\ Revision \in Nat /\ Revision' \in Nat /\ Revision <= Revision'
        /\ \A i \in 1..Revision : log'[i] = log[i]
        /\ DOMAIN log = 1..Revision /\ DOMAIN log' = 1..Revision'
    BY <1>1, LogKeeps DEF IInv
  <1>4. FactoryInv' /\ FifoType' /\ QueueInv'
    <2>1. FactoryInv'
      BY <1>1 DEF IInv, FactoryInv
    <2>2. FifoType'
      BY <1>1 DEF IInv, FifoType
    <2>3. QueueInv'
      BY <1>1 DEF IInv, QueueInv
    <2>. QED
      BY <2>1, <2>2, <2>3
  <1>5. ReflectorType'
    <2>1. lists \in Seq(0..Revision) /\ 0..Revision \subseteq 0..Revision'
      BY <1>3 DEF IInv, ReflectorType
    <2>2. lists \in Seq(0..Revision')
      BY <2>1, SeqMonotonic
    <2>. QED
      BY <1>1, <1>3, <2>2 DEF IInv, ReflectorType
  <1>6. \A p \in 0..Revision, k \in Keys : Listed(p, k)' = Listed(p, k)
    BY <1>3, ListedStays
  <1>7. populated => lists[1] \in 0..Revision
    <2>1. lists \in Seq(0..Revision) /\ (populated => lists # <<>>)
      BY DEF IInv, QueueInv, ReflectorType
    <2>2. populated => 1 \in DOMAIN lists
      BY <2>1
    <2>. QED
      BY <2>1, <2>2, ElementsAreIn
  <1>8. ASSUME NEW k \in Keys PROVE ContentAt(k)' /\ OrderAt(k)' /\ KeptAt(k)'
    <2>1. ContentAt(k)'
      <3>1. \A o : Written(k, o) => Written(k, o)'
        BY <1>3 DEF Written, Selected
      <3>. QED
        BY <1>1, <3>1 DEF IInv, KeysInv, ContentAt, Coming
    <2>2. OrderAt(k)'
      BY <1>1 DEF IInv, KeysInv, OrderAt, Coming, Seen, NotBefore
    <2>3. KeptAt(k)'
      <3>. SUFFICES ASSUME OneServer, ~overlapped, populated, Kept(k, at)'
                    PROVE  /\ items[k] # <<>> => AtLeast(k, Coming(k))'
                           /\ AtLeast(k, cache[k])' \/ \E i \in 1..initial : queue[i] = k
        BY <1>1 DEF KeptAt, Coming
      <3>1. at \in 0..Revision
        BY DEF IInv, ReflectorType
      <3>2. Kept(k, at)
        BY <1>1, <1>3, <1>6, <1>7, <3>1 DEF Kept
      <3>3. \A o : AtLeast(k, o)' = AtLeast(k, o)
        BY <1>1, <1>6, <1>7 DEF AtLeast
      <3>. QED
        BY <1>1, <3>2, <3>3 DEF IInv, KeysInv, KeptAt, Coming
    <2>. QED
      BY <2>1, <2>2, <2>3
  <1>9. KeysInv'
    BY <1>1, <1>8 DEF IInv, KeysInv
  <1>. QED
    BY <1>2, <1>4, <1>5, <1>9 DEF IInv

(* Lists depend on the log alone.                                             *)
LEMMA ListedSame ==
    ASSUME SourcesInv, log' = log, NEW p \in 0..Revision, NEW k
    PROVE  Listed(p, k)' = Listed(p, k)
PROOF
  <1>1. Revision \in Nat
    BY DEF SourcesInv, ClientsTypeOK, Revision
  <1>. QED
    BY <1>1, ListedStays

(* While log and lists are the same, what is kept and shown is the same.      *)
LEMMA KeptSame ==
    ASSUME IInv, log' = log, lists' = lists, populated, NEW k \in Keys
    PROVE  /\ \A n \in 0..Revision : Kept(k, n)' = Kept(k, n)
           /\ \A o : AtLeast(k, o)' = AtLeast(k, o)
           /\ \A o : Written(k, o)' = Written(k, o)
PROOF
  <1>1. Revision \in Nat /\ lists[1] \in 0..Revision /\ SourcesInv
    BY DEF IInv, QueueInv, ReflectorType, SourcesInv, ClientsTypeOK, Revision
  <1>2. \A p \in 0..Revision : Listed(p, k)' = Listed(p, k)
    BY <1>1, ListedSame
  <1>3. ASSUME NEW n \in 0..Revision PROVE Kept(k, n)' = Kept(k, n)
    BY <1>1, <1>2 DEF Kept
  <1>4. \A o : AtLeast(k, o)' = AtLeast(k, o)
    BY <1>1, <1>2 DEF AtLeast
  <1>5. \A o : Written(k, o)' = Written(k, o)
    BY DEF Written, Selected
  <1>. QED
    BY <1>3, <1>4, <1>5

(* A step of a caller, or of the reflector without news.                      *)
LEMMA QuietIsGood ==
    ASSUME IInv, UNCHANGED <<clientVars, at, lists, overlapped, fifoVars, cache>>,
           FactoryInv', phase' \in {"off", "listing", "watching"},
           phase' = "watching" => phase = "watching",
           \A t \in Callers : waits'[t] = "synced" => waits[t] = "synced" \/ HasSynced
    PROVE  IInv'
PROOF
  <1>. USE DEF clientVars, fifoVars
  <1>1. SourcesInv'
    BY InvNext DEF IInv
  <1>2. log' = log /\ lists' = lists /\ Revision' = Revision
    BY DEF Revision
  <1>3. ReflectorType' /\ FifoType'
    BY <1>2 DEF IInv, ReflectorType, FifoType
  <1>4. QueueInv'
    BY DEF IInv, QueueInv, HasSynced
  <1>5. ASSUME NEW k \in Keys PROVE ContentAt(k)' /\ OrderAt(k)' /\ KeptAt(k)'
    <2>1. at \in 0..Revision
      BY DEF IInv, ReflectorType
    <2>2. ContentAt(k)'
      BY DEF IInv, KeysInv, ContentAt, Coming, Written, Selected
    <2>3. OrderAt(k)'
      BY DEF IInv, KeysInv, OrderAt, Coming, Seen, NotBefore
    <2>4. KeptAt(k)'
      BY <1>2, <2>1, KeptSame DEF IInv, KeysInv, KeptAt, Coming
    <2>. QED
      BY <2>2, <2>3, <2>4
  <1>6. KeysInv'
    BY <1>5 DEF IInv, KeysInv
  <1>. QED
    BY <1>1, <1>3, <1>4, <1>6 DEF IInv

-----------------------------------------------------------------------------
(* Steps of the reflector and of the process loop *)

(* Where the reflector is, and how long the queue.                            *)
LEMMA Basics ==
    ASSUME IInv
    PROVE  /\ SourcesInv /\ Revision \in Nat /\ at \in 0..Revision
           /\ DOMAIN log = 1..Revision
           /\ lists \in Seq(0..Revision) /\ (populated => lists[1] \in 0..Revision)
           /\ Len(queue) \in Nat /\ initial \in 0..Len(queue)
PROOF
  <1>1. SourcesInv /\ Revision \in Nat /\ DOMAIN log = 1..Revision
    BY DEF IInv, SourcesInv, ClientsTypeOK, Revision
  <1>2. /\ at \in 0..Revision /\ lists \in Seq(0..Revision)
        /\ (populated => lists # <<>>)
    BY DEF IInv, ReflectorType, QueueInv
  <1>3. populated => lists[1] \in 0..Revision
    <2>1. populated => 1 \in DOMAIN lists
      BY <1>2
    <2>. QED
      BY <1>2, <2>1, ElementsAreIn
  <1>4. queue \in Seq(Keys) /\ Len(queue) \in Nat /\ initial \in 0..Len(queue)
    BY DEF IInv, FifoType
  <1>. QED
    BY <1>1, <1>2, <1>3, <1>4

(* What the deltas of a key will leave is an object or nothing.               *)
LEMMA ComingIsObject ==
    ASSUME IInv, NEW k \in Keys, items[k] # <<>>
    PROVE  Coming(k) \in Objects \cup {Absent}
PROOF
  <1>1. items[k] \in Seq(Deltas)
    BY DEF IInv, FifoType
  <1>2. Len(items[k]) \in DOMAIN items[k]
    BY <1>1
  <1>3. Last(items[k]) \in Deltas
    BY <1>1, <1>2, ElementsAreIn DEF Last
  <1>. QED
    BY <1>3 DEF Coming, Deltas, Deleted

(* What a key has in the cache is a write of it.                              *)
LEMMA CachedIsWrite ==
    ASSUME IInv, NEW k \in Keys, cache[k] # Absent
    PROVE  cache[k].rv \in 1..Revision /\ log[cache[k].rv].key = k
PROOF
  <1>1. Written(k, cache[k])
    BY DEF IInv, KeysInv, ContentAt
  <1>2. cache[k].rv \in DOMAIN log /\ log[cache[k].rv] = [key |-> k, obj |-> cache[k]]
    BY <1>1 DEF Written
  <1>. QED
    BY <1>2, Basics

(* A key whose deltas and cache stay the same, and that is not dropped from   *)
(* the first list.                                                            *)
LEMMA OthersAreGood ==
    ASSUME IInv, UNCHANGED <<log, lists, overlapped>>, populated, populated',
           at' \in at..Revision, NEW k \in Keys, items'[k] = items[k], cache'[k] = cache[k],
           (\E i \in 1..initial : queue[i] = k) => \E i \in 1..initial' : queue'[i] = k
    PROVE  ContentAt(k)' /\ OrderAt(k)' /\ KeptAt(k)'
PROOF
  <1>1. /\ Revision \in Nat /\ at \in 0..Revision /\ lists[1] \in 0..Revision
        /\ at' \in 0..Revision /\ at <= at'
    BY Basics
  <1>2. /\ \A n \in 0..Revision : Kept(k, n)' = Kept(k, n)
        /\ \A o : AtLeast(k, o)' = AtLeast(k, o)
        /\ \A o : Written(k, o)' = Written(k, o)
    BY KeptSame
  <1>3. Coming(k)' = Coming(k)
    BY DEF Coming
  <1>4. ContentAt(k)'
    BY <1>2, <1>3 DEF IInv, KeysInv, ContentAt
  <1>5. OrderAt(k)'
    <2>1. \A o : o # Absent /\ Written(k, o) => o.rv \in Nat
      BY Basics DEF Written
    <2>2. Written(k, cache[k]) /\ (items[k] # <<>> => Written(k, Coming(k))) /\ OrderAt(k)
      BY DEF IInv, KeysInv, ContentAt
    <2>3. \A o : Written(k, o) /\ Seen(o) => Seen(o)'
      BY <1>1, <2>1 DEF Seen
    <2>. QED
      BY <1>3, <2>2, <2>3 DEF OrderAt, NotBefore
  <1>6. KeptAt(k)'
    <2>. SUFFICES ASSUME OneServer, ~overlapped, (Kept(k, at))'
                  PROVE  /\ items'[k] # <<>> => AtLeast(k, Coming(k))'
                         /\ AtLeast(k, cache[k])' \/ \E i \in 1..initial' : queue'[i] = k
      BY DEF KeptAt
    <2>1. Kept(k, at)
      <3>1. \A p \in lists[1]..at' : Listed(p, k)' # Absent
        BY DEF Kept
      <3>2. \A p \in lists[1]..at : p \in lists[1]..at' /\ p \in 0..Revision
        BY <1>1
      <3>3. \A p \in 0..Revision : Listed(p, k)' = Listed(p, k)
        BY ListedSame DEF IInv
      <3>. QED
        BY <3>1, <3>2, <3>3 DEF Kept
    <2>2. /\ items[k] # <<>> => AtLeast(k, Coming(k))
          /\ AtLeast(k, cache[k]) \/ \E i \in 1..initial : queue[i] = k
      BY <2>1 DEF IInv, KeysInv, KeptAt
    <2>. QED
      BY <1>2, <1>3, <2>2 DEF AtLeast
  <1>. QED
    BY <1>4, <1>5, <1>6

(* A list that the reflector gets.                                            *)
ListAt(p) ==
  /\ phase = "listing" /\ p \in 0..Revision /\ (OneServer => at <= p)
  /\ Replace(p) /\ at' = p /\ lists' = Append(lists, p)
  /\ overlapped' = (overlapped \/ queue # <<>>)
  /\ phase' = "watching"
  /\ UNCHANGED <<clientVars, factoryVars, running, stopped, cache>>

(* It queues what it has and what the cache has, behind what is queued; if    *)
(* it is the first one, that is the initial population.                       *)
LEMMA ListQueues ==
    ASSUME IInv, NEW p, ListAt(p)
    PROVE  /\ queue' \in Seq(Keys) /\ items' \in [Keys -> Seq(Deltas)]
           /\ Once(queue') /\ Queues(queue', Busy(items'))
           /\ Len(queue') \in Nat /\ Len(queue) <= Len(queue')
           /\ \A i \in 1..Len(queue) : queue'[i] = queue[i]
           /\ \A k \in Replaced(p) : items'[k] = Extended(items[k], ReplaceDelta(p, k))
           /\ \A k \in Replaced(p) : ReplaceDelta(p, k) \in Deltas
           /\ \A k \in Keys \ Replaced(p) : items'[k] = items[k]
           /\ populated' = TRUE /\ (populated => initial' = initial)
           /\ ~populated => initial' = Len(queue')
PROOF
  <1>. DEFINE keys == Replaced(p)
              new == {k \in keys : items[k] = <<>>}
  <1>1. /\ items' = [k \in Keys |-> IF k \in keys THEN Extended(items[k], ReplaceDelta(p, k))
                                    ELSE items[k]]
        /\ populated' = TRUE
        /\ initial' = IF populated THEN initial ELSE Cardinality(keys)
    BY DEF ListAt, Replace
  <1>2. PICK order \in SetToSeqs(new) : queue' = queue \o order
    BY DEF ListAt, Replace
  <1>3. keys \in SUBSET Keys /\ new \in SUBSET Keys /\ p \in 0..Revision
    BY DEF Replaced, ListAt
  <1>4. /\ queue \in Seq(Keys) /\ items \in [Keys -> Seq(Deltas)]
        /\ Once(queue) /\ Queues(queue, Busy(items))
    BY DEF IInv, FifoType, QueueInv
  <1>5. ASSUME NEW k \in keys PROVE \E i \in 1..Revision : log[i].key = k
    <2>1. k \in Keys /\ (Listed(p, k) # Absent \/ cache[k] # Absent)
      BY DEF Replaced
    <2>2. CASE cache[k] # Absent
      BY <2>1, <2>2, CachedIsWrite
    <2>3. CASE Listed(p, k) # Absent
      <3>1. /\ Listed(p, k).rv \in 1..p
            /\ log[Listed(p, k).rv] = [key |-> k, obj |-> Listed(p, k)]
        BY <1>3, <2>1, <2>3, Basics, ListedIsLatest
      <3>2. Listed(p, k).rv \in 1..Revision /\ log[Listed(p, k).rv].key = k
        BY <1>3, <3>1, Basics
      <3>. QED
        BY <3>2
    <2>. QED
      BY <2>1, <2>2, <2>3
  <1>6. \A k \in keys : ReplaceDelta(p, k) \in Deltas
    <2>1. \A k \in keys : Listed(p, k) \in Objects \cup {Absent}
      BY <1>3, Basics, ListedIsLatest
    <2>. QED
      BY <2>1 DEF ReplaceDelta, Deltas, Deleted
  <1>7. \A k \in keys : /\ Extended(items[k], ReplaceDelta(p, k)) \in Seq(Deltas)
                       /\ Extended(items[k], ReplaceDelta(p, k)) # <<>>
    BY <1>3, <1>4, <1>6, ExtendedEnds
  <1>8. ~populated => new = keys /\ queue = <<>>
    <2>1. ~populated => queue = <<>>
      BY DEF IInv, QueueInv
    <2>2. ASSUME queue = <<>>, NEW k \in Keys PROVE items[k] = <<>>
      BY <1>4, <2>2 DEF Queues, Busy
    <2>. QED
      BY <1>3, <2>1, <2>2
  <1>9. Busy(items) \cap new = {} /\ Busy(items) \in SUBSET Keys /\ new \subseteq keys
    BY DEF Busy
  <1>10. IsFiniteSet(new)
    BY <1>3, <1>5, <1>9, Basics, WrittenAreFinite
  <1>11. Busy(items') = Busy(items) \cup new
    BY <1>1, <1>3, <1>4, <1>7 DEF Busy
  <1>. HIDE DEF new, keys
  <1>12. /\ order \in Seq(Keys) /\ Len(order) = Cardinality(new)
         /\ Once(order) /\ Queues(order, new)
    BY <1>2, <1>3, <1>10, OrderQueues
  <1>13. /\ (queue \o order) \in Seq(Keys) /\ Len(queue \o order) = Len(queue) + Len(order)
         /\ \A i \in 1..Len(queue) : (queue \o order)[i] = queue[i]
         /\ Once(queue \o order) /\ Queues(queue \o order, Busy(items) \cup new)
    BY <1>3, <1>4, <1>9, <1>12, QueueGrows
  <1>14. Len(queue) \in Nat /\ Len(order) \in Nat
    BY <1>4, <1>12
  <1>15. items' \in [Keys -> Seq(Deltas)]
    BY <1>1, <1>3, <1>4, <1>7
  <1>16. /\ Len(queue') \in Nat /\ Len(queue) <= Len(queue')
         /\ queue = <<>> => Len(queue') = Len(order)
    BY <1>2, <1>13, <1>14
  <1>17. /\ queue' \in Seq(Keys) /\ Once(queue') /\ Queues(queue', Busy(items'))
         /\ \A i \in 1..Len(queue) : queue'[i] = queue[i]
    BY <1>2, <1>11, <1>13
  <1>18. ~populated => initial' = Len(queue')
    BY <1>1, <1>8, <1>12, <1>16
  <1>. QED
    BY <1>1, <1>3, <1>6, <1>15, <1>16, <1>17, <1>18 DEF keys

(* A key of a list: the new delta shows the list, which is at least as late   *)
(* as anything the cache has.                                                 *)
LEMMA ListedKeyIsGood ==
    ASSUME IInv, NEW p, ListAt(p), NEW k \in Keys
    PROVE  ContentAt(k)' /\ OrderAt(k)' /\ KeptAt(k)'
PROOF
  <1>1. /\ p \in 0..Revision /\ Revision \in Nat /\ (OneServer => at <= p) /\ at \in Nat
        /\ log' = log /\ cache' = cache /\ at' = p
        /\ p \in Nat /\ p \in 0..p
    BY Basics DEF ListAt, clientVars
  <1>2. /\ items[k] \in Seq(Deltas) /\ cache[k] \in Objects \cup {Absent}
        /\ Listed(p, k)' = Listed(p, k)
    <2>1. items[k] \in Seq(Deltas) /\ cache[k] \in Objects \cup {Absent} /\ SourcesInv
      BY DEF IInv, FifoType
    <2>2. Listed(p, k)' = Listed(p, k)
      BY <1>1, <2>1, ListedSame
    <2>. QED
      BY <2>1, <2>2
  <1>3. \A o : Written(k, o)' = Written(k, o)
    BY <1>1 DEF Written, Selected
  <1>4. Written(k, cache[k]) /\ (items[k] # <<>> => Written(k, Coming(k))) /\ OrderAt(k)
    BY DEF IInv, KeysInv, ContentAt
  <1>5. cache[k] # Absent => cache[k].rv \in 1..Revision /\ log[cache[k].rv].key = k
    BY CachedIsWrite
  <1>6. OneServer => Seen(cache[k])'
    BY <1>1, <1>4, <1>5 DEF OrderAt, Seen
  <1>7. lists' = Append(lists, p) /\ lists \in Seq(0..Revision)
    BY Basics DEF ListAt
  <1>8. (OneServer \/ ~populated) => lists'[1] \in 0..p
    <2>1. (populated <=> lists # <<>>) /\ (OneServer /\ populated => lists[1] <= at)
      BY DEF IInv, QueueInv, KeysInv
    <2>2. populated => lists'[1] = lists[1] /\ lists[1] \in 0..Revision
      BY <1>7, <2>1, Basics
    <2>3. ~populated => lists'[1] = p
      BY <1>7, <2>1
    <2>. QED
      BY <1>1, <2>1, <2>2, <2>3
  <1>9. OneServer /\ Kept(k, at)' => Listed(p, k) # Absent
    <2>1. OneServer /\ Kept(k, at)' => Listed(p, k)' # Absent
      <3>1. OneServer => p \in lists'[1]..at'
        BY <1>1, <1>8
      <3>. QED
        BY <3>1 DEF Kept
    <2>. QED
      BY <1>2, <2>1
  <1>10. CASE k \notin Replaced(p)
    <2>1. Listed(p, k) = Absent /\ cache[k] = Absent
      BY <1>10 DEF Replaced
    <2>2. items'[k] = items[k] /\ Coming(k)' = Coming(k)
      BY <1>10, ListQueues DEF Coming
    <2>3. ContentAt(k)'
      BY <1>1, <1>3, <1>4, <2>2 DEF ContentAt
    <2>4. OrderAt(k)'
      <3>1. ASSUME OneServer, items[k] # <<>>, Coming(k) # Absent
            PROVE  Coming(k).rv <= at'
        <4>1. Coming(k).rv \in 1..Revision /\ Coming(k).rv <= at
          BY <1>4, <3>1, Basics DEF Written, OrderAt, Seen
        <4>. QED
          BY <1>1, <3>1, <4>1
      <3>. QED
        BY <1>1, <1>6, <2>1, <2>2, <3>1 DEF OrderAt, Seen, NotBefore
    <2>5. KeptAt(k)'
      BY <1>9, <2>1 DEF KeptAt
    <2>. QED
      BY <2>3, <2>4, <2>5
  <1>11. CASE k \in Replaced(p)
    <2>. DEFINE d == ReplaceDelta(p, k)
    <2>1. items'[k] = Extended(items[k], d) /\ d \in Deltas /\ d.obj = Listed(p, k)
      BY <1>11, ListQueues DEF ReplaceDelta
    <2>2. /\ Coming(k)' = Listed(p, k) \/ (Coming(k)' = Absent /\ items[k] # <<>>)
          /\ items'[k] # <<>>
      BY <1>2, <2>1, ExtendedEnds DEF Coming
    <2>3. Listed(p, k) # Absent =>
            /\ Listed(p, k).rv \in 1..p /\ Written(k, Listed(p, k))
            /\ cache[k] # Absent /\ cache[k].rv <= p => cache[k].rv <= Listed(p, k).rv
      <3>. SUFFICES ASSUME Listed(p, k) # Absent
                    PROVE  /\ Listed(p, k).rv \in 1..p /\ Written(k, Listed(p, k))
                           /\ cache[k] # Absent /\ cache[k].rv <= p =>
                                cache[k].rv <= Listed(p, k).rv
        OBVIOUS
      <3>1. /\ Listed(p, k).rv \in 1..p
            /\ log[Listed(p, k).rv] = [key |-> k, obj |-> Listed(p, k)]
            /\ Selected(k, Listed(p, k).app)
            /\ \A j \in 1..p : log[j].key = k => j <= Listed(p, k).rv
        BY <1>1, Basics, ListedIsLatest
      <3>2. Written(k, Listed(p, k))
        BY <1>1, <3>1, Basics DEF Written
      <3>3. cache[k] # Absent /\ cache[k].rv <= p => cache[k].rv \in 1..p
        BY <1>1, <1>5
      <3>. QED
        BY <1>5, <3>1, <3>2, <3>3
    <2>4. ContentAt(k)'
      <3>1. Written(k, Coming(k)')
        BY <2>2, <2>3 DEF Written
      <3>. QED
        BY <1>1, <1>3, <1>4, <3>1 DEF ContentAt
    <2>5. OrderAt(k)'
      <3>1. OneServer /\ cache[k] # Absent => cache[k].rv <= p
        BY <1>1, <1>6 DEF Seen
      <3>2. Seen(Coming(k))'
        BY <1>1, <2>2, <2>3 DEF Seen
      <3>3. OneServer => NotBefore(Coming(k), cache[k])'
        BY <1>1, <2>2, <2>3, <3>1 DEF NotBefore
      <3>. QED
        BY <1>6, <3>2, <3>3 DEF OrderAt
    <2>6. KeptAt(k)'
      <3>. SUFFICES ASSUME OneServer, ~overlapped', Kept(k, at)'
                    PROVE  /\ AtLeast(k, Coming(k))'
                           /\ AtLeast(k, cache[k])' \/ \E i \in 1..initial' : queue'[i] = k
        BY DEF KeptAt
      <3>1. ~overlapped /\ queue = <<>>
        BY DEF ListAt
      <3>2. items[k] = <<>> /\ Len(queue) = 0
        BY <3>1 DEF IInv, QueueInv, Queues, Busy
      <3>3. Listed(p, k) # Absent /\ Coming(k)' = Listed(p, k)
        BY <1>9, <2>2, <3>2
      <3>4. AtLeast(k, Coming(k))'
        <4>1. PICK q \in 0..p : q = lists'[1]
          BY <1>8
        <4>2. Listed(q, k)' # Absent
          <5>1. q \in lists'[1]..at'
            BY <1>1, <4>1
          <5>. QED
            BY <5>1 DEF Kept
        <4>3. q \in 0..Revision /\ SourcesInv
          BY <1>1, Basics
        <4>4. Listed(q, k)' = Listed(q, k)
          BY <1>1, <4>3, ListedSame
        <4>5. Listed(p, k).rv >= Listed(q, k).rv
          BY <1>1, <3>3, <4>2, <4>3, <4>4, LaterIsAtLeast
        <4>6. Listed(lists[1], k)' = Listed(q, k)
          BY <4>1, <4>4
        <4>. QED
          BY <3>3, <4>5, <4>6 DEF AtLeast
      <3>5. CASE ~populated
        <4>1. initial' = Len(queue') /\ queue' \in Seq(Keys) /\ Queues(queue', Busy(items'))
          BY <3>5, ListQueues
        <4>2. \E i \in 1..initial' : queue'[i] = k
          BY <2>2, <4>1 DEF Queues, Busy
        <4>. QED
          BY <3>4, <4>2
      <3>6. CASE populated
        <4>1. initial = 0
          BY <3>2, Basics
        <4>2. lists'[1] = lists[1] /\ lists[1] \in 0..Revision
          BY <1>7, <3>6, Basics DEF IInv, QueueInv
        <4>3. \A q \in 0..Revision : Listed(q, k)' = Listed(q, k)
          BY <1>1, Basics, ListedSame
        <4>4. Kept(k, at)
          <5>1. \A q \in lists'[1]..at' : Listed(q, k)' # Absent
            BY DEF Kept
          <5>2. \A q \in lists[1]..at : q \in lists'[1]..at' /\ q \in 0..Revision
            BY <1>1, <4>2
          <5>. QED
            BY <4>3, <5>1, <5>2 DEF Kept
        <4>5. AtLeast(k, cache[k])
          BY <3>1, <3>6, <4>1, <4>4 DEF IInv, KeysInv, KeptAt
        <4>6. AtLeast(k, cache[k])'
          BY <1>1, <4>2, <4>3, <4>5 DEF AtLeast
        <4>. QED
          BY <3>4, <4>6
      <3>. QED
        BY <3>5, <3>6
    <2>. QED
      BY <2>4, <2>5, <2>6
  <1>. QED
    BY <1>10, <1>11

(* A list keeps the invariant: what it puts into the queue is newer than all  *)
(* there was.                                                                 *)
LEMMA ListIsGood == ASSUME IInv, List PROVE IInv'
PROOF
  <1>1. PICK p : ListAt(p)
    <2>1. PICK p \in (IF OneServer THEN at ELSE 0)..Revision :
            Replace(p) /\ at' = p /\ lists' = Append(lists, p)
      BY DEF List
    <2>2. p \in 0..Revision /\ (OneServer => at <= p)
      BY <2>1, Basics
    <2>. QED
      BY <2>1, <2>2 DEF List, ListAt
  <1>2. /\ UNCHANGED <<clientVars, factoryVars, running, stopped, cache>>
        /\ p \in 0..Revision /\ at' = p /\ lists' = Append(lists, p)
        /\ phase' = "watching" /\ overlapped' = (overlapped \/ queue # <<>>)
        /\ (OneServer => at <= p)
    BY <1>1 DEF ListAt
  <1>3. /\ queue' \in Seq(Keys) /\ items' \in [Keys -> Seq(Deltas)]
        /\ Once(queue') /\ Queues(queue', Busy(items'))
        /\ Len(queue') \in Nat /\ Len(queue) <= Len(queue')
        /\ populated' = TRUE /\ (populated => initial' = initial)
        /\ ~populated => initial' = Len(queue')
    BY <1>1, ListQueues
  <1>4. SourcesInv' /\ Revision' = Revision
    BY <1>2, InvNext DEF IInv, clientVars, Revision
  <1>5. FactoryInv'
    BY <1>2 DEF IInv, FactoryInv, factoryVars
  <1>6. ReflectorType'
    <2>1. lists \in Seq(0..Revision) /\ overlapped \in BOOLEAN
      BY DEF IInv, ReflectorType
    <2>2. lists' \in Seq(0..Revision)
      BY <1>2, <2>1
    <2>3. overlapped' \in BOOLEAN
      BY <1>2, <2>1
    <2>. QED
      BY <1>2, <1>4, <2>2, <2>3 DEF ReflectorType
  <1>7. FifoType'
    <2>1. initial \in 0..Len(queue) /\ cache \in [Keys -> Objects \cup {Absent}]
      BY DEF IInv, FifoType
    <2>2. Len(queue) \in Nat
      BY Basics
    <2>3. initial' \in 0..Len(queue')
      BY <1>3, <2>1, <2>2
    <2>. QED
      BY <1>2, <1>3, <2>1, <2>3 DEF FifoType
  <1>8. QueueInv'
    <2>1. lists' # <<>>
      BY <1>2, Basics
    <2>2. \A t \in Callers : waits'[t] = "synced" => populated' /\ initial' = 0
      BY <1>2, <1>3 DEF IInv, QueueInv, factoryVars
    <2>. QED
      BY <1>3, <2>1, <2>2 DEF QueueInv
  <1>9. KeysInv'
    <2>1. \A k \in Keys : ContentAt(k)' /\ OrderAt(k)' /\ KeptAt(k)'
      BY <1>1, ListedKeyIsGood
    <2>2. OneServer => lists'[1] <= at'
      <3>1. CASE populated
        <4>1. lists # <<>> /\ lists \in Seq(0..Revision) /\ (OneServer => lists[1] <= at)
              /\ lists[1] \in 0..Revision
          BY <3>1, Basics DEF IInv, QueueInv, KeysInv
        <4>2. lists'[1] = lists[1]
          BY <1>2, <4>1
        <4>. QED
          BY <1>2, <4>1, <4>2, Basics
      <3>2. CASE ~populated
        <4>1. lists = <<>>
          BY <3>2 DEF IInv, QueueInv
        <4>2. lists'[1] = p
          BY <1>2, <4>1
        <4>. QED
          BY <1>2, <4>2, Basics
      <3>. QED
        BY <3>1, <3>2
    <2>. QED
      BY <2>1, <2>2 DEF KeysInv
  <1>. QED
    BY <1>4, <1>5, <1>6, <1>7, <1>8, <1>9 DEF IInv

(* A step that leaves the lists alone: what remains to be shown is that the   *)
(* keys are good.                                                             *)
LEMMA FifoStepIsGood ==
    ASSUME IInv, UNCHANGED <<clientVars, factoryVars, running, stopped, phase, lists, overlapped>>,
           populated, populated', at' \in at..Revision,
           queue' \in Seq(Keys), items' \in [Keys -> Seq(Deltas)],
           cache' \in [Keys -> Objects \cup {Absent}], initial' \in 0..Len(queue'),
           initial = 0 => initial' = 0,
           Once(queue'), Queues(queue', Busy(items')),
           \A k \in Keys : ContentAt(k)' /\ OrderAt(k)' /\ KeptAt(k)'
    PROVE  IInv'
PROOF
  <1>1. SourcesInv' /\ Revision' = Revision
    BY InvNext DEF IInv, clientVars, Revision
  <1>2. FactoryInv'
    BY DEF IInv, FactoryInv, factoryVars
  <1>3. at' \in 0..Revision /\ at <= at'
    BY Basics
  <1>4. ReflectorType' /\ FifoType'
    BY <1>1, <1>3 DEF IInv, ReflectorType, FifoType
  <1>5. QueueInv'
    BY DEF IInv, QueueInv, factoryVars
  <1>6. OneServer => lists'[1] <= at'
    <2>1. OneServer => lists[1] <= at
      BY DEF IInv, KeysInv
    <2>. QED
      BY <1>3, <2>1, Basics
  <1>7. KeysInv'
    BY <1>6 DEF KeysInv
  <1>. QED
    BY <1>1, <1>2, <1>4, <1>5, <1>7 DEF IInv

(* A pop writes the last delta of the oldest key into the cache, which with   *)
(* one server is not an older version.                                        *)
LEMMA PopIsGood ==
    ASSUME IInv, Pop
    PROVE  IInv' /\ (OneServer => \A k \in Keys : NotBefore(cache'[k], cache[k]))
PROOF
  <1>. DEFINE h == Head(queue)
  <1>1. /\ queue # <<>> /\ queue' = Tail(queue)
        /\ cache' = [cache EXCEPT ![h] = Coming(h)] /\ items' = [items EXCEPT ![h] = <<>>]
        /\ initial' = (IF initial > 0 THEN initial - 1 ELSE 0)
        /\ UNCHANGED <<clientVars, factoryVars, running, stopped, phase, at, lists,
                      overlapped, populated>>
    BY DEF Pop, Coming, reflectorVars
  <1>2. /\ queue \in Seq(Keys) /\ items \in [Keys -> Seq(Deltas)]
        /\ cache \in [Keys -> Objects \cup {Absent}] /\ initial \in 0..Len(queue)
        /\ Once(queue) /\ Queues(queue, Busy(items)) /\ populated
    BY <1>1 DEF IInv, FifoType, QueueInv
  <1>3. /\ Len(queue) \in Nat \ {0} /\ queue[1] = h /\ h \in Keys /\ Len(queue') = Len(queue) - 1
        /\ DOMAIN queue = 1..Len(queue) /\ DOMAIN queue' = 1..(Len(queue) - 1)
        /\ queue' \in Seq(Keys)
        /\ \A i \in 1..(Len(queue) - 1) : queue'[i] = queue[i + 1]
    BY <1>1, <1>2
  <1>4. items[h] # <<>>
    <2>1. 1 \in DOMAIN queue
      BY <1>3
    <2>. QED
      BY <1>2, <1>3, <2>1 DEF Queues, Busy
  <1>. HIDE DEF h
  <1>5. initial' \in 0..Len(queue') /\ (initial = 0 => initial' = 0)
    BY <1>1, <1>2, <1>3
  <1>6. Once(queue')
    <2>1. ASSUME NEW i \in 1..(Len(queue) - 1), NEW j \in 1..(Len(queue) - 1), queue'[i] = queue'[j]
          PROVE  i = j
      <3>1. queue[i + 1] = queue[j + 1] /\ i + 1 \in 1..Len(queue) /\ j + 1 \in 1..Len(queue)
        BY <1>3, <2>1
      <3>2. i + 1 = j + 1
        BY <1>2, <1>3, <3>1 DEF Once
      <3>. QED
        BY <1>3, <3>2
    <2>. QED
      BY <1>3, <2>1 DEF Once
  <1>7. Queues(queue', Busy(items'))
    <2>1. ASSUME NEW k \in Keys, NEW i \in 1..(Len(queue) - 1), queue'[i] = k
          PROVE  items'[k] # <<>>
      <3>1. i + 1 \in 1..Len(queue) /\ queue[i + 1] = k /\ i + 1 # 1 /\ 1 \in 1..Len(queue)
        BY <1>3, <2>1
      <3>2. k # h
        BY <1>2, <1>3, <3>1 DEF Once
      <3>3. items[k] # <<>>
        BY <1>2, <1>3, <3>1 DEF Queues, Busy
      <3>. QED
        BY <1>1, <1>2, <3>2, <3>3
    <2>2. ASSUME NEW k \in Keys, items'[k] # <<>>
          PROVE  \E i \in 1..(Len(queue) - 1) : queue'[i] = k
      <3>1. k # h /\ items[k] # <<>>
        BY <1>1, <1>2, <1>3, <2>2
      <3>2. PICK i \in 1..Len(queue) : queue[i] = k
        BY <1>2, <1>3, <3>1 DEF Queues, Busy
      <3>3. i - 1 \in 1..(Len(queue) - 1) /\ (i - 1) + 1 = i
        BY <1>3, <3>1, <3>2
      <3>. QED
        BY <1>3, <3>2, <3>3
    <2>. QED
      BY <1>3, <2>1, <2>2 DEF Queues, Busy
  <1>8. Coming(h) \in Objects \cup {Absent} /\ Revision \in Nat /\ at \in 0..Revision
    BY <1>3, <1>4, Basics, ComingIsObject
  <1>9. items' \in [Keys -> Seq(Deltas)] /\ cache' \in [Keys -> Objects \cup {Absent}]
    <2>1. <<>> \in Seq(Deltas)
      OBVIOUS
    <2>. QED
      BY <1>1, <1>2, <1>3, <1>8, <2>1
  <1>10. ASSUME NEW k \in Keys PROVE ContentAt(k)' /\ OrderAt(k)' /\ KeptAt(k)'
    <2>1. CASE k # h
      <3>1. items'[k] = items[k] /\ cache'[k] = cache[k]
        BY <1>1, <1>2, <2>1
      <3>2. ASSUME NEW i \in 1..initial, queue[i] = k
            PROVE  \E j \in 1..initial' : queue'[j] = k
        <4>1. i # 1 /\ i \in 2..initial /\ initial <= Len(queue)
          BY <1>2, <1>3, <2>1, <3>2
        <4>2. i - 1 \in 1..initial' /\ i - 1 \in 1..(Len(queue) - 1) /\ (i - 1) + 1 = i
          BY <1>1, <1>2, <1>3, <4>1
        <4>. QED
          BY <1>3, <3>2, <4>2
      <3>3. at' \in at..Revision /\ UNCHANGED <<log, lists, overlapped>> /\ populated'
        BY <1>1, <1>2, <1>8 DEF clientVars
      <3>. QED
        BY <1>2, <3>1, <3>2, <3>3, OthersAreGood
    <2>2. CASE k = h
      <3>1. items'[k] = <<>> /\ cache'[k] = Coming(k)
        BY <1>1, <1>2, <2>2
      <3>2. /\ log' = log /\ lists' = lists /\ overlapped' = overlapped
            /\ populated' = populated /\ at' = at
        BY <1>1 DEF clientVars
      <3>3. /\ \A n \in 0..Revision : Kept(k, n)' = Kept(k, n)
            /\ \A o : AtLeast(k, o)' = AtLeast(k, o)
            /\ \A o : Written(k, o)' = Written(k, o)
        BY <1>2, <3>2, KeptSame
      <3>4. Written(k, Coming(k)) /\ OrderAt(k) /\ KeptAt(k)
        BY <1>4, <2>2 DEF IInv, KeysInv, ContentAt
      <3>5. ContentAt(k)'
        BY <3>1, <3>3, <3>4 DEF ContentAt
      <3>6. OrderAt(k)'
        BY <1>4, <2>2, <3>1, <3>2, <3>4 DEF OrderAt, Seen
      <3>7. KeptAt(k)'
        BY <1>2, <1>4, <1>8, <2>2, <3>1, <3>2, <3>3, <3>4 DEF KeptAt
      <3>. QED
        BY <3>5, <3>6, <3>7
    <2>. QED
      BY <2>1, <2>2
  <1>11. IInv'
    <2>1. at' \in at..Revision /\ populated'
      BY <1>1, <1>2, <1>8
    <2>. QED
      BY <1>1, <1>2, <1>3, <1>5, <1>6, <1>7, <1>9, <1>10, <2>1, FifoStepIsGood
  <1>12. ASSUME OneServer, NEW k \in Keys PROVE NotBefore(cache'[k], cache[k])
    <2>1. CASE k # h
      <3>1. cache'[k] = cache[k]
        BY <1>1, <1>2, <2>1
      <3>. QED
        BY <3>1, CachedIsWrite, Basics DEF NotBefore
    <2>2. CASE k = h
      <3>1. cache'[k] = Coming(k) /\ OrderAt(k)
        BY <1>1, <1>2, <2>2 DEF IInv, KeysInv
      <3>. QED
        BY <1>4, <1>12, <2>2, <3>1 DEF OrderAt
    <2>. QED
      BY <2>1, <2>2
  <1>. QED
    BY <1>11, <1>12

(* An event adds the write to the deltas of its object, if it is shown.       *)
LEMMA WatchEventIsGood == ASSUME IInv, WatchEvent PROVE IInv'
PROOF
  <1>. DEFINE p == at + 1
              k == log[p].key
  <1>1. /\ at < Revision /\ at' = p /\ populated
        /\ UNCHANGED <<clientVars, factoryVars, running, stopped, phase, lists, overlapped, cache>>
    BY DEF WatchEvent, IInv, QueueInv
  <1>2. /\ Revision \in Nat /\ at \in 0..Revision /\ p \in 1..Revision /\ p \in 0..Revision
        /\ at' \in at..Revision /\ lists[1] \in 0..Revision
    BY <1>1, Basics
  <1>3. /\ k \in Keys
        /\ Listed(p, k) # Absent => Listed(p, k).rv = p
        /\ Watched(p) = {} => Listed(p, k) = Absent
        /\ \A d \in Watched(p) : d = [type |-> "watch", obj |-> Listed(p, k)]
        /\ \A d \in Watched(p) : d \in Deltas
    BY <1>2, Basics, WatchedIsListed
  <1>. HIDE DEF k
  <1>4. UNCHANGED <<log, lists, overlapped, cache>>
    BY <1>1 DEF clientVars
  <1>5. /\ queue \in Seq(Keys) /\ items \in [Keys -> Seq(Deltas)]
        /\ cache \in [Keys -> Objects \cup {Absent}] /\ initial \in 0..Len(queue)
        /\ Once(queue) /\ Queues(queue, Busy(items)) /\ populated
    BY <1>1 DEF IInv, FifoType, QueueInv
  <1>6. CASE UNCHANGED fifoVars
    <2>1. UNCHANGED <<queue, items, populated, initial>>
      BY <1>6 DEF fifoVars
    <2>2. \A j \in Keys : ContentAt(j)' /\ OrderAt(j)' /\ KeptAt(j)'
      BY <1>2, <1>4, <1>5, <2>1, OthersAreGood
    <2>3. cache' \in [Keys -> Objects \cup {Absent}]
      BY <1>4, <1>5
    <2>. QED
      BY <1>1, <1>2, <1>5, <2>1, <2>2, <2>3, FifoStepIsGood
  <1>7. CASE ~ UNCHANGED fifoVars
    <2>. DEFINE d == [type |-> "watch", obj |-> Listed(p, k)]
    <2>1. d \in Watched(p) /\ d \in Deltas /\ Enqueue(k, d)
      <3>1. PICK e \in Watched(p) : Enqueue(k, e)
        BY <1>7 DEF WatchEvent, k
      <3>. QED
        BY <1>3, <3>1
    <2>2. /\ populated' = TRUE /\ initial' = initial
          /\ items' = [items EXCEPT ![k] = Extended(items[k], d)]
          /\ queue' = IF items[k] = <<>> THEN Append(queue, k) ELSE queue
      BY <1>5, <1>7, <2>1 DEF Enqueue, fifoVars
    <2>3. /\ Extended(items[k], d) \in Seq(Deltas) /\ Extended(items[k], d) # <<>>
          /\ Last(Extended(items[k], d)).obj = Listed(p, k)
      <3>1. items[k] \in Seq(Deltas) /\ d.obj = Listed(p, k) /\ d.type # "sync"
        BY <1>3, <1>5
      <3>2. d \in Deltas
        BY <2>1
      <3>. HIDE DEF d
      <3>. QED
        BY <3>1, <3>2, ExtendedEnds
    <2>. HIDE DEF d
    <2>4. items' \in [Keys -> Seq(Deltas)] /\ Busy(items') = Busy(items) \cup {k}
      BY <1>3, <1>5, <2>2, <2>3 DEF Busy
    <2>5. /\ queue' \in Seq(Keys) /\ Len(queue) <= Len(queue') /\ Len(queue') \in Nat
          /\ \A i \in 1..Len(queue) : queue'[i] = queue[i]
          /\ Once(queue') /\ Queues(queue', Busy(items'))
      <3>1. CASE items[k] # <<>>
        <4>1. Busy(items') = Busy(items) /\ queue' = queue
          BY <1>3, <2>2, <2>4, <3>1 DEF Busy
        <4>. QED
          BY <1>5, <4>1
      <3>2. CASE items[k] = <<>>
        <4>1. <<k>> \in Seq(Keys) /\ Once(<<k>>) /\ Queues(<<k>>, {k}) /\ Len(<<k>>) = 1
          BY <1>3 DEF Once, Queues
        <4>2. Busy(items) \in SUBSET Keys /\ Busy(items) \cap {k} = {} /\ {k} \in SUBSET Keys
          BY <1>3, <3>2 DEF Busy
        <4>3. queue' = queue \o <<k>>
          BY <1>3, <1>5, <2>2, <3>2
        <4>4. /\ (queue \o <<k>>) \in Seq(Keys) /\ Len(queue \o <<k>>) = Len(queue) + Len(<<k>>)
              /\ \A i \in 1..Len(queue) : (queue \o <<k>>)[i] = queue[i]
              /\ Once(queue \o <<k>>) /\ Queues(queue \o <<k>>, Busy(items) \cup {k})
          BY <1>5, <4>1, <4>2, QueueGrows
        <4>5. Len(queue) \in Nat /\ Len(queue') = Len(queue) + 1
          BY <1>5, <4>1, <4>3, <4>4
        <4>. QED
          BY <2>4, <4>3, <4>4, <4>5
      <3>. QED
        BY <3>1, <3>2
    <2>6. \A j \in Keys : (\E i \in 1..initial : queue[i] = j) =>
                            \E i \in 1..initial' : queue'[i] = j
      BY <1>5, <2>2, <2>5
    <2>7. ASSUME NEW j \in Keys PROVE ContentAt(j)' /\ OrderAt(j)' /\ KeptAt(j)'
      <3>1. CASE j # k
        <4>1. items'[j] = items[j] /\ cache'[j] = cache[j]
          BY <1>4, <1>5, <2>2, <3>1
        <4>. QED
          BY <1>2, <1>4, <1>5, <2>2, <2>6, <4>1, OthersAreGood
      <3>2. CASE j = k
        <4>1. /\ items'[j] # <<>> /\ cache'[j] = cache[j]
              /\ Coming(j)' = Listed(p, j)
          BY <1>3, <1>4, <1>5, <2>2, <2>3, <3>2 DEF Coming
        <4>2. Listed(p, j) # Absent =>
                /\ Listed(p, j).rv = p /\ Written(j, Listed(p, j))
          <5>1. Listed(p, j) # Absent =>
                  /\ log[Listed(p, j).rv] = [key |-> j, obj |-> Listed(p, j)]
                  /\ Selected(j, Listed(p, j).app)
            BY <1>2, Basics, ListedIsLatest
          <5>2. p \in DOMAIN log
            BY <1>2, Basics
          <5>. QED
            BY <1>3, <3>2, <5>1, <5>2 DEF Written
        <4>3. /\ \A n \in 0..Revision : Kept(j, n)' = Kept(j, n)
              /\ \A o : AtLeast(j, o)' = AtLeast(j, o)
              /\ \A o : Written(j, o)' = Written(j, o)
          BY <1>4, <1>5, KeptSame
        <4>4. Written(j, cache[j]) /\ OrderAt(j) /\ KeptAt(j)
          BY DEF IInv, KeysInv, ContentAt
        <4>5. ContentAt(j)'
          <5>1. Written(j, Listed(p, j))
            BY <4>2 DEF Written
          <5>. QED
            BY <4>1, <4>3, <4>4, <5>1 DEF ContentAt
        <4>6. OrderAt(j)'
          <5>1. OneServer /\ cache[j] # Absent => cache[j].rv \in 1..Revision /\ cache[j].rv <= at
            BY <4>4, CachedIsWrite DEF OrderAt, Seen
          <5>2. OneServer => Seen(cache[j])'
            BY <1>1, <1>2, <4>1, <5>1 DEF Seen
          <5>3. Seen(Coming(j))'
            BY <1>1, <1>2, <4>1, <4>2 DEF Seen
          <5>4. OneServer => NotBefore(Coming(j), cache[j])'
            BY <1>2, <4>1, <4>2, <5>1 DEF NotBefore
          <5>. QED
            BY <5>2, <5>3, <5>4 DEF OrderAt
        <4>7. KeptAt(j)'
          <5>. SUFFICES ASSUME OneServer, ~overlapped, Kept(j, at)'
                        PROVE  /\ AtLeast(j, Coming(j))'
                               /\ AtLeast(j, cache[j])' \/ \E i \in 1..initial' : queue'[i] = j
            BY <1>4 DEF KeptAt
          <5>1. lists[1] <= at
            BY <1>5 DEF IInv, KeysInv
          <5>2. Kept(j, p) /\ Kept(j, at)
            <6>1. \A q \in lists[1]..p : Listed(q, j)' # Absent
              BY <1>1, <1>4 DEF Kept
            <6>2. \A q \in lists[1]..p : q \in 0..Revision
              BY <1>2
            <6>3. \A q \in lists[1]..at : q \in lists[1]..p
              BY <1>2
            <6>4. \A q \in 0..Revision : Listed(q, j)' = Listed(q, j)
              BY <1>4, Basics, ListedSame
            <6>. QED
              BY <6>1, <6>2, <6>3, <6>4 DEF Kept
          <5>3. Listed(p, j) # Absent /\ Listed(lists[1], j) # Absent
            <6>1. p \in lists[1]..p /\ lists[1] \in lists[1]..p
              BY <1>2, <5>1
            <6>. QED
              BY <5>2, <6>1 DEF Kept
          <5>4. AtLeast(j, Listed(p, j))
            <6>1. lists[1] \in 0..p
              BY <1>2, <5>1
            <6>2. Listed(p, j).rv >= Listed(lists[1], j).rv
              BY <1>2, <5>3, <6>1, Basics, LaterIsAtLeast
            <6>. QED
              BY <5>3, <6>2 DEF AtLeast
          <5>5. AtLeast(j, cache[j]) \/ \E i \in 1..initial : queue[i] = j
            BY <1>5, <4>4, <5>2 DEF KeptAt
          <5>6. AtLeast(j, cache[j]) => AtLeast(j, cache[j])'
            BY <1>4, <4>3 DEF AtLeast
          <5>7. AtLeast(j, Coming(j))'
            BY <4>1, <4>3, <5>4 DEF AtLeast
          <5>. QED
            BY <2>6, <5>5, <5>6, <5>7
        <4>. QED
          BY <4>5, <4>6, <4>7
      <3>. QED
        BY <3>1, <3>2
    <2>8. cache' \in [Keys -> Objects \cup {Absent}] /\ initial' \in 0..Len(queue')
          /\ (initial = 0 => initial' = 0)
      <3>1. cache' = cache /\ initial' = initial
        BY <1>4, <1>5, <2>2
      <3>2. initial \in 0..Len(queue) /\ Len(queue) \in Nat
        BY Basics
      <3>3. initial' \in 0..Len(queue')
        BY <2>5, <3>1, <3>2
      <3>4. cache \in [Keys -> Objects \cup {Absent}]
        BY <1>5
      <3>. QED
        BY <3>1, <3>3, <3>4
    <2>. QED
      BY <1>1, <1>2, <1>5, <2>2, <2>4, <2>5, <2>7, <2>8, FifoStepIsGood
  <1>. QED
    BY <1>6, <1>7

(* A resync queues what is cached and has no deltas, as it is cached.         *)
LEMMA ResyncIsGood == ASSUME IInv, Resync PROVE IInv'
PROOF
  <1>. DEFINE idle == {k \in Keys : cache[k] # Absent /\ items[k] = <<>>}
  <1>1. /\ phase = "watching"
        /\ items' = [k \in Keys |-> IF k \in idle
                                    THEN <<[type |-> "sync", obj |-> cache[k]]>> ELSE items[k]]
        /\ UNCHANGED <<clientVars, factoryVars, running, stopped, phase, at, lists, overlapped,
                      populated, initial, cache>>
    BY DEF Resync, reflectorVars
  <1>2. PICK order \in SetToSeqs(idle) : queue' = queue \o order
    BY DEF Resync
  <1>3. /\ queue \in Seq(Keys) /\ items \in [Keys -> Seq(Deltas)]
        /\ cache \in [Keys -> Objects \cup {Absent}] /\ initial \in 0..Len(queue)
        /\ Once(queue) /\ Queues(queue, Busy(items)) /\ populated
    BY <1>1 DEF IInv, FifoType, QueueInv
  <1>4. \A k \in idle : cache[k] # Absent /\ items[k] = <<>> /\ k \in Keys
    OBVIOUS
  <1>5. ASSUME NEW k \in Keys, k \in idle
        PROVE  /\ items'[k] \in Seq(Deltas) /\ items'[k] # <<>> /\ Coming(k)' = cache[k]
    <2>. DEFINE d == [type |-> "sync", obj |-> cache[k]]
    <2>1. d \in Deltas /\ d.obj = cache[k]
      BY <1>3 DEF Deltas, Deleted
    <2>2. items'[k] = <<d>>
      BY <1>1, <1>5
    <2>. HIDE DEF d
    <2>. QED
      BY <2>1, <2>2 DEF Coming, Last
  <1>6. \A k \in Keys \ idle : items'[k] = items[k]
    BY <1>1
  <1>7. items' \in [Keys -> Seq(Deltas)]
    <2>1. \A k \in Keys : items'[k] \in Seq(Deltas)
      BY <1>3, <1>5, <1>6
    <2>2. \E f : items' = [k \in Keys |-> f[k]]
      BY <1>1
    <2>. QED
      BY <2>1, <2>2
  <1>8. idle \in SUBSET Keys /\ Busy(items) \in SUBSET Keys /\ Busy(items) \cap idle = {}
    BY DEF Busy
  <1>. HIDE DEF idle
  <1>9. Busy(items') = Busy(items) \cup idle
    BY <1>5, <1>6, <1>8 DEF Busy
  <1>10. \A k \in idle : \E i \in 1..Revision : log[i].key = k
    BY <1>4, CachedIsWrite
  <1>11. IsFiniteSet(idle)
    BY <1>8, <1>10, Basics, WrittenAreFinite
  <1>12. order \in Seq(Keys) /\ Once(order) /\ Queues(order, idle)
    BY <1>2, <1>8, <1>11, OrderQueues
  <1>13. /\ queue' \in Seq(Keys) /\ Len(queue') = Len(queue) + Len(order)
         /\ \A i \in 1..Len(queue) : queue'[i] = queue[i]
         /\ Once(queue') /\ Queues(queue', Busy(items'))
    <2>1. /\ (queue \o order) \in Seq(Keys) /\ Len(queue \o order) = Len(queue) + Len(order)
          /\ \A i \in 1..Len(queue) : (queue \o order)[i] = queue[i]
          /\ Once(queue \o order) /\ Queues(queue \o order, Busy(items) \cup idle)
      BY <1>3, <1>8, <1>12, QueueGrows
    <2>. QED
      BY <1>2, <1>9, <2>1
  <1>14. /\ initial' = initial /\ initial' \in 0..Len(queue')
         /\ \A i \in 1..initial : queue'[i] = queue[i]
    <2>1. Len(queue) \in Nat /\ Len(order) \in Nat
      BY <1>3, <1>12
    <2>. QED
      BY <1>1, <1>3, <1>13, <2>1
  <1>15. /\ UNCHANGED <<log, lists, overlapped>> /\ populated' /\ at' = at /\ cache' = cache
         /\ at' \in at..Revision /\ Revision \in Nat
    <2>1. at \in 0..Revision /\ Revision \in Nat
      BY Basics
    <2>. QED
      BY <1>1, <1>3, <2>1 DEF clientVars
  <1>16. ASSUME NEW k \in Keys PROVE ContentAt(k)' /\ OrderAt(k)' /\ KeptAt(k)'
    <2>1. CASE k \notin idle
      <3>1. items'[k] = items[k] /\ cache'[k] = cache[k]
        BY <1>6, <1>15, <2>1
      <3>2. (\E i \in 1..initial : queue[i] = k) => \E i \in 1..initial' : queue'[i] = k
        BY <1>14
      <3>. QED
        BY <1>3, <1>15, <3>1, <3>2, OthersAreGood
    <2>2. CASE k \in idle
      <3>1. /\ items'[k] # <<>> /\ Coming(k)' = cache[k] /\ cache'[k] = cache[k]
            /\ cache[k] # Absent /\ items[k] = <<>>
        BY <1>4, <1>5, <1>15, <2>2
      <3>2. /\ \A n \in 0..Revision : Kept(k, n)' = Kept(k, n)
            /\ \A o : AtLeast(k, o)' = AtLeast(k, o)
            /\ \A o : Written(k, o)' = Written(k, o)
        BY <1>3, <1>15, KeptSame
      <3>3. Written(k, cache[k]) /\ OrderAt(k) /\ KeptAt(k)
        BY DEF IInv, KeysInv, ContentAt
      <3>4. ContentAt(k)'
        BY <3>1, <3>2, <3>3 DEF ContentAt
      <3>5. OrderAt(k)'
        <4>1. cache[k].rv \in 1..Revision
          BY <3>1, CachedIsWrite
        <4>2. OneServer => Seen(cache[k])'
          BY <1>15, <3>1, <3>3 DEF OrderAt, Seen
        <4>3. NotBefore(Coming(k), cache[k])'
          BY <1>15, <3>1, <4>1 DEF NotBefore
        <4>. QED
          BY <3>1, <4>2, <4>3 DEF OrderAt, Seen
      <3>6. KeptAt(k)'
        <4>1. ~ \E i \in 1..initial : queue[i] = k
          <5>1. \A i \in 1..initial : i \in DOMAIN queue
            BY <1>3
          <5>. QED
            BY <1>3, <3>1, <5>1 DEF Queues, Busy
        <4>2. at \in 0..Revision
          BY Basics
        <4>3. OneServer /\ ~overlapped /\ Kept(k, at) => AtLeast(k, cache[k])
          BY <1>3, <3>3, <4>1 DEF KeptAt
        <4>. QED
          BY <1>15, <3>1, <3>2, <4>2, <4>3 DEF KeptAt, AtLeast
      <3>. QED
        BY <3>4, <3>5, <3>6
    <2>. QED
      BY <2>1, <2>2
  <1>17. cache' \in [Keys -> Objects \cup {Absent}] /\ (initial = 0 => initial' = 0)
    BY <1>3, <1>14, <1>15
  <1>. QED
    BY <1>1, <1>3, <1>7, <1>13, <1>14, <1>15, <1>16, <1>17, FifoStepIsGood

-----------------------------------------------------------------------------
(* The factory and its callers *)

(* An informer that is there is handed out; else the caller is inside alone.  *)
LEMMA InformerForIsGood == ASSUME IInv, NEW t \in Callers, InformerFor(t) PROVE IInv'
PROOF
  <1>1. /\ inside[t] = "out" /\ \A u \in Callers : inside[u] = "out"
        /\ UNCHANGED <<clientVars, informers, started, running, waits, stopped, phase, at, lists,
                      overlapped, fifoVars, cache>>
    BY DEF InformerFor, LockIsFree, reflectorVars
  <1>2. /\ informers \in {0, 1} /\ handle \in [Callers -> 0..informers]
        /\ inside \in [Callers -> {"out", "creating", "starting"}]
    BY DEF IInv, FactoryInv
  <1>3. CASE informers > 0 /\ handle' = [handle EXCEPT ![t] = informers] /\ inside' = inside
    <2>1. handle' \in [Callers -> 0..informers]
      BY <1>2, <1>3
    <2>2. FactoryInv'
      BY <1>1, <1>3, <2>1 DEF IInv, FactoryInv
    <2>. QED
      BY <1>1, <2>2, QuietIsGood DEF IInv, ReflectorType
  <1>4. CASE informers = 0 /\ inside' = [inside EXCEPT ![t] = "creating"] /\ handle' = handle
    <2>1. /\ inside' \in [Callers -> {"out", "creating", "starting"}]
          /\ \A u \in Callers : inside'[u] = IF u = t THEN "creating" ELSE "out"
      BY <1>1, <1>2, <1>4
    <2>2. FactoryInv'
      BY <1>1, <1>4, <2>1 DEF IInv, FactoryInv
    <2>. QED
      BY <1>1, <2>2, QuietIsGood DEF IInv, ReflectorType
  <1>. QED
    BY <1>3, <1>4 DEF InformerFor

(* Who is inside to create is alone, and there is no informer yet.            *)
LEMMA CreateIsGood == ASSUME IInv, NEW t \in Callers, CreateInformer(t) PROVE IInv'
PROOF
  <1>1. /\ inside[t] = "creating" /\ inside' = [inside EXCEPT ![t] = "out"]
        /\ informers' = informers + 1 /\ handle' = [handle EXCEPT ![t] = informers']
        /\ UNCHANGED <<clientVars, started, running, waits, stopped, phase, at, lists,
                      overlapped, fifoVars, cache>>
    BY DEF CreateInformer, reflectorVars
  <1>2. /\ informers = 0 /\ handle \in [Callers -> 0..informers] /\ ~started
        /\ inside \in [Callers -> {"out", "creating", "starting"}]
        /\ \A u \in Callers : inside[u] # "out" => u = t
    BY <1>1 DEF IInv, FactoryInv
  <1>3. /\ inside' \in [Callers -> {"out", "creating", "starting"}]
        /\ \A u \in Callers : inside'[u] = "out"
    BY <1>1, <1>2
  <1>4. informers' = 1 /\ handle' \in [Callers -> 0..1]
    BY <1>1, <1>2
  <1>5. FactoryInv'
    BY <1>1, <1>3, <1>4 DEF IInv, FactoryInv
  <1>. QED
    BY <1>1, <1>5, QuietIsGood DEF IInv, ReflectorType

(* Who is inside to start is alone ...                                        *)
LEMMA StartIsGood == ASSUME IInv, NEW t \in Callers, Start(t) PROVE IInv'
PROOF
  <1>1. /\ informers > 0 /\ ~started /\ \A u \in Callers : inside[u] = "out"
        /\ inside' = [inside EXCEPT ![t] = "starting"]
        /\ UNCHANGED <<clientVars, informers, started, handle, running, waits, stopped, phase,
                      at, lists, overlapped, fifoVars, cache>>
    BY DEF Start, LockIsFree, reflectorVars
  <1>2. /\ informers = 1 /\ inside \in [Callers -> {"out", "creating", "starting"}]
    BY <1>1 DEF IInv, FactoryInv
  <1>3. /\ inside' \in [Callers -> {"out", "creating", "starting"}]
        /\ \A u \in Callers : inside'[u] = IF u = t THEN "starting" ELSE "out"
    BY <1>1, <1>2
  <1>4. FactoryInv'
    BY <1>1, <1>2, <1>3 DEF IInv, FactoryInv
  <1>. QED
    BY <1>1, <1>4, QuietIsGood DEF IInv, ReflectorType

(* ... and runs the informer that nobody has started.                         *)
LEMMA RunIsGood == ASSUME IInv, NEW t \in Callers, RunInformer(t) PROVE IInv'
PROOF
  <1>1. /\ inside[t] = "starting" /\ inside' = [inside EXCEPT ![t] = "out"]
        /\ started' = TRUE /\ running' = running + 1 /\ phase' = "listing"
        /\ UNCHANGED <<clientVars, informers, handle, waits, stopped, at, lists, overlapped,
                      fifoVars, cache>>
    BY DEF RunInformer
  <1>2. /\ informers = 1 /\ ~started /\ running = 0
        /\ inside \in [Callers -> {"out", "creating", "starting"}]
        /\ \A u \in Callers : inside[u] # "out" => u = t
    BY <1>1 DEF IInv, FactoryInv
  <1>3. /\ inside' \in [Callers -> {"out", "creating", "starting"}]
        /\ \A u \in Callers : inside'[u] = "out"
    BY <1>1, <1>2
  <1>4. FactoryInv'
    BY <1>1, <1>2, <1>3 DEF IInv, FactoryInv
  <1>. QED
    BY <1>1, <1>4, QuietIsGood

(* Who waits learns that the cache is synced when it is.                      *)
LEMMA WaitIsGood ==
    ASSUME IInv, NEW t \in Callers, WaitForCacheSync(t) \/ PollSynced(t)
    PROVE  IInv'
PROOF
  <1>1. /\ waits' = [waits EXCEPT ![t] = waits'[t]]
        /\ waits'[t] \in {"waiting", "synced", "stopped", "vacuous"}
        /\ waits'[t] = "synced" => HasSynced
        /\ UNCHANGED <<clientVars, informers, started, handle, inside, running, stopped, phase,
                      at, lists, overlapped, fifoVars, cache>>
    BY DEF WaitForCacheSync, PollSynced, reflectorVars, IInv, FactoryInv
  <1>2. waits \in [Callers -> {"not", "waiting", "synced", "stopped", "vacuous"}]
    BY DEF IInv, FactoryInv
  <1>3. FactoryInv'
    BY <1>1, <1>2 DEF IInv, FactoryInv
  <1>4. \A u \in Callers : waits'[u] = "synced" => waits[u] = "synced" \/ HasSynced
    BY <1>1, <1>2
  <1>5. phase' \in {"off", "listing", "watching"} /\ (phase' = "watching" => phase = "watching")
    BY <1>1 DEF IInv, ReflectorType
  <1>. QED
    BY <1>1, <1>3, <1>4, <1>5, QuietIsGood

(* A watch that fails, and the closing of stopCh.                             *)
LEMMA EndIsGood == ASSUME IInv, WatchFails \/ Stop PROVE IInv'
PROOF
  <1>1. /\ phase' \in {phase, "listing"} /\ stopped' \in BOOLEAN
        /\ UNCHANGED <<clientVars, informers, started, handle, inside, waits, running, at, lists,
                      overlapped, fifoVars, cache>>
    BY DEF WatchFails, Stop, factoryVars, reflectorVars, IInv, FactoryInv
  <1>2. FactoryInv'
    BY <1>1 DEF IInv, FactoryInv
  <1>3. phase' \in {"off", "listing", "watching"} /\ (phase' = "watching" => phase = "watching")
    BY <1>1 DEF IInv, ReflectorType
  <1>. QED
    BY <1>1, <1>2, <1>3, QuietIsGood

-----------------------------------------------------------------------------
(* The invariant holds *)

(* The invariant holds at the start ...                                       *)
LEMMA InitIsGood == Init => IInv
PROOF
  <1>. SUFFICES ASSUME Init PROVE IInv
    OBVIOUS
  <1>1. SourcesInv /\ Revision \in Nat
    BY InvInit DEF Init, SourcesInv, ClientsTypeOK, Revision
  <1>2. FactoryInv
    <2>1. /\ informers = 0 /\ started = FALSE /\ running = 0 /\ stopped = FALSE
          /\ handle = [t \in Callers |-> 0] /\ waits = [t \in Callers |-> "not"]
          /\ inside = [t \in Callers |-> "out"]
      BY DEF Init
    <2>6. inside \in [Callers -> {"out", "creating", "starting"}] /\ \A t \in Callers : inside[t] = "out"
      BY <2>1
    <2>2. handle \in [Callers -> 0..informers]
      BY <2>1
    <2>3. waits \in [Callers -> {"not", "waiting", "synced", "stopped", "vacuous"}]
      BY <2>1
    <2>4. informers \in {0, 1} /\ running = IF started THEN 1 ELSE 0
      BY <2>1
    <2>5. started \in BOOLEAN /\ stopped \in BOOLEAN /\ (started => informers = 1)
      BY <2>1
    <2>. QED
      BY <2>2, <2>3, <2>4, <2>5, <2>6 DEF FactoryInv
  <1>3. ReflectorType
    <2>1. phase = "off" /\ at = 0 /\ lists = <<>> /\ overlapped = FALSE
      BY DEF Init
    <2>2. lists \in Seq(0..Revision)
      BY <2>1
    <2>3. at \in 0..Revision
      BY <1>1, <2>1
    <2>4. overlapped \in BOOLEAN
      BY <2>1
    <2>. QED
      BY <2>1, <2>2, <2>3, <2>4 DEF ReflectorType
  <1>4. FifoType
    <2>1. /\ queue = <<>> /\ items = [k \in Keys |-> <<>>] /\ populated = FALSE /\ initial = 0
          /\ cache = [k \in Keys |-> Absent]
      BY DEF Init
    <2>2. queue \in Seq(Keys) /\ Len(queue) = 0 /\ items \in [Keys -> Seq(Deltas)]
      BY <2>1
    <2>3. cache \in [Keys -> Objects \cup {Absent}]
      BY <2>1
    <2>4. initial \in 0..Len(queue)
      BY <2>1, <2>2
    <2>5. populated \in BOOLEAN
      BY <2>1
    <2>. QED
      BY <2>2, <2>3, <2>4, <2>5 DEF FifoType
  <1>5. QueueInv
    BY DEF Init, QueueInv, Once, Queues, Busy
  <1>6. KeysInv
    BY DEF Init, KeysInv, ContentAt, OrderAt, KeptAt, Written, Seen
  <1>. QED
    BY <1>1, <1>2, <1>3, <1>4, <1>5, <1>6 DEF IInv

(* ... is kept by every step ...                                              *)
LEMMA StepIsGood == IInv /\ [Next]_vars => IInv'
PROOF
  <1>1. ASSUME IInv, Next PROVE IInv'
    <2>1. CASE ServerStep
      BY <1>1, <2>1, ServerStepIsGood
    <2>2. CASE List
      BY <1>1, <2>2, ListIsGood
    <2>3. CASE WatchEvent
      BY <1>1, <2>3, WatchEventIsGood
    <2>4. CASE WatchFails \/ Stop
      BY <1>1, <2>4, EndIsGood
    <2>5. CASE Pop
      BY <1>1, <2>5, PopIsGood
    <2>6. CASE Resync
      BY <1>1, <2>6, ResyncIsGood
    <2>7. ASSUME NEW t \in Callers, CallerStep(t) PROVE IInv'
      BY <1>1, <2>7, InformerForIsGood, CreateIsGood, StartIsGood, RunIsGood, WaitIsGood DEF CallerStep
    <2>. QED
      BY <1>1, <2>1, <2>2, <2>3, <2>4, <2>5, <2>6, <2>7 DEF Next, ReflectorStep
  <1>2. ASSUME IInv, UNCHANGED vars PROVE IInv'
    <2>1. UNCHANGED <<clientVars, informers, started, handle, inside, waits, running, stopped, phase,
                      at, lists, overlapped, fifoVars, cache>>
      BY <1>2 DEF vars, informerVars, factoryVars, reflectorVars
    <2>2. FactoryInv'
      BY <1>2, <2>1 DEF IInv, FactoryInv
    <2>3. phase' \in {"off", "listing", "watching"}
      BY <1>2, <2>1 DEF IInv, ReflectorType
    <2>. QED
      BY <1>2, <2>1, <2>2, <2>3, QuietIsGood
  <1>. QED
    BY <1>1, <1>2

(* ... and so it always holds.                                                *)
LEMMA IInvHolds == Spec => []IInv
BY InitIsGood, StepIsGood, PTL DEF Spec

-----------------------------------------------------------------------------
(* The theorems *)

(* Everything keeps its type, and a key is queued once if it has deltas and   *)
(* not at all if it has none: Replace, Add, Update, Delete and Resync of the  *)
(* DeltaFIFO all queue a key only with its first delta.                       *)
THEOREM TypeCorrect == Spec => []TypeOK
PROOF
  <1>1. ASSUME IInv PROVE TypeOK
    <2>1. /\ queue \in Seq(Keys) /\ items \in [Keys -> Seq(Deltas)]
          /\ Once(queue) /\ Queues(queue, Busy(items))
      BY <1>1 DEF IInv, FifoType, QueueInv
    <2>2. ASSUME NEW k \in Keys
          PROVE  Cardinality({i \in DOMAIN queue : queue[i] = k}) = IF items[k] = <<>> THEN 0 ELSE 1
      <3>. DEFINE S == {i \in DOMAIN queue : queue[i] = k}
      <3>1. CASE items[k] = <<>>
        <4>1. S = {}
          BY <2>1, <3>1 DEF Queues, Busy
        <4>. QED
          BY <3>1, <4>1, FS_EmptySet
      <3>2. CASE items[k] # <<>>
        <4>1. PICK i \in DOMAIN queue : queue[i] = k
          BY <2>1, <3>2 DEF Queues, Busy
        <4>2. S = {i}
          BY <2>1, <4>1 DEF Once
        <4>. QED
          BY <3>2, <4>2, FS_Singleton
      <3>. QED
        BY <3>1, <3>2
    <2>3. /\ informers \in Nat /\ started \in BOOLEAN /\ running \in Nat
          /\ handle \in [Callers -> 0..informers]
          /\ inside \in [Callers -> {"out", "creating", "starting"}]
          /\ waits \in [Callers -> {"not", "waiting", "synced", "stopped", "vacuous"}]
          /\ stopped \in BOOLEAN
      BY <1>1 DEF IInv, FactoryInv
    <2>4. ClientsTypeOK
      BY <1>1 DEF IInv, SourcesInv
    <2>. QED
      BY <1>1, <2>2, <2>3, <2>4 DEF TypeOK, IInv, ReflectorType, FifoType
  <1>. QED
    BY <1>1, IInvHolds, PTL

(* However the look-ups, creations and starts of any number of threads mix,   *)
(* they share one informer, and it is run once: the lock of the factory is    *)
(* held from the look-up to what follows from it.                             *)
THEOREM OneInformerRuns == Spec => []OneInformer
PROOF
  <1>1. ASSUME IInv PROVE OneInformer
    <2>1. /\ informers \in {0, 1} /\ started \in BOOLEAN
          /\ running = (IF started THEN 1 ELSE 0) /\ (started => informers = 1)
          /\ handle \in [Callers -> 0..informers]
      BY <1>1 DEF IInv, FactoryInv
    <2>2. \A t \in Callers : handle[t] # 0 => handle[t] = 1
      BY <2>1
    <2>. QED
      BY <2>1, <2>2 DEF OneInformer
  <1>. QED
    BY <1>1, IInvHolds, PTL

(* A lister only has objects that WithNamespace and WithTweakListOptions      *)
(* select, each in a version that was written, whatever is resynced, listed   *)
(* again or read from a server that lags.                                     *)
THEOREM OnlySelectedSeen == Spec => []OnlySelected
PROOF
  <1>1. ASSUME IInv PROVE OnlySelected
    <2>1. ASSUME NEW k \in Keys, cache[k] # Absent
          PROVE  Selected(k, cache[k].app) /\ log[cache[k].rv] = [key |-> k, obj |-> cache[k]]
      BY <1>1, <2>1 DEF IInv, KeysInv, ContentAt, Written
    <2>. QED
      BY <2>1 DEF OnlySelected, ListerList
  <1>. QED
    BY <1>1, IInvHolds, PTL

(* With one API server no resync, relist or watch takes an object in the      *)
(* cache back to an older version.                                            *)
THEOREM CacheGoesForward == OneServer /\ Spec => CacheForward
PROOF
  <1>. DEFINE Forward == \A k \in Keys : cache[k] # Absent /\ cache'[k] # Absent =>
                            cache[k].rv <= cache'[k].rv
  <1>. SUFFICES ASSUME OneServer PROVE Spec => CacheForward
    OBVIOUS
  <1>1. ASSUME IInv, [Next]_vars PROVE [Forward]_cache
    <2>1. CASE Pop
      BY <1>1, <2>1, PopIsGood DEF NotBefore
    <2>2. CASE cache' = cache
      BY <2>2
    <2>3. Pop \/ cache' = cache
      BY <1>1 DEF Next, ServerStep, ReflectorStep, List, WatchEvent, WatchFails, Resync, Stop,
         CallerStep, InformerFor, CreateInformer, Start, RunInformer, WaitForCacheSync, PollSynced, vars, informerVars
    <2>. QED
      BY <2>1, <2>2, <2>3
  <1>. QED
    BY <1>1, IInvHolds, PTL DEF Spec, CacheForward

(* With one API server, who was told that the caches are synced finds every   *)
(* object that the first list had and that was not deleted since, in that     *)
(* version or a later one, unless a list came in over queued deltas.          *)
THEOREM SyncedIsComplete == OneServer /\ Spec => []SyncedMeansComplete
PROOF
  <1>. SUFFICES ASSUME OneServer PROVE Spec => []SyncedMeansComplete
    OBVIOUS
  <1>1. ASSUME IInv PROVE SyncedMeansComplete
    <2>. SUFFICES ASSUME NEW t \in Callers, waits[t] = "synced", ~overlapped, NEW k \in Keys,
                         \A p \in lists[1]..Revision : Listed(p, k) # Absent
                  PROVE  /\ ListerGet(k.ns, k.name) # Absent
                         /\ ListerGet(k.ns, k.name).rv >= Listed(lists[1], k).rv
      BY DEF SyncedMeansComplete
    <2>1. populated /\ initial = 0
      BY <1>1 DEF IInv, QueueInv
    <2>2. Revision \in Nat /\ at \in 0..Revision /\ lists[1] \in 0..Revision
      BY <1>1, <2>1, Basics
    <2>3. Kept(k, at)
      <3>1. \A p \in lists[1]..at : p \in lists[1]..Revision
        BY <2>2
      <3>. QED
        BY <3>1 DEF Kept
    <2>4. AtLeast(k, cache[k])
      BY <1>1, <2>1, <2>3 DEF IInv, KeysInv, KeptAt
    <2>5. [ns |-> k.ns, name |-> k.name] = k
      BY DEF Keys
    <2>. QED
      BY <2>4, <2>5 DEF ListerGet, AtLeast
  <1>. QED
    BY <1>1, IInvHolds, PTL

=============================================================================
