------------------------------ MODULE FakeProofs ------------------------------
(* Proofs about FakeClientset.tla, for any namespaces, names, handles, seeds, *)
(* watches and channel size: the tracker has no key twice, watches miss       *)
(* nothing, and through the handle of a namespace an error has no effect.     *)
EXTENDS FakeClientset, FiniteSetTheorems, SequenceTheorems, TLAPS

-----------------------------------------------------------------------------
(* Tables *)

(* Keys are unique in a table; what is in it.                                 *)
Unique(t) == \A i, j \in DOMAIN t : Key(t[i]) = Key(t[j]) => i = j

(* What is in a table is at some place of it.                                 *)
LEMMA InTable ==
    ASSUME NEW t, NEW o
    PROVE  o \in ToSet(t) <=> \E i \in DOMAIN t : t[i] = o
BY Zenon DEF ToSet

(* A table of objects holds nothing else.                                     *)
LEMMA TableOfObjects ==
    ASSUME NEW t \in Seq(Objects)
    PROVE  ToSet(t) \subseteq Objects /\ \A i \in DOMAIN t : t[i] \in Objects
PROOF
  <1>1. \A i \in DOMAIN t : t[i] \in Objects
    OBVIOUS
  <1>2. \A o \in ToSet(t) : o \in Objects
    BY <1>1, InTable
  <1>. QED
    BY <1>2

(* Keys are pairs of a namespace and a name.                                  *)
LEMMA KeysArePairs ==
    ASSUME NEW o, NEW u
    PROVE  Key(o) = Key(u) <=> o.ns = u.ns /\ o.name = u.name
BY DEF Key

(* What an event makes of what is known.                                      *)
LEMMA InApplied ==
    ASSUME NEW known, NEW e, NEW o
    PROVE  o \in Applied(known, e) <=>
              \/ o \in known /\ Key(o) # Key(e.obj)
              \/ e.type # "Deleted" /\ o = e.obj
BY Zenon DEF Applied

(* An object that is entered anew ...                                         *)
LEMMA EnterNew ==
    ASSUME NEW t \in Seq(Objects), Unique(t), NEW obj \in Objects,
           \A i \in DOMAIN t : Key(t[i]) # Key(obj),
           NEW e, e.type = "Added", e.obj = obj
    PROVE  /\ Append(t, obj) \in Seq(Objects) /\ Unique(Append(t, obj))
           /\ ToSet(Append(t, obj)) = Applied(ToSet(t), e)
PROOF
  <1>. DEFINE u == Append(t, obj)
  <1>1. /\ u \in Seq(Objects) /\ Len(t) \in Nat /\ DOMAIN t = 1..Len(t)
        /\ DOMAIN u = 1..(Len(t) + 1) /\ u[Len(t) + 1] = obj
        /\ \A i \in 1..Len(t) : u[i] = t[i]
    OBVIOUS
  <1>. HIDE DEF u
  <1>2. \A i \in DOMAIN u : i \in 1..Len(t) \/ i = Len(t) + 1
    BY <1>1
  <1>3. Unique(u)
    BY <1>1, <1>2 DEF Unique
  <1>4. ASSUME NEW o PROVE o \in ToSet(u) <=> o \in Applied(ToSet(t), e)
    <2>1. o \in ToSet(u) <=> o \in ToSet(t) \/ o = obj
      <3>1. (\E i \in DOMAIN u : u[i] = o) <=> (\E i \in DOMAIN t : t[i] = o) \/ o = obj
        BY <1>1, <1>2
      <3>. QED
        BY <3>1, InTable
    <2>2. o \in ToSet(t) => Key(o) # Key(obj)
      BY InTable
    <2>. QED
      BY <2>1, <2>2, InApplied
  <1>. QED
    BY <1>1, <1>3, <1>4 DEF u

(* ... in the place of the one with its key ...                               *)
LEMMA EnterOver ==
    ASSUME NEW t \in Seq(Objects), Unique(t), NEW obj \in Objects,
           \E i \in DOMAIN t : Key(t[i]) = Key(obj),
           NEW e, e.type = "Modified", e.obj = obj,
           NEW u, u = [i \in DOMAIN t |-> IF Key(t[i]) = Key(obj) THEN obj ELSE t[i]]
    PROVE  u \in Seq(Objects) /\ Unique(u) /\ ToSet(u) = Applied(ToSet(t), e)
PROOF
  <1>1. Len(t) \in Nat /\ DOMAIN t = 1..Len(t) /\ \A i \in DOMAIN t : t[i] \in Objects
    OBVIOUS
  <1>2. DOMAIN u = DOMAIN t /\ \A i \in DOMAIN t : u[i] \in Objects /\ Key(u[i]) = Key(t[i])
    BY <1>1
  <1>3. u \in Seq(Objects)
    BY <1>1, <1>2
  <1>4. Unique(u)
    BY <1>2 DEF Unique
  <1>5. ASSUME NEW o PROVE o \in ToSet(u) <=> o \in Applied(ToSet(t), e)
    <2>1. ASSUME NEW i \in DOMAIN u, u[i] = o PROVE o \in Applied(ToSet(t), e)
      BY <1>2, <2>1, InApplied, InTable
    <2>2. ASSUME o \in ToSet(t), Key(o) # Key(obj) PROVE o \in ToSet(u)
      <3>1. PICK i \in DOMAIN t : t[i] = o
        BY <2>2, InTable
      <3>2. u[i] = o
        BY <2>2, <3>1
      <3>. QED
        BY <1>2, <3>2, InTable
    <2>3. obj \in ToSet(u)
      <3>1. PICK i \in DOMAIN t : Key(t[i]) = Key(obj)
        OBVIOUS
      <3>2. i \in DOMAIN u /\ u[i] = obj
        BY <1>2, <3>1
      <3>. QED
        BY <3>2, InTable
    <2>. QED
      BY <2>1, <2>2, <2>3, InApplied, InTable
  <1>. QED
    BY <1>3, <1>4, <1>5

(* ... or that is taken out.                                                  *)
LEMMA TakeOut ==
    ASSUME NEW t \in Seq(Objects), Unique(t), NEW i \in DOMAIN t,
           NEW e, e.type = "Deleted", e.obj = t[i]
    PROVE  /\ RemoveAt(t, i) \in Seq(Objects) /\ Unique(RemoveAt(t, i))
           /\ ToSet(RemoveAt(t, i)) = Applied(ToSet(t), e)
PROOF
  <1>. DEFINE n == Len(t)
              a == SubSeq(t, 1, i - 1)
              b == SubSeq(t, i + 1, n)
              u == RemoveAt(t, i)
              Old(j) == IF j < i THEN j ELSE j + 1
  <1>1. n \in Nat /\ DOMAIN t = 1..n /\ i \in 1..n
    OBVIOUS
  <1>2. a \in Seq(Objects) /\ Len(a) = i - 1 /\ \A j \in 1..(i - 1) : a[j] = t[j]
    <2>1. 1 \in Int /\ i - 1 \in Int /\ \A j \in 1..(i - 1) : t[j] \in Objects
      BY <1>1
    <2>2. /\ a \in Seq(Objects) /\ Len(a) = IF 1 <= i - 1 THEN (i - 1) - 1 + 1 ELSE 0
          /\ \A j \in 1..((i - 1) - 1 + 1) : a[j] = t[1 + j - 1]
      BY <2>1, SubSeqProperties
    <2>. QED
      BY <1>1, <2>2
  <1>3. b \in Seq(Objects) /\ Len(b) = n - i /\ \A j \in 1..(n - i) : b[j] = t[i + j]
    <2>1. i + 1 \in Int /\ n \in Int /\ \A j \in (i + 1)..n : t[j] \in Objects
      BY <1>1
    <2>2. /\ b \in Seq(Objects) /\ Len(b) = IF i + 1 <= n THEN n - (i + 1) + 1 ELSE 0
          /\ \A j \in 1..(n - (i + 1) + 1) : b[j] = t[(i + 1) + j - 1]
      BY <2>1, SubSeqProperties
    <2>. QED
      BY <1>1, <2>2
  <1>4. u = a \o b
    BY DEF RemoveAt
  <1>. HIDE DEF a, b, u, n
  <1>5. /\ u \in Seq(Objects) /\ DOMAIN u = 1..(n - 1)
        /\ \A j \in 1..(n - 1) : u[j] = IF j <= i - 1 THEN a[j] ELSE b[j - (i - 1)]
    <2>1. /\ a \o b \in Seq(Objects) /\ DOMAIN (a \o b) = 1..(Len(a) + Len(b))
          /\ \A j \in 1..(Len(a) + Len(b)) :
               (a \o b)[j] = IF j <= Len(a) THEN a[j] ELSE b[j - Len(a)]
      <3>1. /\ a \o b \in Seq(Objects) /\ Len(a \o b) = Len(a) + Len(b)
            /\ \A j \in 1..(Len(a) + Len(b)) :
                 (a \o b)[j] = IF j <= Len(a) THEN a[j] ELSE b[j - Len(a)]
        BY <1>2, <1>3, ConcatProperties
      <3>2. DOMAIN (a \o b) = 1..Len(a \o b)
        BY <3>1
      <3>. QED
        BY <3>1, <3>2
    <2>2. Len(a) + Len(b) = n - 1
      BY <1>1, <1>2, <1>3
    <2>. QED
      BY <1>2, <1>4, <2>1, <2>2
  <1>6. \A j \in 1..(n - 1) : Old(j) \in 1..n /\ Old(j) # i /\ u[j] = t[Old(j)]
    <2>1. ASSUME NEW j \in 1..(n - 1), j < i PROVE j \in 1..n /\ u[j] = t[j]
      BY <1>1, <1>2, <1>5, <2>1
    <2>2. ASSUME NEW j \in 1..(n - 1), ~ (j < i) PROVE j + 1 \in 1..n /\ u[j] = t[j + 1]
      <3>1. j - (i - 1) \in 1..(n - i) /\ i + (j - (i - 1)) = j + 1 /\ j + 1 \in 1..n
        BY <1>1, <2>2
      <3>2. u[j] = b[j - (i - 1)]
        BY <1>1, <1>5, <2>2
      <3>. QED
        BY <1>3, <3>1, <3>2
    <2>. QED
      BY <1>1, <2>1, <2>2
  <1>7. \A k \in 1..n : k # i => \E j \in 1..(n - 1) : Old(j) = k
    <2>1. ASSUME NEW k \in 1..n, k < i PROVE k \in 1..(n - 1) /\ Old(k) = k
      BY <1>1, <2>1
    <2>2. ASSUME NEW k \in 1..n, k > i PROVE k - 1 \in 1..(n - 1) /\ Old(k - 1) = k
      BY <1>1, <2>2
    <2>. QED
      BY <1>1, <2>1, <2>2
  <1>8. \A j, k \in 1..(n - 1) : Old(j) = Old(k) => j = k
    BY <1>1
  <1>. HIDE DEF Old
  <1>9. Unique(u)
    BY <1>1, <1>5, <1>6, <1>8 DEF Unique
  <1>10. ASSUME NEW o PROVE o \in ToSet(u) <=> o \in Applied(ToSet(t), e)
    <2>1. ASSUME NEW j \in DOMAIN u, u[j] = o PROVE o \in ToSet(t) /\ Key(o) # Key(t[i])
      BY <1>1, <1>5, <1>6, <2>1, InTable DEF Unique
    <2>2. ASSUME o \in ToSet(t), Key(o) # Key(t[i]) PROVE o \in ToSet(u)
      <3>1. PICK k \in DOMAIN t : t[k] = o
        BY <2>2, InTable
      <3>2. k # i
        BY <2>2, <3>1
      <3>3. PICK j \in 1..(n - 1) : Old(j) = k
        BY <1>1, <1>7, <3>2
      <3>. QED
        BY <1>5, <1>6, <3>1, <3>3, InTable
    <2>. QED
      BY <2>1, <2>2, InApplied, InTable
  <1>. QED
    BY <1>5, <1>9, <1>10 DEF u

-----------------------------------------------------------------------------
(* Watches *)

(* A reader that has caught up and applies one more event has caught up.      *)
LEMMA ReplayLast ==
    ASSUME NEW known \in SUBSET Objects, NEW events \in Seq(Events), NEW e \in Events
    PROVE  Replay(known, Append(events, e)) = Applied(Replay(known, events), e)
PROOF
  <1>. DEFINE all == Append(events, e)
              n == Len(events)
  <1>1. /\ n \in Nat /\ DOMAIN events = 1..n /\ DOMAIN all = 1..(n + 1)
        /\ all[n + 1] = e /\ \A i \in 1..n : all[i] = events[i]
    OBVIOUS
  <1>2. e.obj \in Objects
    BY DEF Events
  <1>. HIDE DEF all, n
  <1>3. \A i \in DOMAIN all : i \in 1..n \/ i = n + 1
    BY <1>1
  <1>4. \A i \in 1..n : i \in DOMAIN all /\ n + 1 > i /\ n + 1 \in DOMAIN all
    BY <1>1
  <1>5. ASSUME NEW o \in Objects, Key(o) = Key(e.obj)
        PROVE  o \in Replay(known, all) <=> e.type # "Deleted" /\ o = e.obj
    <2>1. ~ \A i \in DOMAIN all : Key(all[i].obj) # Key(o)
      BY <1>1, <1>5
    <2>2. ASSUME NEW i \in DOMAIN all,
                 \A j \in DOMAIN all : j > i => Key(all[j].obj) # Key(o)
          PROVE  i = n + 1
      BY <1>1, <1>3, <1>4, <1>5, <2>2
    <2>3. \A j \in DOMAIN all : ~ (j > n + 1)
      BY <1>1
    <2>. QED
      BY <1>1, <2>1, <2>2, <2>3 DEF Replay
  <1>6. ASSUME NEW o \in Objects, Key(o) # Key(e.obj)
        PROVE  o \in Replay(known, all) <=> o \in Replay(known, events)
    <2>1. (\A i \in DOMAIN all : Key(all[i].obj) # Key(o)) <=>
            \A i \in DOMAIN events : Key(events[i].obj) # Key(o)
      BY <1>1, <1>3, <1>4, <1>6
    <2>2. ASSUME NEW i \in DOMAIN events
          PROVE  (\A j \in DOMAIN all : j > i => Key(all[j].obj) # Key(o)) <=>
                   \A j \in DOMAIN events : j > i => Key(events[j].obj) # Key(o)
      BY <1>1, <1>3, <1>4, <1>6
    <2>3. ASSUME NEW i \in DOMAIN all, all[i].obj = o PROVE i \in DOMAIN events
      BY <1>1, <1>3, <1>6, <2>3
    <2>. QED
      BY <1>1, <1>4, <2>1, <2>2, <2>3 DEF Replay
  <1>7. Replay(known, all) \subseteq Objects /\ Replay(known, events) \subseteq Objects
    BY DEF Replay
  <1>8. ASSUME NEW o \in Objects
        PROVE  o \in Replay(known, all) <=> o \in Applied(Replay(known, events), e)
    BY <1>5, <1>6, InApplied
  <1>9. Applied(Replay(known, events), e) \subseteq Objects
    BY <1>2, <1>7, InApplied
  <1>. QED
    BY <1>7, <1>8, <1>9 DEF all

(* A reader that applies the event it receives is as far behind as before.    *)
LEMMA ReplayFirst ==
    ASSUME NEW known \in SUBSET Objects, NEW events \in Seq(Events), events # <<>>
    PROVE  /\ Applied(known, Head(events)) \in SUBSET Objects
           /\ Replay(Applied(known, Head(events)), Tail(events)) = Replay(known, events)
PROOF
  <1>. DEFINE e == Head(events)
              rest == Tail(events)
              n == Len(events)
  <1>1. /\ n \in Nat \ {0} /\ DOMAIN events = 1..n /\ DOMAIN rest = 1..(n - 1)
        /\ events[1] = e /\ \A i \in 1..(n - 1) : rest[i] = events[i + 1]
        /\ e \in Events
    OBVIOUS
  <1>2. e.obj \in Objects
    BY <1>1 DEF Events
  <1>. HIDE DEF e, rest, n
  <1>3. Applied(known, e) \in SUBSET Objects
    BY <1>2, InApplied
  <1>4. \A i \in 1..n : i = 1 \/ \E j \in 1..(n - 1) : i = j + 1
    <2>1. ASSUME NEW i \in 1..n, i # 1 PROVE i - 1 \in 1..(n - 1) /\ i = (i - 1) + 1
      BY <1>1, <2>1
    <2>. QED
      BY <2>1
  <1>5. \A i \in 1..(n - 1) : i + 1 \in 1..n /\ i + 1 > 1 /\ 1 \in 1..n
    BY <1>1
  <1>6. \A i, j \in 1..(n - 1) : j + 1 > i + 1 <=> j > i
    BY <1>1
  <1>7. \A i \in 1..n : ~ (1 > i)
    BY <1>1
  <1>8. ASSUME NEW o \in Objects
        PROVE  o \in Replay(Applied(known, e), rest) <=> o \in Replay(known, events)
    <2>. DEFINE About(i) == Key(events[i].obj) = Key(o)
                Leaves(i) == events[i].obj = o /\ events[i].type # "Deleted"
    <2>1. o \in Replay(known, events) <=>
            \/ o \in known /\ \A i \in 1..n : ~About(i)
            \/ \E i \in 1..n : Leaves(i) /\ \A j \in 1..n : j > i => ~About(j)
      BY <1>1 DEF Replay
    <2>2. o \in Replay(Applied(known, e), rest) <=>
            \/ /\ (o \in known /\ ~About(1)) \/ Leaves(1)
               /\ \A i \in 1..(n - 1) : ~About(i + 1)
            \/ \E i \in 1..(n - 1) :
                 Leaves(i + 1) /\ \A j \in 1..(n - 1) : j > i => ~About(j + 1)
      <3>1. o \in Applied(known, e) <=> (o \in known /\ ~About(1)) \/ Leaves(1)
        BY <1>1, InApplied
      <3>2. o \in Replay(Applied(known, e), rest) <=>
              \/ /\ o \in Applied(known, e)
                 /\ \A i \in 1..(n - 1) : Key(rest[i].obj) # Key(o)
              \/ \E i \in 1..(n - 1) :
                   /\ rest[i].obj = o /\ rest[i].type # "Deleted"
                   /\ \A j \in 1..(n - 1) : j > i => Key(rest[j].obj) # Key(o)
        BY <1>1 DEF Replay
      <3>3. \A i \in 1..(n - 1) :
              /\ Key(rest[i].obj) = Key(o) <=> About(i + 1)
              /\ rest[i].obj = o /\ rest[i].type # "Deleted" <=> Leaves(i + 1)
        BY <1>1
      <3>. HIDE DEF About, Leaves
      <3>. QED
        BY <3>1, <3>2, <3>3
    <2>. HIDE DEF About, Leaves
    <2>3. (\A i \in 1..n : ~About(i)) <=> ~About(1) /\ \A i \in 1..(n - 1) : ~About(i + 1)
      BY <1>1, <1>4, <1>5
    <2>4. (\A j \in 1..n : j > 1 => ~About(j)) <=> \A j \in 1..(n - 1) : ~About(j + 1)
      BY <1>1, <1>4, <1>5
    <2>5. ASSUME NEW i \in 1..(n - 1)
          PROVE  (\A j \in 1..n : j > i + 1 => ~About(j)) <=>
                   \A j \in 1..(n - 1) : j > i => ~About(j + 1)
      BY <1>1, <1>4, <1>5, <1>6
    <2>6. (\E i \in 1..n : Leaves(i) /\ \A j \in 1..n : j > i => ~About(j)) <=>
            \/ Leaves(1) /\ \A j \in 1..(n - 1) : ~About(j + 1)
            \/ \E i \in 1..(n - 1) :
                 Leaves(i + 1) /\ \A j \in 1..(n - 1) : j > i => ~About(j + 1)
      <3>. DEFINE Ends(i) == Leaves(i) /\ \A j \in 1..n : j > i => ~About(j)
      <3>1. (\E i \in 1..n : Ends(i)) <=> Ends(1) \/ \E i \in 1..(n - 1) : Ends(i + 1)
        <4>. HIDE DEF Ends
        <4>1. ASSUME NEW i \in 1..n, Ends(i)
              PROVE  Ends(1) \/ \E j \in 1..(n - 1) : Ends(j + 1)
          <5>1. CASE i = 1
            BY <4>1, <5>1
          <5>2. CASE i # 1
            <6>1. PICK j \in 1..(n - 1) : i = j + 1
              BY <1>4, <5>2
            <6>. QED
              BY <4>1, <6>1
          <5>. QED
            BY <5>1, <5>2
        <4>2. 1 \in 1..n /\ \A j \in 1..(n - 1) : j + 1 \in 1..n
          BY <1>1
        <4>. QED
          BY <4>1, <4>2
      <3>. QED
        BY <2>4, <2>5, <3>1
    <2>. QED
      BY <2>1, <2>2, <2>3, <2>6
  <1>. QED
    BY <1>3, <1>8 DEF Replay, e, rest

(* An event applied twice is applied.                                         *)
LEMMA AppliedTwice ==
    ASSUME NEW known, NEW e
    PROVE  Applied(Applied(known, e), e) = Applied(known, e)
PROOF
  <1>1. \A o : o \in Applied(Applied(known, e), e) <=> o \in Applied(known, e)
    BY InApplied
  <1>. QED
    BY <1>1

-----------------------------------------------------------------------------
(* The invariant, and a call that ends *)

(* A channel that nobody watches is empty, or the next watch to be opened     *)
(* would begin with events of the last one.                                   *)
IdleIsEmpty == \A w \in Watchers : watching[w] = {} => chan[w] = <<>>

(* They are inductive together: that a watch keeps up rests on an event       *)
(* naming one object of the table, and this on the keys being unique.         *)
IInv == TypeOK /\ KeysAreUnique /\ WatchesKeepUp /\ IdleIsEmpty

Answers == [err : Errors, table : Seq(Objects), event : SUBSET Events]

(* An answer to a request in a namespace either leaves the table alone or     *)
(* makes one change to an object of the namespace and says so.                *)
Sound(answer, ns) ==
  /\ answer \in Answers /\ Unique(answer.table)
  /\ \/ answer.table = objects /\ answer.event = {}
     \/ \E e \in Events :
          /\ e.obj.ns = ns /\ answer.event = {e}
          /\ ToSet(answer.table) = Applied(ToSet(objects), e)

(* In a namespace an error is all there is to an answer.                      *)
Bare(answer, ns) ==
  ns # NoNS /\ answer.err # "" => answer.table = objects /\ answer.event = {}

(* The part of ErrorsChangeNothing about one step.                            *)
Harmless ==
  \A c \in Clients :
    HomeOf[c] # NoNS /\ result'[c] # result[c] /\ result'[c].err # "" =>
      UNCHANGED <<objects, chan>>

(* What goes into a channel, and what the reader will know when it has read   *)
(* it.                                                                        *)
Sent(answer, n) ==
  [i \in 1..(IF answer.event = {} THEN 0 ELSE n) |-> CHOOSE e \in answer.event : TRUE]

(* A call without an event leaves a channel as it is.                         *)
LEMMA NothingSent ==
    ASSUME NEW answer, answer.event = {}, NEW n \in Nat, NEW events \in Seq(Events)
    PROVE  events \o Sent(answer, n) = events
PROOF
  <1>1. Sent(answer, n) = <<>>
    BY DEF Sent
  <1>. QED
    BY <1>1

(* A call with an event leaves what a reader would know, or applies the event *)
(* to it, however often the watch is listed for it.                           *)
LEMMA EventSent ==
    ASSUME NEW answer, NEW e \in Events, answer.event = {e}, NEW n \in 0..2,
           NEW events \in Seq(Events), NEW known \in SUBSET Objects
    PROVE  /\ (events \o Sent(answer, n)) \in Seq(Events)
           /\ Replay(known, events \o Sent(answer, n)) =
                IF n = 0 THEN Replay(known, events) ELSE Applied(Replay(known, events), e)
PROOF
  <1>1. Sent(answer, n) = [i \in 1..n |-> e]
    <2>1. (CHOOSE x \in answer.event : TRUE) = e
      OBVIOUS
    <2>. QED
      BY <2>1 DEF Sent
  <1>. DEFINE all == events \o Sent(answer, n)
              one == Append(events, e)
              two == Append(one, e)
  <1>2. /\ n = 0 => all = events
        /\ n = 1 => all = one
        /\ n = 2 => all = two
    BY <1>1
  <1>3. one \in Seq(Events) /\ two \in Seq(Events)
    OBVIOUS
  <1>4. Replay(known, one) = Applied(Replay(known, events), e)
    BY ReplayLast
  <1>5. Replay(known, two) = Applied(Replay(known, one), e)
    BY <1>3, ReplayLast
  <1>. HIDE DEF all, one, two
  <1>6. Replay(known, two) = Applied(Replay(known, events), e)
    BY <1>4, <1>5, AppliedTwice
  <1>7. all \in Seq(Events) /\ Replay(known, all) =
          IF n = 0 THEN Replay(known, events) ELSE Applied(Replay(known, events), e)
    BY <1>2, <1>3, <1>4, <1>6
  <1>. QED
    BY <1>7 DEF all

(* What a namespace shows after a change in another one, and in its own.      *)
Within(t, ns) == {o \in ToSet(t) : ns \in {o.ns, NoNS}}

(* A change of the tracker is seen in its own namespace and over all of them, *)
(* and nowhere else.                                                          *)
LEMMA ChangeShows ==
    ASSUME NEW t, NEW u, NEW e, ToSet(u) = Applied(ToSet(t), e), NEW ns
    PROVE  Within(u, ns) = IF ns \in {e.obj.ns, NoNS} THEN Applied(Within(t, ns), e)
                           ELSE Within(t, ns)
PROOF
  <1>1. \A o : o \in ToSet(u) <=> \/ o \in ToSet(t) /\ Key(o) # Key(e.obj)
                                  \/ e.type # "Deleted" /\ o = e.obj
    <2>1. ASSUME NEW o
          PROVE  o \in Applied(ToSet(t), e) <=>
                    \/ o \in ToSet(t) /\ Key(o) # Key(e.obj)
                    \/ e.type # "Deleted" /\ o = e.obj
      BY InApplied
    <2>. QED
      BY <2>1, Zenon
  <1>2. \A o : o \in Within(t, ns) <=> o \in ToSet(t) /\ ns \in {o.ns, NoNS}
    BY DEF Within
  <1>3. \A o : o \in Within(u, ns) <=> o \in ToSet(u) /\ ns \in {o.ns, NoNS}
    BY DEF Within
  <1>4. CASE ns \in {e.obj.ns, NoNS}
    <2>1. \A o : o \in Within(u, ns) <=> o \in Applied(Within(t, ns), e)
      BY <1>1, <1>2, <1>3, <1>4, InApplied
    <2>. QED
      BY <1>4, <2>1
  <1>5. CASE ns \notin {e.obj.ns, NoNS}
    <2>1. \A o : ns \in {o.ns, NoNS} => Key(o) # Key(e.obj) /\ o # e.obj
      BY <1>5, KeysArePairs
    <2>2. \A o : o \in Within(u, ns) <=> o \in Within(t, ns)
      <3>1. ASSUME NEW o, ns \in {o.ns, NoNS}
            PROVE  o \in Within(u, ns) <=> o \in Within(t, ns)
        <4>1. o \in ToSet(u) <=> o \in ToSet(t)
          <5>1. Key(o) # Key(e.obj) /\ o # e.obj
            BY <2>1, <3>1
          <5>2. o \in ToSet(u) <=>
                  \/ o \in ToSet(t) /\ Key(o) # Key(e.obj)
                  \/ e.type # "Deleted" /\ o = e.obj
            BY <1>1
          <5>. QED
            BY <5>1, <5>2
        <4>. QED
          BY <1>2, <1>3, <4>1, Zenon
      <3>2. ASSUME NEW o, ~ (ns \in {o.ns, NoNS})
            PROVE  o \in Within(u, ns) <=> o \in Within(t, ns)
        BY <1>2, <1>3, <3>2, Zenon
      <3>. QED
        BY <3>1, <3>2
    <2>. QED
      BY <1>5, <2>2
  <1>. QED
    BY <1>4, <1>5

(* The watches that are told of a change.                                     *)
LEMMA ToldOnceOrTwice ==
    ASSUME NEW ns, NEW w
    PROVE  Watches(ns, w) \in {0, 1, 2}
BY DEF Watches

(* An open watch is told of the changes in its namespace, or of all.          *)
LEMMA ToldOfTheirs ==
    ASSUME NEW ns, NEW w, NEW n, watching[w] = {n}
    PROVE  Watches(ns, w) # 0 <=> n \in {ns, NoNS}
PROOF
  <1>1. CASE n = NoNS
    <2>1. Watches(ns, w) = IF ns = NoNS THEN 2 ELSE 1
      BY <1>1 DEF Watches
    <2>. QED
      BY <1>1, <2>1
  <1>2. CASE n # NoNS /\ n = ns
    BY <1>2 DEF Watches
  <1>3. CASE n # NoNS /\ n # ns
    BY <1>3 DEF Watches
  <1>. QED
    BY <1>1, <1>2, <1>3

(* A call that ends with a sound answer.                                      *)
LEMMA ReplyIsGood ==
    ASSUME IInv, NEW c \in Clients, NEW answer, Sound(answer, HomeOf[c]),
           NEW objs \in SUBSET Objects, Reply(c, answer, objs),
           Bare(answer, HomeOf[c])
    PROVE  IInv' /\ Harmless
PROOF
  <1>. DEFINE ns == HomeOf[c]
              sent == [w \in Watchers |-> chan[w] \o Sent(answer, Watches(ns, w))]
  <1>1. /\ objects \in Seq(Objects) /\ chan \in [Watchers -> Seq(Events)]
        /\ watching \in [Watchers -> {{}} \cup {{n} : n \in Spaces}]
        /\ seen \in [Watchers -> SUBSET Objects]
        /\ result \in [Clients -> Results] /\ panicked \in BOOLEAN
        /\ \A w \in Watchers : Len(chan[w]) <= ChanSize
        /\ Unique(objects)
    BY DEF IInv, TypeOK, KeysAreUnique, Unique
  <1>2. answer \in Answers /\ answer.err \in Errors /\ answer.table \in Seq(Objects)
        /\ Unique(answer.table)
    BY DEF Sound, Answers
  <1>3. CASE UNCHANGED vars
    <2>1. UNCHANGED <<objects, watching, chan, seen, result, panicked>>
      BY <1>3 DEF vars
    <2>2. TypeOK' /\ KeysAreUnique'
      BY <2>1 DEF IInv, TypeOK, KeysAreUnique
    <2>3. WatchesKeepUp' /\ IdleIsEmpty'
      BY <2>1 DEF IInv, WatchesKeepUp, InSpace, IdleIsEmpty
    <2>. QED
      BY <2>1, <2>2, <2>3 DEF IInv, Harmless
  <1>4. CASE panicked' /\ UNCHANGED <<objects, watching, chan, seen, result>>
    <2>1. TypeOK' /\ KeysAreUnique'
      BY <1>4 DEF IInv, TypeOK, KeysAreUnique
    <2>2. WatchesKeepUp' /\ IdleIsEmpty'
      BY <1>4 DEF IInv, WatchesKeepUp, InSpace, IdleIsEmpty
    <2>. QED
      BY <1>4, <2>1, <2>2 DEF IInv, Harmless
  <1>5. CASE /\ objects' = answer.table /\ chan' = sent
             /\ \A w \in Watchers : ~ (Len(sent[w]) > ChanSize)
             /\ result' = [result EXCEPT ![c] = [err |-> answer.err, objs |-> objs]]
             /\ UNCHANGED <<watching, seen, panicked>>
    <2>1. result' \in [Clients -> Results]
      <3>1. [err |-> answer.err, objs |-> objs] \in Results
        BY <1>2 DEF Results
      <3>. QED
        BY <1>1, <1>5, <3>1
    <2>2. \A w \in Watchers : /\ chan[w] \in Seq(Events) /\ seen[w] \in SUBSET Objects
                              /\ Watches(ns, w) \in 0..2 /\ Watches(ns, w) \in Nat
      <3>1. ASSUME NEW w \in Watchers PROVE Watches(ns, w) \in 0..2 /\ Watches(ns, w) \in Nat
        <4>1. Watches(ns, w) \in {0, 1, 2}
          BY ToldOnceOrTwice, Zenon
        <4>. QED
          BY <4>1
      <3>2. ASSUME NEW w \in Watchers PROVE chan[w] \in Seq(Events) /\ seen[w] \in SUBSET Objects
        BY <1>1
      <3>. QED
        BY <3>1, <3>2
    <2>3. \A w \in Watchers : \A n \in watching[w] :
            /\ Watches(ns, w) # 0 <=> n \in {ns, NoNS}
            /\ Replay(seen[w], chan[w]) = Within(objects, n)
      <3>. SUFFICES ASSUME NEW w \in Watchers, NEW n \in watching[w]
                    PROVE  /\ Watches(ns, w) # 0 <=> n \in {ns, NoNS}
                           /\ Replay(seen[w], chan[w]) = Within(objects, n)
        OBVIOUS
      <3>1. watching[w] \in {{}} \cup {{m} : m \in Spaces}
        BY <1>1
      <3>2. watching[w] = {n}
        BY <3>1, Zenon
      <3>3. Watches(ns, w) # 0 <=> n \in {ns, NoNS}
        BY <3>2, ToldOfTheirs
      <3>4. Replay(seen[w], chan[w]) = Within(objects, n)
        BY DEF IInv, WatchesKeepUp, InSpace, Within
      <3>. QED
        BY <3>3, <3>4
    <2>4. CASE answer.table = objects /\ answer.event = {}
      <3>1. \A w \in Watchers : sent[w] = chan[w]
        BY <2>2, <2>4, NothingSent
      <3>2. sent = chan
        BY <1>1, <3>1
      <3>. HIDE DEF sent
      <3>3. UNCHANGED <<objects, chan, watching, seen, panicked>>
        BY <1>5, <2>4, <3>2
      <3>4. TypeOK' /\ KeysAreUnique' /\ Harmless
        BY <1>1, <2>1, <3>3 DEF IInv, TypeOK, KeysAreUnique, Harmless
      <3>5. WatchesKeepUp' /\ IdleIsEmpty'
        BY <3>3 DEF IInv, WatchesKeepUp, InSpace, IdleIsEmpty
      <3>. QED
        BY <3>4, <3>5 DEF IInv
    <2>5. CASE ~ (answer.table = objects /\ answer.event = {})
      <3>1. PICK e \in Events :
              /\ e.obj.ns = ns /\ answer.event = {e}
              /\ ToSet(answer.table) = Applied(ToSet(objects), e)
        BY <2>5 DEF Sound
      <3>2. ASSUME NEW w \in Watchers
            PROVE  /\ chan'[w] \in Seq(Events) /\ Len(chan'[w]) <= ChanSize
                   /\ Replay(seen[w], chan'[w]) =
                        IF Watches(ns, w) = 0 THEN Replay(seen[w], chan[w])
                        ELSE Applied(Replay(seen[w], chan[w]), e)
        <4>1. chan'[w] = chan[w] \o Sent(answer, Watches(ns, w))
          BY <1>5
        <4>2. /\ chan'[w] \in Seq(Events)
              /\ Replay(seen[w], chan'[w]) =
                   IF Watches(ns, w) = 0 THEN Replay(seen[w], chan[w])
                   ELSE Applied(Replay(seen[w], chan[w]), e)
          <5>1. /\ (chan[w] \o Sent(answer, Watches(ns, w))) \in Seq(Events)
                /\ Replay(seen[w], chan[w] \o Sent(answer, Watches(ns, w))) =
                     IF Watches(ns, w) = 0 THEN Replay(seen[w], chan[w])
                     ELSE Applied(Replay(seen[w], chan[w]), e)
            <6>1. /\ chan[w] \in Seq(Events) /\ seen[w] \in SUBSET Objects
                  /\ Watches(ns, w) \in 0..2 /\ e \in Events /\ answer.event = {e}
              BY <2>2, <3>1
            <6>2. ASSUME NEW n \in 0..2, NEW events \in Seq(Events), NEW known \in SUBSET Objects
                  PROVE  /\ (events \o Sent(answer, n)) \in Seq(Events)
                         /\ Replay(known, events \o Sent(answer, n)) =
                              IF n = 0 THEN Replay(known, events)
                              ELSE Applied(Replay(known, events), e)
              BY <3>1, EventSent
            <6>. HIDE DEF ns
            <6>. QED
              BY <6>1, <6>2, ZenonT(30)
          <5>. QED
            BY <4>1, <5>1
        <4>3. ~ (Len(chan'[w]) > ChanSize)
          BY <1>5
        <4>4. Len(chan'[w]) \in Nat /\ ChanSize \in Nat
          <5>1. Len(chan'[w]) \in Nat
            BY <4>2
          <5>. QED
            BY <5>1, FakeAssumption
        <4>5. Len(chan'[w]) <= ChanSize
          BY <4>3, <4>4
        <4>. QED
          BY <4>2, <4>5
      <3>3. chan' \in [Watchers -> Seq(Events)]
        BY <1>5, <3>2
      <3>4. TypeOK'
        BY <1>1, <1>2, <1>5, <2>1, <3>2, <3>3 DEF TypeOK
      <3>5. KeysAreUnique'
        BY <1>2, <1>5 DEF KeysAreUnique, Unique
      <3>6. WatchesKeepUp'
        <4>. SUFFICES ASSUME NEW w \in Watchers, NEW n \in watching[w]
                      PROVE  Replay(seen[w], chan'[w]) = Within(answer.table, n)
          BY <1>5 DEF WatchesKeepUp, InSpace, Within
        <4>1. Within(answer.table, n) = IF n \in {ns, NoNS} THEN Applied(Within(objects, n), e)
                                        ELSE Within(objects, n)
          <5>1. Within(answer.table, n) =
                  IF n \in {e.obj.ns, NoNS} THEN Applied(Within(objects, n), e)
                  ELSE Within(objects, n)
            BY <3>1, ChangeShows
          <5>. QED
            BY <3>1, <5>1
        <4>. QED
          BY <2>3, <3>2, <4>1
      <3>7. Harmless
        BY <1>1, <1>5, <2>5 DEF Harmless, Bare
      <3>8. IdleIsEmpty'
        <4>. SUFFICES ASSUME NEW w \in Watchers, watching[w] = {} PROVE chan'[w] = <<>>
          BY <1>5 DEF IdleIsEmpty
        <4>1. Watches(ns, w) = 0 /\ chan[w] = <<>>
          BY DEF Watches, IInv, IdleIsEmpty
        <4>2. Sent(answer, 0) = <<>>
          BY DEF Sent
        <4>3. chan'[w] = chan[w] \o Sent(answer, Watches(ns, w))
          BY <1>5
        <4>4. chan'[w] = <<>> \o <<>>
          BY <4>1, <4>2, <4>3
        <4>. QED
          BY <4>4
      <3>. QED
        BY <3>4, <3>5, <3>6, <3>7, <3>8 DEF IInv
    <2>. QED
      BY <2>4, <2>5
  <1>. QED
    BY <1>3, <1>4, <1>5 DEF Reply, Sent

-----------------------------------------------------------------------------
(* What the tracker answers *)

(* A refusal changes nothing and tells nobody.                                *)
LEMMA RefusedIsSound ==
    ASSUME IInv, NEW err \in Errors, NEW ns
    PROVE  Sound(Refused(err), ns) /\ Bare(Refused(err), ns) /\ Refused(err).err = err
PROOF
  <1>1. objects \in Seq(Objects) /\ Unique(objects)
    BY DEF IInv, TypeOK, KeysAreUnique, Unique
  <1>2. Refused(err) \in Answers /\ Refused(err).table = objects /\ Refused(err).event = {}
        /\ Refused(err).err = err
    BY <1>1 DEF Refused, Answers
  <1>. QED
    BY <1>1, <1>2 DEF Sound, Bare

(* A change of the table that is told as the event e.                         *)
LEMMA ChangeIsSound ==
    ASSUME IInv, NEW ns, NEW e \in Events, e.obj.ns = ns,
           NEW t \in Seq(Objects), Unique(t), ToSet(t) = Applied(ToSet(objects), e),
           NEW err \in Errors, NEW answer,
           answer = [err |-> err, table |-> t, event |-> {e}]
    PROVE  Sound(answer, ns)
PROOF
  <1>1. answer \in Answers
    BY DEF Answers
  <1>. QED
    BY <1>1 DEF Sound

(* add refuses, or enters the object in the namespace of the request and      *)
(* returns no error; then the object is the only one of its key.              *)
LEMMA AddIsSound ==
    ASSUME IInv, NEW body \in Objects, NEW ns \in Spaces, NEW replace \in BOOLEAN,
           NEW answer, answer = Add(body, ns, replace)
    PROVE  /\ Sound(answer, ns) /\ Bare(answer, ns)
           /\ answer.err = "" =>
                \E o \in ToSet(answer.table) : o.ns = ns /\ o.name = body.name
PROOF
  <1>. DEFINE obj == IF body.ns = NoNS THEN [body EXCEPT !.ns = ns] ELSE body
              at == {i \in DOMAIN objects : Key(objects[i]) = Key(obj)}
              over == [i \in DOMAIN objects |-> IF i \in at THEN obj ELSE objects[i]]
              added == [type |-> "Added", obj |-> obj]
              modified == [type |-> "Modified", obj |-> obj]
  <1>1. objects \in Seq(Objects) /\ Unique(objects)
    BY DEF IInv, TypeOK, KeysAreUnique, Unique
  <1>2. obj \in Objects /\ obj.name = body.name
    <2>1. [body EXCEPT !.ns = ns] \in Objects /\ [body EXCEPT !.ns = ns].name = body.name
      BY DEF Objects
    <2>. QED
      BY <2>1
  <1>3. answer = IF obj.ns # ns THEN Refused("BadRequest")
                 ELSE IF at = {} /\ replace THEN Refused("NotFound")
                 ELSE IF at = {} THEN [err |-> "", table |-> Append(objects, obj),
                                       event |-> {added}]
                 ELSE IF ~replace THEN Refused("AlreadyExists")
                 ELSE [err |-> "", table |-> over, event |-> {modified}]
    BY DEF Add
  <1>4. /\ added \in Events /\ added.type = "Added" /\ added.obj = obj
        /\ modified \in Events /\ modified.type = "Modified" /\ modified.obj = obj
    BY <1>2 DEF Events
  <1>5. "" \in Errors /\ "BadRequest" \in Errors /\ "NotFound" \in Errors
        /\ "AlreadyExists" \in Errors
    BY DEF Errors
  <1>. HIDE DEF obj, added, modified
  <1>6. ASSUME NEW err \in {"BadRequest", "NotFound", "AlreadyExists"}, answer = Refused(err)
        PROVE  Sound(answer, ns) /\ Bare(answer, ns) /\ answer.err # ""
    <2>1. err \in Errors /\ err # ""
      BY <1>6 DEF Errors
    <2>2. Sound(Refused(err), ns) /\ Bare(Refused(err), ns) /\ Refused(err).err = err
      BY <2>1, RefusedIsSound
    <2>. QED
      BY <1>6, <2>1, <2>2
  <1>7. CASE obj.ns = ns /\ at = {} /\ ~replace
    <2>1. answer = [err |-> "", table |-> Append(objects, obj), event |-> {added}]
      BY <1>3, <1>7
    <2>2. \A i \in DOMAIN objects : Key(objects[i]) # Key(obj)
      BY <1>7
    <2>. HIDE DEF at, over
    <2>3. /\ Append(objects, obj) \in Seq(Objects) /\ Unique(Append(objects, obj))
          /\ ToSet(Append(objects, obj)) = Applied(ToSet(objects), added)
      BY <1>1, <1>2, <1>4, <2>2, EnterNew
    <2>4. Sound(answer, ns)
      BY <1>4, <1>5, <1>7, <2>1, <2>3, ChangeIsSound
    <2>5. obj \in ToSet(answer.table) /\ answer.err = ""
      <3>1. obj \in Applied(ToSet(objects), added)
        BY <1>4, InApplied
      <3>2. answer.table = Append(objects, obj) /\ answer.err = ""
        <4>. DEFINE r == [err |-> "", table |-> Append(objects, obj), event |-> {added}]
        <4>1. r.table = Append(objects, obj) /\ r.err = ""
          OBVIOUS
        <4>. QED
          BY <2>1, <4>1, Zenon
      <3>. QED
        BY <2>3, <3>1, <3>2
    <2>. QED
      BY <1>2, <1>7, <2>4, <2>5 DEF Bare
  <1>8. CASE obj.ns = ns /\ at # {} /\ replace
    <2>1. answer = [err |-> "", table |-> over, event |-> {modified}]
      BY <1>3, <1>8
    <2>2. over \in Seq(Objects) /\ Unique(over) /\ ToSet(over) = Applied(ToSet(objects), modified)
      <3>1. /\ \E i \in DOMAIN objects : Key(objects[i]) = Key(obj)
            /\ over = [i \in DOMAIN objects |->
                        IF Key(objects[i]) = Key(obj) THEN obj ELSE objects[i]]
        BY <1>8
      <3>. HIDE DEF at, over
      <3>. QED
        BY <1>1, <1>2, <1>4, <3>1, EnterOver
    <2>. HIDE DEF at, over
    <2>3. Sound(answer, ns)
      BY <1>4, <1>5, <1>8, <2>1, <2>2, ChangeIsSound
    <2>4. obj \in ToSet(answer.table) /\ answer.err = ""
      <3>1. obj \in Applied(ToSet(objects), modified)
        BY <1>4, InApplied
      <3>2. answer.table = over /\ answer.err = ""
        <4>. DEFINE r == [err |-> "", table |-> over, event |-> {modified}]
        <4>1. r.table = over /\ r.err = ""
          OBVIOUS
        <4>. QED
          BY <2>1, <4>1, Zenon
      <3>. QED
        BY <2>2, <3>1, <3>2
    <2>. QED
      BY <1>2, <1>8, <2>3, <2>4 DEF Bare
  <1>9. CASE obj.ns # ns \/ (at = {} /\ replace) \/ (at # {} /\ ~replace)
    <2>1. \/ answer = Refused("BadRequest") \/ answer = Refused("NotFound")
          \/ answer = Refused("AlreadyExists")
      BY <1>3, <1>9
    <2>. QED
      BY <1>6, <2>1
  <1>. QED
    BY <1>7, <1>8, <1>9

(* Delete takes out an object of the namespace of the request, or refuses.    *)
LEMMA RemovedIsSound ==
    ASSUME IInv, NEW ns, NEW name, NEW answer, answer = Removed(ns, name)
    PROVE  Sound(answer, ns) /\ Bare(answer, ns)
PROOF
  <1>. DEFINE at == {i \in DOMAIN objects : Key(objects[i]) = <<ns, name>>}
              i == CHOOSE i \in at : TRUE
              e == [type |-> "Deleted", obj |-> objects[i]]
  <1>1. objects \in Seq(Objects) /\ Unique(objects) /\ "" \in Errors /\ "NotFound" \in Errors
    BY DEF IInv, TypeOK, KeysAreUnique, Unique, Errors
  <1>2. answer = IF at = {} THEN Refused("NotFound")
                 ELSE [err |-> "", table |-> RemoveAt(objects, i), event |-> {e}]
    BY DEF Removed
  <1>3. CASE at = {}
    BY <1>1, <1>2, <1>3, RefusedIsSound
  <1>4. CASE at # {}
    <2>1. i \in at
      BY <1>4
    <2>. HIDE DEF i
    <2>2. i \in DOMAIN objects /\ objects[i].ns = ns /\ objects[i] \in Objects
      <3>1. i \in DOMAIN objects /\ <<objects[i].ns, objects[i].name>> = <<ns, name>>
        BY <2>1 DEF Key
      <3>2. objects[i].ns = ns
        BY <3>1
      <3>3. \A j \in DOMAIN objects : objects[j] \in Objects
        BY <1>1, TableOfObjects
      <3>. QED
        BY <3>1, <3>2, <3>3
    <2>3. e \in Events /\ e.type = "Deleted" /\ e.obj = objects[i]
      BY <2>2 DEF Events
    <2>4. answer = [err |-> "", table |-> RemoveAt(objects, i), event |-> {e}]
      BY <1>2, <1>4
    <2>. HIDE DEF at, e
    <2>5. /\ RemoveAt(objects, i) \in Seq(Objects) /\ Unique(RemoveAt(objects, i))
          /\ ToSet(RemoveAt(objects, i)) = Applied(ToSet(objects), e)
      BY <1>1, <2>2, <2>3, TakeOut
    <2>6. Sound(answer, ns)
      BY <1>1, <2>2, <2>3, <2>4, <2>5, ChangeIsSound
    <2>7. answer.err = ""
      <3>. DEFINE r == [err |-> "", table |-> RemoveAt(objects, i), event |-> {e}]
      <3>1. r.err = ""
        OBVIOUS
      <3>. QED
        BY <2>4, <3>1, Zenon
    <2>. QED
      BY <2>6, <2>7 DEF Bare
  <1>. QED
    BY <1>3, <1>4

(* The answer of a write whose Get fails.                                     *)
LEMMA OtherError ==
    ASSUME NEW answer \in Answers, NEW err \in Errors
    PROVE  LET other == [answer EXCEPT !.err = err]
           IN  other \in Answers /\ other.table = answer.table /\ other.event = answer.event
BY DEF Answers

(* In a namespace a name is one object: what was written is found again.      *)
LEMMA WriteAndGetIsGood ==
    ASSUME IInv, NEW c \in Clients, NEW answer, NEW name,
           Sound(answer, HomeOf[c]), Bare(answer, HomeOf[c]),
           answer.err = "" => \E o \in ToSet(answer.table) : o.ns = HomeOf[c] /\ o.name = name,
           WriteAndGet(c, answer, name)
    PROVE  IInv' /\ Harmless
PROOF
  <1>. DEFINE there == {o \in ToSet(answer.table) : o.name = name /\ HomeOf[c] \in {o.ns, NoNS}}
              lost == [answer EXCEPT !.err = "Ambiguous"]
  <1>1. /\ answer \in Answers /\ answer.table \in Seq(Objects) /\ Unique(answer.table)
        /\ ToSet(answer.table) \subseteq Objects
    <2>1. answer \in Answers /\ Unique(answer.table)
      BY DEF Sound
    <2>2. answer.table \in Seq(Objects)
      BY <2>1 DEF Answers
    <2>. QED
      BY <2>1, <2>2, TableOfObjects
  <1>2. \/ answer.err # "" /\ Reply(c, answer, {})
        \/ answer.err = "" /\ Cardinality(there) = 1 /\ Reply(c, answer, there)
        \/ answer.err = "" /\ Cardinality(there) # 1 /\ Reply(c, lost, {})
    BY DEF WriteAndGet
  <1>3. CASE answer.err # "" /\ Reply(c, answer, {})
    BY <1>3, ReplyIsGood
  <1>4. CASE answer.err = "" /\ Cardinality(there) = 1 /\ Reply(c, answer, there)
    <2>1. there \in SUBSET Objects
      BY <1>1
    <2>. HIDE DEF there
    <2>. QED
      BY <1>4, <2>1, ReplyIsGood
  <1>5. CASE answer.err = "" /\ Cardinality(there) # 1 /\ Reply(c, lost, {})
    <2>1. Sound(lost, HomeOf[c])
      <3>1. lost \in Answers /\ lost.table = answer.table /\ lost.event = answer.event
        BY <1>1, OtherError DEF Errors
      <3>. HIDE DEF lost
      <3>. QED
        BY <3>1 DEF Sound
    <2>2. HomeOf[c] = NoNS
      <3>. SUFFICES ASSUME HomeOf[c] # NoNS PROVE Cardinality(there) = 1
        BY <1>5
      <3>1. PICK o \in ToSet(answer.table) : o.ns = HomeOf[c] /\ o.name = name
        BY <1>5
      <3>2. ASSUME NEW u \in there PROVE u = o
        <4>1. u \in ToSet(answer.table) /\ u.ns = o.ns /\ u.name = o.name
          BY <3>1
        <4>2. Key(u) = Key(o)
          BY <4>1, KeysArePairs
        <4>3. PICK i \in DOMAIN answer.table : answer.table[i] = u
          BY <4>1, InTable
        <4>4. PICK j \in DOMAIN answer.table : answer.table[j] = o
          BY InTable
        <4>5. i = j
          BY <1>1, <4>2, <4>3, <4>4 DEF Unique
        <4>. QED
          BY <4>3, <4>4, <4>5
      <3>3. o \in there
        BY <3>1
      <3>. HIDE DEF there
      <3>4. there = {o}
        BY <3>2, <3>3
      <3>. QED
        BY <3>4, FS_Singleton
    <2>3. Bare(lost, HomeOf[c])
      BY <2>2 DEF Bare
    <2>. HIDE DEF lost
    <2>. QED
      BY <1>5, <2>1, <2>3, ReplyIsGood
  <1>. QED
    BY <1>2, <1>3, <1>4, <1>5

-----------------------------------------------------------------------------
(* The calls *)

(* What a namespace has are objects.                                          *)
LEMMA InSpaceAreObjects ==
    ASSUME IInv, NEW ns
    PROVE  InSpace(ns) \in SUBSET Objects
PROOF
  <1>1. objects \in Seq(Objects)
    BY DEF IInv, TypeOK
  <1>2. ToSet(objects) \subseteq Objects
    BY <1>1, TableOfObjects
  <1>. QED
    BY <1>2 DEF InSpace

(* A call that reads, or that no reactor handles.                             *)
LEMMA ReadIsGood ==
    ASSUME IInv, NEW c \in Clients, NEW err \in Errors, NEW objs \in SUBSET Objects,
           Reply(c, Refused(err), objs)
    PROVE  IInv' /\ Harmless
BY RefusedIsSound, ReplyIsGood

(* Get, List and DeleteCollection change no object.                           *)
LEMMA ReadsAreGood ==
    ASSUME IInv, NEW c \in Clients,
           \/ \E name \in Names : Get(c, name)
           \/ \E sel \in SUBSET Apps : List(c, sel)
           \/ DeleteCollection(c)
    PROVE  IInv' /\ Harmless
PROOF
  <1>1. "" \in Errors /\ {} \in SUBSET Objects
    BY DEF Errors
  <1>2. ASSUME NEW name \in Names, Get(c, name) PROVE IInv' /\ Harmless
    <2>. DEFINE err == GetError(HomeOf[c], name)
                objs == IF err = "" THEN Found(HomeOf[c], name) ELSE {}
    <2>1. err \in Errors
      BY DEF GetError, Errors
    <2>2. Reply(c, Refused(err), objs)
      BY <1>2 DEF Get
    <2>3. objs \in SUBSET Objects
      BY InSpaceAreObjects DEF Found
    <2>. HIDE DEF err, objs
    <2>. QED
      BY <2>1, <2>2, <2>3, ReadIsGood
  <1>3. ASSUME NEW sel \in SUBSET Apps, List(c, sel) PROVE IInv' /\ Harmless
    <2>. DEFINE objs == {o \in InSpace(HomeOf[c]) : o.app \in sel}
    <2>1. objs \in SUBSET Objects
      BY InSpaceAreObjects
    <2>2. Reply(c, Refused(""), objs)
      BY <1>3 DEF List
    <2>. HIDE DEF objs
    <2>. QED
      BY <1>1, <2>1, <2>2, ReadIsGood
  <1>4. ASSUME DeleteCollection(c) PROVE IInv' /\ Harmless
    BY <1>1, <1>4, ReadIsGood DEF DeleteCollection
  <1>. QED
    BY <1>2, <1>3, <1>4

(* Create, Update and Delete keep the invariant.                              *)
LEMMA WritesAreGood ==
    ASSUME IInv, NEW c \in Clients,
           \/ \E body \in Objects : Create(c, body)
           \/ Update(c)
           \/ \E name \in Names : Delete(c, name)
    PROVE  IInv' /\ Harmless
PROOF
  <1>1. HomeOf[c] \in Spaces /\ TRUE \in BOOLEAN /\ FALSE \in BOOLEAN
    BY FakeAssumption
  <1>2. ASSUME NEW body \in Objects, NEW replace \in BOOLEAN,
               WriteAndGet(c, Add(body, HomeOf[c], replace), body.name)
        PROVE  IInv' /\ Harmless
    BY <1>1, <1>2, AddIsSound, WriteAndGetIsGood
  <1>3. ASSUME NEW body \in Objects, Create(c, body) PROVE IInv' /\ Harmless
    BY <1>1, <1>2, <1>3 DEF Create
  <1>4. ASSUME Update(c) PROVE IInv' /\ Harmless
    <2>1. PICK o \in result[c].objs, app \in Apps, data \in Data :
            WriteAndGet(c, Add([o EXCEPT !.app = app, !.data = data], HomeOf[c], TRUE), o.name)
      BY <1>4 DEF Update
    <2>2. o \in Objects
      BY DEF IInv, TypeOK, Results
    <2>3. /\ [o EXCEPT !.app = app, !.data = data] \in Objects
          /\ [o EXCEPT !.app = app, !.data = data].name = o.name
      BY <2>2 DEF Objects
    <2>. QED
      BY <1>1, <1>2, <2>1, <2>3
  <1>5. ASSUME NEW name \in Names, Delete(c, name) PROVE IInv' /\ Harmless
    <2>1. Reply(c, Removed(HomeOf[c], name), {}) /\ {} \in SUBSET Objects
      BY <1>5 DEF Delete
    <2>. QED
      BY <2>1, RemovedIsSound, ReplyIsGood
  <1>. QED
    BY <1>3, <1>4, <1>5

(* Patch keeps it too: it writes back what it found under the key.            *)
LEMMA PatchIsGood ==
    ASSUME IInv, NEW c \in Clients, NEW name \in Names, NEW app \in Apps, NEW data \in Data,
           Patch(c, name, app, data)
    PROVE  IInv' /\ Harmless
PROOF
  <1>. DEFINE ns == HomeOf[c]
  <1>1. ns \in Spaces /\ "" \in Errors /\ {} \in SUBSET Objects
    BY FakeAssumption DEF Errors
  <1>2. CASE GetError(ns, name) # ""
    <2>1. Reply(c, Refused(""), {})
      BY <1>2 DEF Patch
    <2>. QED
      BY <1>1, <2>1, ReadIsGood
  <1>3. CASE GetError(ns, name) = ""
    <2>1. PICK o \in Found(ns, name) :
            LET merged == [o EXCEPT !.app = app, !.data = data]
            IN  Reply(c, Add(merged, ns, TRUE),
                      IF Add(merged, ns, TRUE).err = "" THEN {merged} ELSE {})
      BY <1>3 DEF Patch
    <2>. DEFINE merged == [o EXCEPT !.app = app, !.data = data]
                answer == Add(merged, ns, TRUE)
                objs == IF answer.err = "" THEN {merged} ELSE {}
    <2>2. o \in Objects
      BY InSpaceAreObjects DEF Found
    <2>3. merged \in Objects
      BY <2>2 DEF Objects
    <2>4. Reply(c, answer, objs)
      BY <2>1
    <2>. HIDE DEF merged
    <2>5. objs \in SUBSET Objects
      BY <2>3
    <2>6. Sound(answer, ns) /\ Bare(answer, ns)
      BY <1>1, <2>3, AddIsSound
    <2>. HIDE DEF answer, objs
    <2>. QED
      BY <2>4, <2>5, <2>6, ReplyIsGood
  <1>. QED
    BY <1>2, <1>3

-----------------------------------------------------------------------------
(* The watches *)

(* A new watch starts from what there is.                                     *)
LEMMA WatchIsGood ==
    ASSUME IInv, NEW c \in Clients, NEW w \in Watchers, Watch(c, w)
    PROVE  IInv' /\ Harmless
PROOF
  <1>. DEFINE ns == HomeOf[c]
  <1>1. /\ watching[w] = {} /\ watching' = [watching EXCEPT ![w] = {ns}]
        /\ seen' = [seen EXCEPT ![w] = InSpace(ns)]
        /\ UNCHANGED <<objects, chan, result, panicked>>
    BY DEF Watch
  <1>2. InSpace(ns) \in SUBSET Objects /\ ns \in Spaces
    BY InSpaceAreObjects, FakeAssumption
  <1>3. watching \in [Watchers -> {{}} \cup {{n} : n \in Spaces}]
        /\ seen \in [Watchers -> SUBSET Objects]
    BY DEF IInv, TypeOK
  <1>4. watching' \in [Watchers -> {{}} \cup {{n} : n \in Spaces}]
        /\ seen' \in [Watchers -> SUBSET Objects]
    <2>1. {ns} \in {{}} \cup {{n} : n \in Spaces}
      BY <1>2, Zenon
    <2>. HIDE DEF ns
    <2>. QED
      BY <1>1, <1>2, <1>3, <2>1
  <1>5. TypeOK' /\ KeysAreUnique'
    BY <1>1, <1>4 DEF IInv, TypeOK, KeysAreUnique
  <1>6. chan[w] = <<>>
    BY <1>1 DEF IInv, IdleIsEmpty
  <1>7. ASSUME NEW v \in Watchers, NEW n \in watching'[v]
        PROVE  Replay(seen'[v], chan'[v]) = InSpace(n)'
    <2>1. InSpace(n)' = InSpace(n)
      BY <1>1 DEF InSpace
    <2>2. CASE v = w
      <3>1. n = ns /\ seen'[v] = InSpace(ns) /\ chan'[v] = <<>>
        BY <1>1, <1>3, <1>6, <1>7, <2>2
      <3>2. Replay(InSpace(ns), <<>>) = InSpace(ns)
        BY <1>2 DEF Replay
      <3>. QED
        BY <2>1, <3>1, <3>2
    <2>3. CASE v # w
      <3>1. n \in watching[v] /\ seen'[v] = seen[v] /\ chan'[v] = chan[v]
        BY <1>1, <1>3, <1>7, <2>3
      <3>. QED
        BY <2>1, <3>1 DEF IInv, WatchesKeepUp
    <2>. QED
      BY <2>2, <2>3
  <1>8. IdleIsEmpty'
    BY <1>1, <1>3 DEF IInv, IdleIsEmpty
  <1>. QED
    BY <1>1, <1>5, <1>7, <1>8 DEF IInv, WatchesKeepUp, Harmless

(* A reader that takes an event knows more and has less to come.              *)
LEMMA ReceiveIsGood ==
    ASSUME IInv, NEW w \in Watchers, Receive(w)
    PROVE  IInv' /\ Harmless
PROOF
  <1>. DEFINE known == Applied(seen[w], Head(chan[w]))
              rest == Tail(chan[w])
  <1>1. /\ chan[w] # <<>> /\ seen' = [seen EXCEPT ![w] = known]
        /\ chan' = [chan EXCEPT ![w] = rest]
        /\ UNCHANGED <<objects, watching, result, panicked>>
    BY DEF Receive
  <1>2. /\ chan \in [Watchers -> Seq(Events)] /\ seen \in [Watchers -> SUBSET Objects]
        /\ \A v \in Watchers : Len(chan[v]) <= ChanSize
    BY DEF IInv, TypeOK
  <1>3. chan[w] \in Seq(Events) /\ seen[w] \in SUBSET Objects
    BY <1>2
  <1>4. known \in SUBSET Objects /\ Replay(known, rest) = Replay(seen[w], chan[w])
    BY <1>1, <1>3, ReplayFirst
  <1>5. rest \in Seq(Events) /\ Len(rest) <= ChanSize
    <2>1. Len(chan[w]) \in Nat \ {0} /\ Len(rest) = Len(chan[w]) - 1 /\ rest \in Seq(Events)
      BY <1>1, <1>3
    <2>2. Len(chan[w]) <= ChanSize /\ ChanSize \in Nat
      BY <1>2, FakeAssumption
    <2>. QED
      BY <2>1, <2>2
  <1>. HIDE DEF known, rest
  <1>6. /\ chan' \in [Watchers -> Seq(Events)] /\ seen' \in [Watchers -> SUBSET Objects]
        /\ \A v \in Watchers : Len(chan'[v]) <= ChanSize
    BY <1>1, <1>2, <1>4, <1>5
  <1>7. TypeOK' /\ KeysAreUnique'
    BY <1>1, <1>6 DEF IInv, TypeOK, KeysAreUnique
  <1>8. ASSUME NEW v \in Watchers, NEW n \in watching'[v]
        PROVE  Replay(seen'[v], chan'[v]) = InSpace(n)'
    <2>1. InSpace(n)' = InSpace(n) /\ Replay(seen[v], chan[v]) = InSpace(n)
      BY <1>1 DEF InSpace, IInv, WatchesKeepUp
    <2>2. CASE v = w
      BY <1>1, <1>2, <1>4, <2>1, <2>2
    <2>3. CASE v # w
      BY <1>1, <1>2, <2>1, <2>3
    <2>. QED
      BY <2>2, <2>3
  <1>9. IdleIsEmpty'
    <2>1. watching[w] # {}
      BY <1>1 DEF IInv, IdleIsEmpty
    <2>. QED
      BY <1>1, <1>2, <2>1 DEF IInv, IdleIsEmpty
  <1>. QED
    BY <1>1, <1>7, <1>8, <1>9 DEF IInv, WatchesKeepUp, Harmless

(* A watch that is stopped forgets everything.                                *)
LEMMA StopIsGood ==
    ASSUME IInv, NEW w \in Watchers, Stop(w)
    PROVE  IInv' /\ Harmless
PROOF
  <1>1. /\ watching' = [watching EXCEPT ![w] = {}] /\ chan' = [chan EXCEPT ![w] = <<>>]
        /\ seen' = [seen EXCEPT ![w] = {}] /\ UNCHANGED <<objects, result, panicked>>
    BY DEF Stop
  <1>2. /\ watching \in [Watchers -> {{}} \cup {{n} : n \in Spaces}]
        /\ chan \in [Watchers -> Seq(Events)] /\ seen \in [Watchers -> SUBSET Objects]
        /\ \A v \in Watchers : Len(chan[v]) <= ChanSize
    BY DEF IInv, TypeOK
  <1>3. {} \in {{}} \cup {{n} : n \in Spaces}
    BY Zenon
  <1>4. watching' \in [Watchers -> {{}} \cup {{n} : n \in Spaces}]
    BY <1>1, <1>2, <1>3
  <1>5. /\ chan' \in [Watchers -> Seq(Events)] /\ seen' \in [Watchers -> SUBSET Objects]
        /\ \A v \in Watchers : Len(chan'[v]) <= ChanSize
    BY <1>1, <1>2, FakeAssumption
  <1>6. TypeOK' /\ KeysAreUnique'
    BY <1>1, <1>4, <1>5 DEF IInv, TypeOK, KeysAreUnique
  <1>7. ASSUME NEW v \in Watchers, NEW n \in watching'[v]
        PROVE  Replay(seen'[v], chan'[v]) = InSpace(n)'
    <2>1. v # w
      BY <1>1, <1>2, <1>7
    <2>2. n \in watching[v] /\ seen'[v] = seen[v] /\ chan'[v] = chan[v]
      BY <1>1, <1>2, <1>7, <2>1
    <2>3. InSpace(n)' = InSpace(n)
      BY <1>1 DEF InSpace
    <2>. QED
      BY <2>2, <2>3 DEF IInv, WatchesKeepUp
  <1>8. IdleIsEmpty'
    BY <1>1, <1>2 DEF IInv, IdleIsEmpty
  <1>. QED
    BY <1>1, <1>6, <1>7, <1>8 DEF IInv, WatchesKeepUp, Harmless

-----------------------------------------------------------------------------
(* The theorems *)

(* The invariant holds at the start, with an empty tracker or one seed ...    *)
LEMMA InitIsGood == Init => IInv
PROOF
  <1>. SUFFICES ASSUME Init PROVE IInv
    OBVIOUS
  <1>1. PICK o \in Seeds : objects \in {<<>>, <<o>>}
    BY DEF Init
  <1>2. o \in Objects
    BY FakeAssumption
  <1>3. objects \in Seq(Objects) /\ \A i, j \in DOMAIN objects : i = j
    <2>1. CASE objects = <<>>
      <3>1. <<>> \in Seq(Objects) /\ DOMAIN objects = {}
        BY <2>1
      <3>. QED
        BY <2>1, <3>1
    <2>2. CASE objects = <<o>>
      <3>1. <<o>> \in Seq(Objects)
        BY <1>2
      <3>2. Len(objects) = 1 /\ DOMAIN objects = 1 .. Len(objects)
        BY <2>2, <3>1
      <3>3. \A i, j \in DOMAIN objects : i = j
        BY <3>2
      <3>. QED
        BY <2>2, <3>1, <3>3
    <2>. QED
      BY <1>1, <2>1, <2>2
  <1>4. /\ watching = [w \in Watchers |-> {}] /\ chan = [w \in Watchers |-> <<>>]
        /\ seen = [w \in Watchers |-> {}] /\ panicked = FALSE
        /\ result = [c \in Clients |-> [err |-> "", objs |-> {}]]
    BY DEF Init
  <1>5. watching \in [Watchers -> {{}} \cup {{n} : n \in Spaces}]
    <2>1. {} \in {{}} \cup {{n} : n \in Spaces}
      BY Zenon
    <2>. QED
      BY <1>4, <2>1
  <1>6. chan \in [Watchers -> Seq(Events)] /\ \A w \in Watchers : Len(chan[w]) <= ChanSize
    <2>1. <<>> \in Seq(Events) /\ Len(<<>>) = 0
      OBVIOUS
    <2>2. 0 <= ChanSize
      BY FakeAssumption
    <2>3. \A w \in Watchers : chan[w] = <<>>
      BY <1>4, Zenon
    <2>4. chan \in [Watchers -> Seq(Events)]
      BY <1>4, <2>1, Zenon
    <2>5. ASSUME NEW w \in Watchers PROVE Len(chan[w]) <= ChanSize
      <3>1. Len(chan[w]) = 0
        BY <2>1, <2>3, Zenon
      <3>. QED
        BY <3>1, <2>2
    <2>. QED
      BY <2>4, <2>5
  <1>7. result \in [Clients -> Results]
    BY <1>4 DEF Results, Errors
  <1>8. seen \in [Watchers -> SUBSET Objects] /\ panicked \in BOOLEAN
    BY <1>4
  <1>9. TypeOK
    BY <1>3, <1>5, <1>6, <1>7, <1>8 DEF TypeOK
  <1>10. KeysAreUnique /\ WatchesKeepUp /\ IdleIsEmpty
    BY <1>3, <1>4 DEF KeysAreUnique, WatchesKeepUp, IdleIsEmpty
  <1>. QED
    BY <1>9, <1>10 DEF IInv

(* ... it is kept by every step, and no step of a handle of a namespace that  *)
(* fails changes anything ...                                                 *)
LEMMA StepIsGood == IInv /\ [Next]_vars => IInv' /\ (Harmless \/ UNCHANGED vars)
PROOF
  <1>1. ASSUME IInv, NEW c \in Clients, ClientStep(c) PROVE IInv' /\ Harmless
    BY <1>1, ReadsAreGood, WritesAreGood, PatchIsGood, WatchIsGood DEF ClientStep
  <1>2. ASSUME IInv, UNCHANGED vars PROVE IInv'
    BY <1>2 DEF vars, IInv, TypeOK, KeysAreUnique, WatchesKeepUp, IdleIsEmpty, InSpace
  <1>. QED
    BY <1>1, <1>2, ReceiveIsGood, StopIsGood DEF Next

(* ... and so it always holds.                                                *)
LEMMA IInvHolds == Spec => []IInv
BY InitIsGood, StepIsGood, PTL DEF Spec

(* Everything keeps its type, the objects of the tracker included.            *)
THEOREM TypeCorrect == Spec => []TypeOK
BY IInvHolds, PTL DEF IInv

(* The tracker never has two objects of one namespace and name, whichever     *)
(* handles create, update, patch and delete: add looks for the key first, and *)
(* the namespace of the request becomes that of the object.                   *)
THEOREM KeysStayUnique == Spec => []KeysAreUnique
BY IInvHolds, PTL DEF IInv

(* A watch, of a namespace or of all, misses no change: with the events in    *)
(* its channel its reader knows what the tracker holds, for any number of     *)
(* watches and any size of the channel, as long as no channel overflowed;     *)
(* an overflow ends the test with no call half done.                          *)
THEOREM WatchesMissNothing == Spec => []WatchesKeepUp
BY IInvHolds, PTL DEF IInv

(* A call through the handle of a namespace that returns an error has no      *)
(* effect: only a handle without namespace can write and then fail to find    *)
(* what it wrote.                                                             *)
THEOREM ErrorsAreHarmless == Spec => ErrorsChangeNothing
PROOF
  <1>1. IInv /\ [Next]_vars => [Harmless]_vars
    BY StepIsGood
  <1>. QED
    BY <1>1, IInvHolds, PTL DEF Spec, ErrorsChangeNothing, Harmless

=============================================================================
