---------------------------- MODULE ProcessProofs ----------------------------
(***************************************************************************)
(* Proofs about one process of the receive adapter, for every set of       *)
(* shards, every lineage and every bound.                                  *)
(***************************************************************************)
EXTENDS AdapterProcess, FiniteSetTheorems, TLAPS

(* The values a consumer's place takes. *)
PCs == {"parent", "read", "count", "select", "release", "lost", "done", "gone"}

(* The type invariant, in the groups the actions leave unchanged as one. *)
MainType ==
  /\ env \in Containers /\ main \in Places
  /\ signals \in 0..MaxSignals /\ handler \in -1..1 /\ pending \in 0..2
  /\ stopCh \in BOOLEAN /\ sigs \in -1..1
ExitType == exit \in {"none", "0", "1", "2", "killed"}
LoopType ==
  /\ loop \in Loops /\ gained \in Shards \cup {NoShard} /\ held \subseteq Shards
  /\ consumers \in Seq(Consumers) /\ Len(consumers) <= MaxConsumers
  /\ waitGroup \in Nat
  /\ stop \in BOOLEAN /\ checkpoint \in [Shards -> {"none", "some", "end"}]
FlushType ==
  /\ ready \in BOOLEAN /\ monitor \in {"off", "walk", "last", "done"}
  /\ monitorStop \in BOOLEAN
  /\ locked \in Shards \cup {NoShard} /\ sent \in Nat
CountType ==
  /\ todo \subseteq known /\ known \subseteq Shards
  /\ metrics \in [Shards -> [held : Int, processed : Nat]]
  /\ counted \in [Shards -> Nat] /\ published \in [Shards -> Nat]
  /\ repeated \in [Shards -> Nat]

(* The loop starts when main() has come to its end, it holds the shard it  *)
(* has leased until the consumer of it is started, and it leases nothing   *)
(* any more once it has stopped the monitoring service.                    *)
LoopPart ==
  /\ main # "wait" => loop = "off"
  /\ loop = "gained" <=> gained # NoShard
  /\ loop = "gained" => Len(consumers) < MaxConsumers
  /\ monitorStop => loop \in {"monitor", "done"}

(* The request a flush has built is the count of the metric it has locked. *)
FlushPart ==
  /\ locked = NoShard => sent = 0
  /\ locked # NoShard => sent = metrics[locked].processed

(* What relates the counters to the consumers and to each other. *)
Sums ==
  /\ FlushPart /\ WaitGroupCounts /\ LeasesHeldCountsConsumers /\ NoCountIsLost
  /\ MonitorOutlivesConsumers

Types == MainType /\ ExitType /\ LoopType /\ FlushType /\ CountType

(* The inductive invariant. *)
IInv == Types /\ LoopPart /\ Sums

(* What a process has in memory before it starts, and once it has ended. *)
Fresh ==
  /\ env \in Containers /\ checkpoint \in [Shards -> {"none", "some", "end"}]
  /\ ExitType
  /\ main = "main" /\ signals = 0
  /\ handler = -1 /\ pending = 0 /\ stopCh = FALSE /\ sigs = -1
  /\ loop = "off" /\ gained = NoShard /\ held = {} /\ consumers = << >>
  /\ waitGroup = 0 /\ stop = FALSE
  /\ ready = FALSE /\ monitor = "off" /\ monitorStop = FALSE
  /\ todo = {} /\ locked = NoShard /\ sent = 0
  /\ metrics = [s \in Shards |-> [held |-> 0, processed |-> 0]] /\ known = {}
  /\ counted = [s \in Shards |-> 0] /\ published = [s \in Shards |-> 0]
  /\ repeated = [s \in Shards |-> 0]

(* The groups make up the type invariant. *)
LEMMA TypesAreTypeOK == Types <=> TypeOK
BY DEF Types, TypeOK, MainType, ExitType, LoopType, FlushType, CountType

(* An empty memory satisfies every part of the invariant. *)
LEMMA FreshIsGood == Fresh => IInv
PROOF
  <1>. SUFFICES ASSUME Fresh PROVE IInv
    OBVIOUS
  <1>1. MainType
    <2>1. signals \in 0..MaxSignals /\ handler \in -1..1 /\ pending \in 0..2 /\ sigs \in -1..1
      BY ProcessAssumption DEF Fresh
    <2>. QED
      BY <2>1, Zenon DEF Fresh, MainType, Places
  <1>2. LoopType
    <2>1. consumers \in Seq(Consumers) /\ Len(consumers) = 0
      BY DEF Fresh
    <2>2. MaxConsumers \in Nat
      BY ProcessAssumption
    <2>3. /\ loop = "off" /\ gained = NoShard /\ held = {} /\ waitGroup = 0 /\ stop = FALSE
          /\ checkpoint \in [Shards -> {"none", "some", "end"}]
      BY Zenon DEF Fresh
    <2>4. Len(consumers) <= MaxConsumers /\ waitGroup \in Nat
      BY <2>1, <2>2, <2>3
    <2>. QED
      BY <2>1, <2>3, <2>4, Zenon DEF LoopType, Loops
  <1>3. FlushType
    BY DEF Fresh, FlushType
  <1>4. CountType
    <2>1. /\ metrics \in [Shards -> [held : Int, processed : Nat]]
          /\ counted \in [Shards -> Nat] /\ published \in [Shards -> Nat]
          /\ repeated \in [Shards -> Nat]
      BY DEF Fresh
    <2>. QED
      BY <2>1 DEF Fresh, CountType
  <1>5. LoopPart /\ FlushPart
    BY DEF Fresh, LoopPart, FlushPart
  <1>6. Children = {}
    BY DEF Fresh, Children
  <1>7. WaitGroupCounts
    BY <1>6, FS_EmptySet DEF Fresh, WaitGroupCounts
  <1>8. LeasesHeldCountsConsumers
    <2>. SUFFICES ASSUME NEW s \in Shards
                  PROVE  metrics[s].held =
                           Cardinality({i \in Children : consumers[i].shard = s /\ consumers[i].pc # "done"})
                           + (IF gained = s THEN 1 ELSE 0)
      BY DEF LeasesHeldCountsConsumers
    <2>1. {i \in Children : consumers[i].shard = s /\ consumers[i].pc # "done"} = {}
      BY <1>6
    <2>2. metrics[s].held = 0 /\ gained # s
      BY ProcessAssumption DEF Fresh
    <2>. QED
      BY <2>1, <2>2, FS_EmptySet
  <1>9. NoCountIsLost
    BY DEF Fresh, NoCountIsLost
  <1>10. MonitorOutlivesConsumers
    BY <1>6 DEF Fresh, MonitorOutlivesConsumers
  <1>11. ExitType
    BY DEF Fresh
  <1>. QED
    BY <1>1, <1>2, <1>3, <1>4, <1>5, <1>7, <1>8, <1>9, <1>10, <1>11, Zenon DEF IInv, Types, Sums

(* The process begins with an empty memory. *)
LEMMA InitIsGood == Init => IInv
PROOF
  <1>1. Init => Fresh
    BY ProcessAssumption DEF Init, Fresh, ExitType
  <1>. QED
    BY <1>1, FreshIsGood

(* A process that ends loses its memory. *)
LEMMA EndIsGood ==
  ASSUME IInv, NEW code \in {"0", "1", "2", "killed"}, Ends(code)
  PROVE  IInv'
PROOF
  <1>1. Fresh'
    BY DEF Ends, Fresh, IInv, Types, MainType, LoopType, ExitType
  <1>2. Fresh' => IInv'
    BY FreshIsGood, PTL
  <1>. QED
    BY <1>1, <1>2

---------------------------------------------------------------------------
(* The two ways a balance of counts changes: a count is added on both      *)
(* sides, or what is published moves against what is kept or repeated.     *)
LEMMA CountBalance ==
  ASSUME NEW c \in Nat, NEW r \in Nat, NEW p \in Nat, NEW m \in Nat, NEW n \in Nat,
         c + r = p + m
  PROVE  (c + n) + r = p + (m + n)
OBVIOUS

LEMMA PublishBalance ==
  ASSUME NEW c \in Nat, NEW r \in Nat, NEW p \in Nat, NEW m \in Nat,
         NEW rn \in Nat, NEW pn \in Nat, NEW mn \in Nat,
         c + r = p + m, pn + mn + r = p + m + rn
  PROVE  c + rn = pn + mn
OBVIOUS

---------------------------------------------------------------------------
(* Steps that leave the consumers and the counters alone. *)

(* The sums depend on the loop only through its being about to add. *)
LEMMA SumsUnchanged ==
  ASSUME Sums, (loop' = "started") <=> (loop = "started"),
         UNCHANGED <<consumers, waitGroup, gained, metrics, counted, published, repeated,
                     locked, sent, monitorStop>>
  PROVE  Sums'
PROOF
  <1>1. Children' = Children
    BY DEF Children
  <1>2. FlushPart' /\ NoCountIsLost' /\ MonitorOutlivesConsumers'
    BY <1>1 DEF Sums, FlushPart, NoCountIsLost, MonitorOutlivesConsumers
  <1>3. WaitGroupCounts'
    BY <1>1 DEF Sums, WaitGroupCounts
  <1>4. LeasesHeldCountsConsumers'
    BY <1>1 DEF Sums, LeasesHeldCountsConsumers
  <1>. QED
    BY <1>2, <1>3, <1>4 DEF Sums

(* A step that only moves main() on, or the signals. *)
LEMMA WorkerUnchanged ==
  ASSUME IInv, MainType', UNCHANGED <<exit, workerVars>>,
         main' = main \/ (main # "wait" /\ main' # "wait")
  PROVE  IInv'
PROOF
  <1>1. Types'
    BY DEF IInv, Types, ExitType, LoopType, FlushType, CountType, workerVars,
           loopVars, flushVars, countVars
  <1>2. LoopPart'
    BY DEF IInv, LoopPart, workerVars, loopVars, flushVars
  <1>3. Sums'
    BY SumsUnchanged DEF IInv, workerVars, loopVars, flushVars, countVars
  <1>. QED
    BY <1>1, <1>2, <1>3 DEF IInv

(* main() and Adapter.Start. *)
LEMMA MainStepIsGood == ASSUME IInv, MainStep PROVE IInv'
PROOF
  <1>1. ASSUME NEW code \in {"0", "1", "2", "killed"}, Ends(code)
        PROVE  IInv'
    BY <1>1, EndIsGood
  <1>2. ASSUME NEW place \in Places \ {"wait"}, main # "wait", GoesTo(place), UNCHANGED workerVars,
               sigs' = sigs \/ sigs' = 0
        PROVE  IInv'
    <2>1. MainType'
      BY <1>2 DEF IInv, Types, MainType, GoesTo
    <2>. QED
      BY <1>2, <2>1, WorkerUnchanged DEF GoesTo
  <1>3. CASE Setup
    <2>1. CASE ~env.required /\ Ends("1")
      BY <2>1, <1>1
    <2>2. CASE /\ env.required /\ main' = "client" /\ handler' = 0
               /\ UNCHANGED <<env, exit, signals, pending, stopCh, sigs, workerVars>>
      <3>1. MainType'
        BY <2>2 DEF IInv, Types, MainType, Places
      <3>2. main = "main"
        BY <1>3 DEF Setup
      <3>. QED
        BY <2>2, <3>1, <3>2, WorkerUnchanged
    <2>. QED
      BY <1>3, <2>1, <2>2 DEF Setup
  <1>4. CASE InitClient \/ Session \/ DescribeStream \/ NewWorker \/ InitCheckpointer
    <2>1. {"session", "stream", "worker", "metrics", "service"} \subseteq Places \ {"wait"}
      BY DEF Places
    <2>2. CASE InitClient \/ Session
      BY <2>1, <2>2, <1>1, <1>2 DEF InitClient, Session
    <2>3. CASE DescribeStream \/ NewWorker
      BY <2>1, <2>3, <1>1, <1>2 DEF DescribeStream, NewWorker
    <2>4. CASE InitCheckpointer
      BY <2>1, <2>4, <1>1, <1>2 DEF InitCheckpointer
    <2>. QED
      BY <1>4, <2>2, <2>3, <2>4
  <1>5. CASE InitMetrics
    <2>1. Types'
      BY <1>5 DEF InitMetrics, GoesTo, Places, IInv, Types, MainType, ExitType, LoopType, FlushType,
                  CountType, loopVars, flushVars, countVars
    <2>2. LoopPart'
      BY <1>5 DEF InitMetrics, GoesTo, IInv, LoopPart, loopVars, flushVars
    <2>3. Sums'
      BY <1>5, SumsUnchanged DEF InitMetrics, IInv, loopVars, flushVars, countVars
    <2>. QED
      BY <2>1, <2>2, <2>3 DEF IInv
  <1>6. CASE StartWorker
    <2>1. CASE ~ready /\ Ends("2")
      BY <2>1, <1>1
    <2>2. CASE /\ ready /\ GoesTo("wait")
               /\ monitor' = "walk" /\ loop' = "round"
               /\ UNCHANGED <<sigs, gained, held, consumers, waitGroup, stop, checkpoint, ready,
                              monitorStop, todo, locked, sent, countVars>>
      <3>0. main = "service" /\ loop = "off"
        BY <1>6 DEF StartWorker, IInv, LoopPart
      <3>1. Types'
        BY <2>2 DEF GoesTo, Places, Loops, IInv, Types, MainType, ExitType, LoopType, FlushType,
                    CountType, countVars
      <3>2. LoopPart'
        BY <2>2, <3>0 DEF GoesTo, IInv, LoopPart
      <3>3. Sums'
        BY <2>2, <3>0, SumsUnchanged DEF IInv, countVars
      <3>. QED
        BY <3>1, <3>2, <3>3 DEF IInv
    <2>. QED
      BY <1>6, <2>1, <2>2 DEF StartWorker
  <1>7. CASE Return
    BY <1>7, <1>1 DEF Return
  <1>. QED
    BY <1>3, <1>4, <1>5, <1>6, <1>7 DEF MainStep

(* The signals and their handler. *)
LEMMA SignalsAreGood == ASSUME IInv, Signal \/ Handle PROVE IInv'
PROOF
  <1>1. CASE handler = -1 /\ Ends("killed")
    BY <1>1, EndIsGood
  <1>2. CASE handler = 1 /\ Ends("1")
    BY <1>2, EndIsGood
  <1>3. CASE /\ signals < MaxSignals /\ handler >= 0 /\ signals' = signals + 1
             /\ pending' = IF pending < 2 THEN pending + 1 ELSE pending
             /\ sigs' = IF sigs = 0 THEN 1 ELSE sigs
             /\ UNCHANGED <<env, main, handler, stopCh, exit, workerVars>>
    <2>1. signals' \in 0..MaxSignals
      BY <1>3, ProcessAssumption DEF IInv, Types, MainType
    <2>2. pending' \in 0..2 /\ sigs' \in -1..1
      BY <1>3 DEF IInv, Types, MainType
    <2>3. MainType'
      BY <1>3, <2>1, <2>2 DEF IInv, Types, MainType
    <2>. QED
      BY <1>3, <2>3, WorkerUnchanged
  <1>4. CASE /\ pending > 0
             /\ handler = 0 /\ handler' = 1 /\ pending' = pending - 1 /\ stopCh' = TRUE
             /\ UNCHANGED <<env, main, signals, sigs, exit, workerVars>>
    <2>1. MainType'
      BY <1>4 DEF IInv, Types, MainType
    <2>. QED
      BY <1>4, <2>1, WorkerUnchanged
  <1>. QED
    BY <1>1, <1>2, <1>3, <1>4 DEF Signal, Handle

---------------------------------------------------------------------------
(* The counters.  Bearers(s) is the set that the lease metric counts. *)

Bearers(s) == {i \in Children : consumers[i].shard = s /\ consumers[i].pc # "done"}

(* The sets that are counted are finite. *)
LEMMA ChildrenAreFinite ==
  ASSUME consumers \in Seq(Consumers)
  PROVE  /\ IsFiniteSet(Children) /\ Cardinality(Children) \in Nat
         /\ \A s : IsFiniteSet(Bearers(s)) /\ Cardinality(Bearers(s)) \in Nat
PROOF
  <1>1. DOMAIN consumers = 1..Len(consumers) /\ Len(consumers) \in Nat
    OBVIOUS
  <1>2. IsFiniteSet(1..Len(consumers))
    BY <1>1, FS_Interval
  <1>3. Children \in SUBSET (1..Len(consumers))
    BY <1>1 DEF Children
  <1>4. IsFiniteSet(Children)
    BY <1>2, <1>3, FS_Subset
  <1>5. ASSUME NEW s PROVE IsFiniteSet(Bearers(s))
    <2>1. Bearers(s) \in SUBSET Children
      BY DEF Bearers
    <2>. QED
      BY <1>4, <2>1, FS_Subset
  <1>. QED
    BY <1>4, <1>5, FS_CardinalityType

(* A consumer is of a shard. *)
LEMMA ConsumersAreTyped ==
  ASSUME LoopType, NEW i \in DOMAIN consumers
  PROVE  /\ consumers \in Seq(Consumers) /\ consumers[i] \in Consumers
         /\ consumers[i].shard \in Shards
PROOF
  <1>1. consumers \in Seq(Consumers)
    BY DEF LoopType
  <1>2. consumers[i] \in Consumers
    BY <1>1
  <1>. QED
    BY <1>1, <1>2 DEF Consumers

(* Moving a consumer changes its place and nothing else. *)
LEMMA MovesTo ==
  ASSUME consumers \in Seq(Consumers), NEW i \in DOMAIN consumers, NEW pc \in PCs, Moves(i, pc)
  PROVE  /\ consumers' \in Seq(Consumers) /\ Len(consumers') = Len(consumers)
         /\ DOMAIN consumers' = DOMAIN consumers
         /\ \A j \in DOMAIN consumers :
              /\ consumers'[j].shard = consumers[j].shard
              /\ consumers'[j].pc = IF j = i THEN pc ELSE consumers[j].pc
PROOF
  <1>1. consumers[i] \in Consumers
    OBVIOUS
  <1>2. consumers' = [consumers EXCEPT ![i] = [consumers[i] EXCEPT !.pc = pc]]
    BY DEF Moves
  <1>3. [consumers[i] EXCEPT !.pc = pc] \in Consumers
    BY <1>1 DEF Consumers, PCs
  <1>. QED
    BY <1>1, <1>2, <1>3 DEF Consumers

(* ReadBatch also notes whether the batch is the last of the shard. *)
LEMMA ReadMoves ==
  ASSUME consumers \in Seq(Consumers), NEW i \in DOMAIN consumers, NEW last \in BOOLEAN,
         consumers' = [consumers EXCEPT ![i].pc = "count", ![i].last = last]
  PROVE  /\ consumers' \in Seq(Consumers) /\ Len(consumers') = Len(consumers)
         /\ DOMAIN consumers' = DOMAIN consumers
         /\ \A j \in DOMAIN consumers :
              /\ consumers'[j].shard = consumers[j].shard
              /\ consumers'[j].pc = IF j = i THEN "count" ELSE consumers[j].pc
PROOF
  <1>1. consumers[i] \in Consumers
    OBVIOUS
  <1>2. consumers' = [consumers EXCEPT ![i] = [consumers[i] EXCEPT !.pc = "count", !.last = last]]
    BY <1>1 DEF Consumers
  <1>3. [consumers[i] EXCEPT !.pc = "count", !.last = last] \in Consumers
    BY <1>1 DEF Consumers
  <1>. QED
    BY <1>1, <1>2, <1>3 DEF Consumers

(* A counter keeps its type and changes by what is added to it; the other  *)
(* counters stay as they are.                                              *)
LEMMA BumpHeld ==
  ASSUME CountType, NEW s \in Shards, NEW n \in Int, Bump(s, "held", n)
  PROVE  /\ metrics' \in [Shards -> [held : Int, processed : Nat]]
         /\ known' \subseteq Shards /\ todo' \subseteq known'
         /\ locked # s
         /\ \A t \in Shards :
              /\ metrics'[t].held = metrics[t].held + (IF t = s THEN n ELSE 0)
              /\ metrics'[t].processed = metrics[t].processed
PROOF
  <1>1. metrics \in [Shards -> [held : Int, processed : Nat]]
    BY DEF CountType
  <1>2. metrics[s].held \in Int /\ metrics[s].processed \in Nat
    BY <1>1
  <1>3. metrics' = [metrics EXCEPT ![s] = [metrics[s] EXCEPT !.held = metrics[s].held + n]]
    BY DEF Bump
  <1>4. [metrics[s] EXCEPT !.held = metrics[s].held + n] \in [held : Int, processed : Nat]
    BY <1>1, <1>2
  <1>5. metrics' \in [Shards -> [held : Int, processed : Nat]]
    BY <1>1, <1>3, <1>4
  <1>6. known' \subseteq Shards /\ todo' \subseteq known' /\ locked # s
    BY DEF Bump, CountType, Free
  <1>7. ASSUME NEW t \in Shards
        PROVE  /\ metrics'[t].held = metrics[t].held + (IF t = s THEN n ELSE 0)
               /\ metrics'[t].processed = metrics[t].processed
    <2>1. metrics[t] \in [held : Int, processed : Nat] /\ metrics[t].held \in Int
      BY <1>1
    <2>. QED
      BY <1>1, <1>2, <1>3, <2>1
  <1>. QED
    BY <1>5, <1>6, <1>7

(* Counting records leaves every other shard's count as it was.          *)
LEMMA BumpProcessed ==
  ASSUME CountType, NEW s \in Shards, NEW n \in Nat, Bump(s, "processed", n)
  PROVE  /\ metrics' \in [Shards -> [held : Int, processed : Nat]]
         /\ known' \subseteq Shards /\ todo' \subseteq known'
         /\ locked # s
         /\ \A t \in Shards :
              /\ metrics'[t].processed = metrics[t].processed + (IF t = s THEN n ELSE 0)
              /\ metrics'[t].held = metrics[t].held
PROOF
  <1>1. metrics \in [Shards -> [held : Int, processed : Nat]]
    BY DEF CountType
  <1>2. metrics[s].held \in Int /\ metrics[s].processed \in Nat
    BY <1>1
  <1>3. metrics' = [metrics EXCEPT ![s] = [metrics[s] EXCEPT !.processed = metrics[s].processed + n]]
    BY DEF Bump
  <1>4. [metrics[s] EXCEPT !.processed = metrics[s].processed + n] \in [held : Int, processed : Nat]
    BY <1>1, <1>2
  <1>5. metrics' \in [Shards -> [held : Int, processed : Nat]]
    BY <1>1, <1>3, <1>4
  <1>6. known' \subseteq Shards /\ todo' \subseteq known' /\ locked # s
    BY DEF Bump, CountType, Free
  <1>7. ASSUME NEW t \in Shards
        PROVE  /\ metrics'[t].processed = metrics[t].processed + (IF t = s THEN n ELSE 0)
               /\ metrics'[t].held = metrics[t].held
    <2>1. metrics[t] \in [held : Int, processed : Nat] /\ metrics[t].processed \in Nat
      BY <1>1
    <2>. QED
      BY <1>1, <1>2, <1>3, <2>1
  <1>. QED
    BY <1>5, <1>6, <1>7

---------------------------------------------------------------------------
(* The monitoring service. *)

(* A flush locks a metric, sends its count, and begins anew. *)
LEMMA MonitorStepIsGood == ASSUME IInv, MonitorStep PROVE IInv'
PROOF
  <1>. USE DEF IInv, Types
  <1>0. metrics \in [Shards -> [held : Int, processed : Nat]]
    BY DEF CountType
  <1>1. ASSUME NEW s \in Shards, LockMetric(s) PROVE IInv'
    <2>1. metrics[s].processed \in Nat
      BY <1>0
    <2>2. Types'
      BY <1>1, <2>1 DEF LockMetric, MainType, ExitType, LoopType, FlushType, CountType,
                        mainVars, loopVars, countVars
    <2>3. LoopPart'
      BY <1>1 DEF LockMetric, LoopPart, mainVars, loopVars
    <2>4. FlushPart'
      BY <1>1, ProcessAssumption DEF LockMetric, FlushPart, countVars
    <2>5. Children' = Children
      BY <1>1 DEF LockMetric, Children, loopVars
    <2>6. WaitGroupCounts' /\ LeasesHeldCountsConsumers'
      BY <1>1, <2>5 DEF LockMetric, Sums, WaitGroupCounts, LeasesHeldCountsConsumers,
                        loopVars, countVars
    <2>7. NoCountIsLost' /\ MonitorOutlivesConsumers'
      BY <1>1, <2>5 DEF LockMetric, Sums, NoCountIsLost, MonitorOutlivesConsumers, loopVars, countVars
    <2>. QED
      BY <2>2, <2>3, <2>4, <2>6, <2>7 DEF Sums
  <1>2. CASE PutMetricData
    <2>0. locked \in Shards /\ sent = metrics[locked].processed /\ sent \in Nat
      BY <1>2 DEF PutMetricData, FlushType, Sums, FlushPart
    <2>1. /\ metrics' \in [Shards -> [held : Int, processed : Nat]]
          /\ published' \in [Shards -> Nat] /\ repeated' \in [Shards -> Nat]
          /\ \A s \in Shards : /\ metrics'[s].held = metrics[s].held
                               /\ published'[s] + metrics'[s].processed + repeated[s]
                                    = published[s] + metrics[s].processed + repeated'[s]
      <3>0. /\ published \in [Shards -> Nat] /\ repeated \in [Shards -> Nat]
            /\ \A s \in Shards : /\ published[s] \in Nat /\ repeated[s] \in Nat
                                 /\ metrics[s].processed \in Nat
        BY <1>0 DEF CountType
      <3>1. CASE UNCHANGED <<metrics, published, repeated>>
        BY <3>0, <3>1, <1>0
      <3>2. CASE /\ metrics' = [metrics EXCEPT ![locked].processed = 0]
                 /\ published' = [published EXCEPT ![locked] = @ + sent]
                 /\ UNCHANGED repeated
        <4>1. metrics' = [metrics EXCEPT ![locked] = [metrics[locked] EXCEPT !.processed = 0]]
          BY <3>2
        <4>2. /\ metrics[locked] \in [held : Int, processed : Nat]
              /\ [metrics[locked] EXCEPT !.processed = 0] \in [held : Int, processed : Nat]
          BY <1>0, <2>0
        <4>3. metrics' \in [Shards -> [held : Int, processed : Nat]]
          BY <4>1, <4>2, <1>0
        <4>4. published' \in [Shards -> Nat]
          BY <3>0, <3>2, <2>0
        <4>5. ASSUME NEW s \in Shards
              PROVE  /\ metrics'[s].held = metrics[s].held
                     /\ published'[s] + metrics'[s].processed + repeated[s]
                          = published[s] + metrics[s].processed + repeated'[s]
          <5>1. CASE s = locked
            <6>1. metrics'[s].processed = 0 /\ metrics'[s].held = metrics[s].held
              BY <4>1, <4>2, <1>0, <5>1, <2>0
            <6>2. published'[s] = published[s] + metrics[s].processed
              BY <3>0, <3>2, <5>1, <2>0
            <6>. QED
              BY <6>1, <6>2, <3>0, <3>2
          <5>2. CASE s # locked
            BY <4>1, <3>0, <3>2, <1>0, <5>2
          <5>. QED
            BY <5>1, <5>2
        <4>. QED
          BY <3>0, <3>2, <4>3, <4>4, <4>5
      <3>3. CASE /\ published' = [published EXCEPT ![locked] = @ + sent]
                 /\ repeated' = [repeated EXCEPT ![locked] = @ + sent]
                 /\ UNCHANGED metrics
        <4>1. published' \in [Shards -> Nat] /\ repeated' \in [Shards -> Nat]
          BY <3>0, <3>3, <2>0
        <4>2. ASSUME NEW s \in Shards
              PROVE  published'[s] + metrics[s].processed + repeated[s]
                       = published[s] + metrics[s].processed + repeated'[s]
          <5>1. /\ published'[s] = published[s] + (IF s = locked THEN sent ELSE 0)
                /\ repeated'[s] = repeated[s] + (IF s = locked THEN sent ELSE 0)
            BY <3>0, <3>3, <2>0
          <5>. QED
            BY <5>1, <3>0, <2>0
        <4>. QED
          BY <3>3, <4>1, <4>2, <1>0
      <3>. QED
        BY <1>2, <3>1, <3>2, <3>3 DEF PutMetricData
    <2>2. MainType' /\ ExitType' /\ LoopType'
      <3>1. UNCHANGED <<mainVars, exit, loopVars>>
        BY <1>2 DEF PutMetricData
      <3>2. MainType' /\ ExitType'
        BY <3>1 DEF MainType, ExitType, mainVars
      <3>3. LoopType'
        BY <3>1 DEF LoopType, loopVars
      <3>. QED
        BY <3>2, <3>3
    <2>3. FlushType'
      BY <1>2 DEF PutMetricData, FlushType
    <2>4. CountType'
      BY <1>2, <2>1 DEF PutMetricData, CountType
    <2>5. LoopPart' /\ FlushPart'
      BY <1>2 DEF PutMetricData, LoopPart, FlushPart, mainVars, loopVars
    <2>6. Children' = Children
      BY <1>2 DEF PutMetricData, Children, loopVars
    <2>7. WaitGroupCounts' /\ MonitorOutlivesConsumers'
      BY <1>2, <2>6 DEF PutMetricData, Sums, WaitGroupCounts, MonitorOutlivesConsumers, loopVars
    <2>8. LeasesHeldCountsConsumers'
      <3>1. consumers' = consumers /\ gained' = gained
        BY <1>2 DEF PutMetricData, loopVars
      <3>2. LeasesHeldCountsConsumers
        BY DEF Sums
      <3>. HIDE DEF IInv, Types
      <3>. QED
        BY <2>1, <2>6, <3>1, <3>2 DEF LeasesHeldCountsConsumers
    <2>9. NoCountIsLost'
      <3>. SUFFICES ASSUME NEW s \in Shards
                    PROVE  counted'[s] + repeated'[s] = published'[s] + metrics'[s].processed
        BY DEF NoCountIsLost
      <3>1. counted[s] + repeated[s] = published[s] + metrics[s].processed /\ counted'[s] = counted[s]
        BY <1>2 DEF PutMetricData, Sums, NoCountIsLost
      <3>2. /\ counted[s] \in Nat /\ published[s] \in Nat /\ repeated[s] \in Nat
            /\ metrics[s].processed \in Nat
        BY <1>0 DEF CountType
      <3>3. /\ published'[s] \in Nat /\ repeated'[s] \in Nat /\ metrics'[s].processed \in Nat
            /\ published'[s] + metrics'[s].processed + repeated[s]
                 = published[s] + metrics[s].processed + repeated'[s]
        BY <2>1
      <3>. HIDE DEF IInv, Types
      <3>. QED
        BY <3>1, <3>2, <3>3, PublishBalance
    <2>. QED
      BY <2>2, <2>3, <2>4, <2>5, <2>7, <2>8, <2>9 DEF Sums
  <1>3. CASE MonitorSelect
    <2>1. Types'
      BY <1>3 DEF MonitorSelect, MainType, ExitType, LoopType, FlushType, CountType,
                  mainVars, loopVars, countVars
    <2>2. LoopPart'
      BY <1>3 DEF MonitorSelect, LoopPart, mainVars, loopVars
    <2>3. Sums'
      BY <1>3, SumsUnchanged DEF MonitorSelect, loopVars, countVars
    <2>. QED
      BY <2>1, <2>2, <2>3
  <1>. QED
    BY <1>1, <1>2, <1>3 DEF MonitorStep

---------------------------------------------------------------------------
(* The event loop of the worker. *)

(* The loop takes a lease: the consumer of it is still to come.          *)
LEMMA GainIsGood == ASSUME IInv, NEW s \in Shards, GainLease(s) PROVE IInv'
PROOF
  <1>. USE DEF IInv, Types
  <1>1. CountType /\ Bump(s, "held", 1) /\ gained = NoShard /\ gained' = s /\ s # NoShard
    BY ProcessAssumption DEF GainLease, LoopPart
  <1>2. /\ metrics' \in [Shards -> [held : Int, processed : Nat]]
        /\ known' \subseteq Shards /\ todo' \subseteq known'
        /\ \A t \in Shards :
              /\ metrics'[t].held = metrics[t].held + (IF t = s THEN 1 ELSE 0)
              /\ metrics'[t].processed = metrics[t].processed
    BY <1>1, BumpHeld
  <1>3. MainType' /\ ExitType' /\ FlushType'
    BY DEF GainLease, MainType, ExitType, FlushType, mainVars
  <1>4. LoopType'
    BY DEF GainLease, LoopType, Loops
  <1>5. CountType'
    BY <1>2 DEF GainLease, CountType
  <1>6. LoopPart'
    BY <1>1 DEF GainLease, LoopPart, mainVars
  <1>7. FlushPart'
    BY <1>2 DEF GainLease, Sums, FlushPart, FlushType
  <1>8. Children' = Children
    BY DEF GainLease, Children
  <1>9. WaitGroupCounts'
    BY <1>8 DEF GainLease, Sums, WaitGroupCounts
  <1>10. LeasesHeldCountsConsumers'
    <2>. SUFFICES ASSUME NEW t \in Shards
                  PROVE  metrics'[t].held = Cardinality(Bearers(t)') + (IF gained' = t THEN 1 ELSE 0)
      BY DEF LeasesHeldCountsConsumers, Bearers
    <2>1. Bearers(t)' = Bearers(t)
      BY <1>8 DEF GainLease, Bearers
    <2>2. metrics[t].held = Cardinality(Bearers(t)) + 0
      BY <1>1, ProcessAssumption DEF Sums, LeasesHeldCountsConsumers, Bearers
    <2>3. Cardinality(Bearers(t)) \in Nat
      BY ChildrenAreFinite DEF LoopType
    <2>. QED
      BY <1>1, <1>2, <2>1, <2>2, <2>3
  <1>11. NoCountIsLost'
    BY <1>2 DEF GainLease, Sums, NoCountIsLost
  <1>12. MonitorOutlivesConsumers'
    BY DEF GainLease, LoopPart, MonitorOutlivesConsumers
  <1>. QED
    BY <1>3, <1>4, <1>5, <1>6, <1>7, <1>9, <1>10, <1>11, <1>12 DEF Sums

(* The consumer that is started bears the lease the loop held. *)
LEMMA StartIsGood == ASSUME IInv, StartConsumer PROVE IInv'
PROOF
  <1>. USE DEF IInv, Types
  <1>. DEFINE new == [shard |-> gained, last |-> FALSE, pc |-> "parent"]
              n == Len(consumers) + 1
  <1>1. gained \in Shards /\ gained # NoShard /\ Len(consumers) < MaxConsumers
    BY ProcessAssumption DEF StartConsumer, LoopType, LoopPart
  <1>2. new \in Consumers
    BY <1>1 DEF Consumers
  <1>3. consumers \in Seq(Consumers) /\ consumers' = Append(consumers, new) /\ MaxConsumers \in Nat
    BY ProcessAssumption DEF StartConsumer, LoopType
  <1>4. /\ consumers' \in Seq(Consumers) /\ Len(consumers') <= MaxConsumers
        /\ DOMAIN consumers' = DOMAIN consumers \cup {n} /\ n \notin DOMAIN consumers
        /\ consumers'[n] = new /\ \A j \in DOMAIN consumers : consumers'[j] = consumers[j]
    BY <1>1, <1>2, <1>3
  <1>. HIDE DEF new, n
  <1>5. new.shard = gained /\ new.pc = "parent"
    BY DEF new
  <1>6. Children' = Children \cup {n} /\ n \notin Children
    BY <1>4, <1>5 DEF Children
  <1>7. IsFiniteSet(Children) /\ Cardinality(Children) \in Nat
        /\ \A t : IsFiniteSet(Bearers(t)) /\ Cardinality(Bearers(t)) \in Nat
    BY <1>3, ChildrenAreFinite
  <1>8. MainType' /\ ExitType' /\ FlushType' /\ CountType'
    BY DEF StartConsumer, MainType, ExitType, FlushType, CountType, mainVars, flushVars, countVars
  <1>9. LoopType'
    BY <1>4 DEF StartConsumer, LoopType, Loops
  <1>10. LoopPart'
    BY DEF StartConsumer, LoopPart, mainVars, flushVars
  <1>11. WaitGroupCounts'
    <2>1. Cardinality(Children') = Cardinality(Children) + 1
      BY <1>6, <1>7, FS_AddElement
    <2>2. waitGroup = Cardinality(Children) - 0
      BY DEF StartConsumer, Sums, WaitGroupCounts
    <2>. QED
      BY <1>7, <2>1, <2>2 DEF StartConsumer, WaitGroupCounts
  <1>12. LeasesHeldCountsConsumers'
    <2>. SUFFICES ASSUME NEW t \in Shards
                  PROVE  metrics'[t].held = Cardinality(Bearers(t)') + (IF gained' = t THEN 1 ELSE 0)
      BY DEF LeasesHeldCountsConsumers, Bearers
    <2>1. metrics'[t].held = Cardinality(Bearers(t)) + (IF gained = t THEN 1 ELSE 0)
      BY DEF StartConsumer, Sums, LeasesHeldCountsConsumers, Bearers, countVars
    <2>2. gained' # t
      BY ProcessAssumption DEF StartConsumer
    <2>3. n \notin Bearers(t)
      BY <1>6 DEF Bearers
    <2>4. Bearers(t)' = IF gained = t THEN Bearers(t) \cup {n} ELSE Bearers(t)
      BY <1>4, <1>5, <1>6 DEF Bearers, Children
    <2>5. Cardinality(Bearers(t) \cup {n}) = Cardinality(Bearers(t)) + 1
      BY <1>7, <2>3, FS_AddElement
    <2>. QED
      BY <1>7, <2>1, <2>2, <2>4, <2>5
  <1>13. NoCountIsLost' /\ FlushPart'
    BY DEF StartConsumer, Sums, NoCountIsLost, FlushPart, flushVars, countVars
  <1>14. MonitorOutlivesConsumers'
    BY DEF StartConsumer, LoopPart, MonitorOutlivesConsumers, flushVars
  <1>. QED
    BY <1>8, <1>9, <1>10, <1>11, <1>12, <1>13, <1>14 DEF Sums

(* The wait group catches up with the consumer that was started. *)
LEMMA AddIsGood == ASSUME IInv, AddConsumer PROVE IInv'
PROOF
  <1>. USE DEF IInv, Types
  <1>1. Types'
    <2>1. MainType' /\ ExitType'
      BY DEF AddConsumer, MainType, ExitType, mainVars
    <2>2. LoopType'
      BY DEF AddConsumer, LoopType, Loops
    <2>3. FlushType' /\ CountType'
      BY DEF AddConsumer, FlushType, CountType, flushVars, countVars
    <2>. QED
      BY <2>1, <2>2, <2>3
  <1>2. LoopPart'
    BY DEF AddConsumer, LoopPart, mainVars, flushVars
  <1>3. Children' = Children
    BY DEF AddConsumer, Children
  <1>4. WaitGroupCounts'
    <2>1. Cardinality(Children) \in Nat
      BY ChildrenAreFinite DEF LoopType
    <2>2. waitGroup = Cardinality(Children) - 1
      BY DEF AddConsumer, Sums, WaitGroupCounts
    <2>. QED
      BY <1>3, <2>1, <2>2 DEF AddConsumer, WaitGroupCounts
  <1>5. LeasesHeldCountsConsumers'
    BY <1>3 DEF AddConsumer, Sums, LeasesHeldCountsConsumers, countVars
  <1>6. FlushPart' /\ NoCountIsLost' /\ MonitorOutlivesConsumers'
    BY <1>3 DEF AddConsumer, Sums, FlushPart, NoCountIsLost, MonitorOutlivesConsumers,
                flushVars, countVars
  <1>. QED
    BY <1>1, <1>2, <1>4, <1>5, <1>6 DEF Sums

(* Shutdown: stop is closed, then the monitoring service is told to stop,  *)
(* when the wait group says that no consumer is left, and waited for.      *)
LEMMA ShutdownIsGood == ASSUME IInv, TakeSignal \/ StopMonitor \/ LoopEnds PROVE IInv'
PROOF
  <1>. USE DEF IInv, Types
  <1>1. CASE TakeSignal
    <2>1. Types'
      <3>1. MainType' /\ ExitType'
        BY <1>1 DEF TakeSignal, MainType, ExitType
      <3>2. LoopType'
        BY <1>1 DEF TakeSignal, LoopType, Loops
      <3>3. FlushType' /\ CountType'
        BY <1>1 DEF TakeSignal, FlushType, CountType, flushVars, countVars
      <3>. QED
        BY <3>1, <3>2, <3>3
    <2>2. LoopPart'
      BY <1>1 DEF TakeSignal, LoopPart, flushVars
    <2>3. Sums'
      BY <1>1, SumsUnchanged DEF TakeSignal, flushVars, countVars
    <2>. QED
      BY <2>1, <2>2, <2>3
  <1>2. CASE StopMonitor
    <2>1. Types'
      <3>1. MainType' /\ ExitType'
        BY <1>2 DEF StopMonitor, MainType, ExitType, mainVars
      <3>2. LoopType'
        BY <1>2 DEF StopMonitor, LoopType, Loops
      <3>3. FlushType' /\ CountType'
        BY <1>2 DEF StopMonitor, FlushType, CountType, countVars
      <3>. QED
        BY <3>1, <3>2, <3>3
    <2>2. LoopPart' /\ gained' = NoShard
      BY <1>2 DEF StopMonitor, LoopPart, mainVars
    <2>3. Children = {}
      <3>1. IsFiniteSet(Children) /\ Cardinality(Children) \in Nat
        BY ChildrenAreFinite DEF LoopType
      <3>2. Cardinality(Children) - 0 = 0
        BY <1>2 DEF StopMonitor, Sums, WaitGroupCounts
      <3>. QED
        BY <3>1, <3>2, FS_EmptySet
    <2>4. Children' = Children
      BY <1>2 DEF StopMonitor, Children
    <2>5. MonitorOutlivesConsumers'
      BY <2>2, <2>3, <2>4 DEF MonitorOutlivesConsumers
    <2>6. WaitGroupCounts' /\ LeasesHeldCountsConsumers'
      BY <1>2, <2>4 DEF StopMonitor, Sums, WaitGroupCounts, LeasesHeldCountsConsumers, countVars
    <2>7. FlushPart' /\ NoCountIsLost'
      BY <1>2 DEF StopMonitor, Sums, FlushPart, NoCountIsLost, countVars
    <2>. QED
      BY <2>1, <2>2, <2>5, <2>6, <2>7 DEF Sums
  <1>3. CASE LoopEnds
    <2>1. Types'
      <3>1. MainType' /\ ExitType'
        BY <1>3 DEF LoopEnds, MainType, ExitType, mainVars
      <3>2. LoopType'
        BY <1>3 DEF LoopEnds, LoopType, Loops
      <3>3. FlushType' /\ CountType'
        BY <1>3 DEF LoopEnds, FlushType, CountType, flushVars, countVars
      <3>. QED
        BY <3>1, <3>2, <3>3
    <2>2. LoopPart'
      BY <1>3 DEF LoopEnds, LoopPart, mainVars, flushVars
    <2>3. Sums'
      BY <1>3, SumsUnchanged DEF LoopEnds, flushVars, countVars
    <2>. QED
      BY <2>1, <2>2, <2>3
  <1>. QED
    BY <1>1, <1>2, <1>3

(* All steps of the loop keep the invariant,                             *)
LEMMA LoopStepIsGood == ASSUME IInv, LoopStep PROVE IInv'
BY GainIsGood, StartIsGood, AddIsGood, ShutdownIsGood DEF LoopStep

---------------------------------------------------------------------------
(* The shard consumers. *)

(* A consumer that goes on without giving anything back. *)
GoesOn(i) ==
  /\ consumers' \in Seq(Consumers) /\ Len(consumers') = Len(consumers)
  /\ DOMAIN consumers' = DOMAIN consumers
  /\ \A j \in DOMAIN consumers :
       /\ consumers'[j].shard = consumers[j].shard
       /\ j # i => consumers'[j].pc = consumers[j].pc
  /\ {consumers[i].pc, consumers'[i].pc} \cap {"done", "gone"} = {}

(* It stays in or out of the wait group, and bears the leases it bore.     *)
LEMMA GoingOn ==
  ASSUME NEW i \in DOMAIN consumers, GoesOn(i)
  PROVE  Children' = Children /\ \A s : Bearers(s)' = Bearers(s)
PROOF
  <1>1. Children' = Children
    BY DEF GoesOn, Children
  <1>2. ASSUME NEW s PROVE Bearers(s)' = Bearers(s)
    BY <1>1 DEF GoesOn, Bearers, Children
  <1>. QED
    BY <1>1, <1>2

(* Such a step keeps the invariant when it counts nothing. *)
LEMMA GoingOnIsGood ==
  ASSUME IInv, NEW i \in DOMAIN consumers, GoesOn(i),
         held' \subseteq Shards, checkpoint' \in [Shards -> {"none", "some", "end"}],
         UNCHANGED <<exit, waitGroup, todo, metrics, known, counted, consumerUnchanged>>
  PROVE  IInv'
PROOF
  <1>. USE DEF IInv, Types, consumerUnchanged
  <1>1. Types'
    BY SMTT(30) DEF GoesOn, MainType, ExitType, LoopType, FlushType, CountType, mainVars
  <1>2. LoopPart'
    BY DEF GoesOn, LoopPart, mainVars
  <1>3. Children' = Children /\ \A s : Bearers(s)' = Bearers(s)
    BY GoingOn
  <1>4. WaitGroupCounts' /\ MonitorOutlivesConsumers'
    BY <1>3 DEF Sums, WaitGroupCounts, MonitorOutlivesConsumers
  <1>5. LeasesHeldCountsConsumers'
    <2>. SUFFICES ASSUME NEW t \in Shards
                  PROVE  metrics'[t].held = Cardinality(Bearers(t)') + (IF gained' = t THEN 1 ELSE 0)
      BY DEF LeasesHeldCountsConsumers, Bearers
    <2>1. metrics'[t].held = Cardinality(Bearers(t)) + (IF gained' = t THEN 1 ELSE 0)
      BY DEF Sums, LeasesHeldCountsConsumers, Bearers
    <2>. QED
      BY <1>3, <2>1
  <1>6. FlushPart' /\ NoCountIsLost'
    BY DEF Sums, FlushPart, NoCountIsLost
  <1>. QED
    BY <1>1, <1>2, <1>4, <1>5, <1>6 DEF Sums

(* The steps that neither count nor end a lease. *)
LEMMA QuietConsumerIsGood ==
  ASSUME IInv, NEW i \in DOMAIN consumers,
         WaitOnParent(i) \/ ReadBatch(i) \/ Stop(i) \/ ReleaseLease(i)
  PROVE  IInv'
PROOF
  <1>. USE DEF IInv, Types
  <1>1. consumers \in Seq(Consumers) /\ consumers[i] \in Consumers /\ consumers[i].shard \in Shards
    BY ConsumersAreTyped
  <1>2. ASSUME NEW pc \in PCs \ {"done", "gone"}, Moves(i, pc),
               consumers[i].pc \notin {"done", "gone"}
        PROVE  GoesOn(i)
    <2>1. /\ consumers' \in Seq(Consumers) /\ Len(consumers') = Len(consumers)
          /\ DOMAIN consumers' = DOMAIN consumers
          /\ \A j \in DOMAIN consumers :
               /\ consumers'[j].shard = consumers[j].shard
               /\ consumers'[j].pc = IF j = i THEN pc ELSE consumers[j].pc
      BY <1>1, <1>2, MovesTo
    <2>. QED
      BY <1>2, <2>1 DEF GoesOn
  <1>3. held \subseteq Shards /\ checkpoint \in [Shards -> {"none", "some", "end"}]
    BY DEF LoopType
  <1>4. CASE WaitOnParent(i)
    <2>1. GoesOn(i)
      BY <1>2, <1>4 DEF WaitOnParent, ConsumerAt, PCs
    <2>. QED
      BY <1>3, <1>4, <2>1, GoingOnIsGood DEF WaitOnParent
  <1>5. CASE ReadBatch(i)
    <2>1. GoesOn(i)
      <3>1. CASE Moves(i, "release")
        BY <1>2, <1>5, <3>1 DEF ReadBatch, PCs
      <3>2. ASSUME NEW last \in BOOLEAN,
                   consumers' = [consumers EXCEPT ![i].pc = "count", ![i].last = last]
            PROVE  GoesOn(i)
        <4>1. /\ consumers' \in Seq(Consumers) /\ Len(consumers') = Len(consumers)
              /\ DOMAIN consumers' = DOMAIN consumers
              /\ \A j \in DOMAIN consumers :
                   /\ consumers'[j].shard = consumers[j].shard
                   /\ consumers'[j].pc = IF j = i THEN "count" ELSE consumers[j].pc
          BY <1>1, <3>2, ReadMoves
        <4>. QED
          BY <1>5, <4>1 DEF GoesOn, ReadBatch
      <3>. QED
        BY <1>5, <3>1, <3>2 DEF ReadBatch
    <2>2. checkpoint' \in [Shards -> {"none", "some", "end"}]
      BY <1>3, <1>5 DEF ReadBatch
    <2>. QED
      BY <1>3, <1>5, <2>1, <2>2, GoingOnIsGood DEF ReadBatch
  <1>6. CASE Stop(i)
    <2>1. GoesOn(i)
      BY <1>2, <1>6 DEF Stop, ConsumerAt, PCs
    <2>. QED
      BY <1>3, <1>6, <2>1, GoingOnIsGood DEF Stop
  <1>7. CASE ReleaseLease(i)
    <2>1. GoesOn(i)
      BY <1>2, <1>7 DEF ReleaseLease, ConsumerAt, PCs
    <2>. QED
      BY <1>3, <1>7, <2>1, GoingOnIsGood DEF ReleaseLease
  <1>. QED
    BY <1>4, <1>5, <1>6, <1>7

(* A batch is counted in the history and in the metric alike, and never    *)
(* while a flush has the metric locked.                                    *)
LEMMA CountIsGood ==
  ASSUME IInv, NEW i \in DOMAIN consumers, CountBatch(i)
  PROVE  IInv'
PROOF
  <1>. USE DEF IInv, Types, consumerUnchanged
  <1>. DEFINE s == consumers[i].shard
  <1>1. consumers \in Seq(Consumers) /\ consumers[i] \in Consumers /\ s \in Shards
    BY ConsumersAreTyped
  <1>2. GoesOn(i)
    <2>1. PICK pc \in {"select", "release"} : Moves(i, pc)
      BY DEF CountBatch
    <2>2. /\ consumers' \in Seq(Consumers) /\ Len(consumers') = Len(consumers)
          /\ DOMAIN consumers' = DOMAIN consumers
          /\ \A j \in DOMAIN consumers :
               /\ consumers'[j].shard = consumers[j].shard
               /\ consumers'[j].pc = IF j = i THEN pc ELSE consumers[j].pc
      BY <1>1, <2>1, MovesTo DEF PCs
    <2>. QED
      BY <2>2 DEF GoesOn, CountBatch, ConsumerAt
  <1>3. Children' = Children /\ \A t : Bearers(t)' = Bearers(t)
    BY <1>2, GoingOn
  <1>4. CountType /\ Bump(s, "processed", 1) /\ counted' = [counted EXCEPT ![s] = @ + 1]
    BY DEF CountBatch
  <1>. HIDE DEF s
  <1>5. /\ metrics' \in [Shards -> [held : Int, processed : Nat]]
        /\ known' \subseteq Shards /\ todo' \subseteq known'
        /\ locked # s
        /\ \A t \in Shards :
             /\ metrics'[t].processed = metrics[t].processed + (IF t = s THEN 1 ELSE 0)
             /\ metrics'[t].held = metrics[t].held
    BY <1>1, <1>4, BumpProcessed
  <1>6. /\ counted' \in [Shards -> Nat]
        /\ \A t \in Shards : counted'[t] = counted[t] + (IF t = s THEN 1 ELSE 0)
    BY <1>1, <1>4 DEF CountType
  <1>7. checkpoint' \in [Shards -> {"none", "some", "end"}]
    BY DEF CountBatch, LoopType
  <1>8. MainType' /\ ExitType' /\ FlushType'
    BY DEF CountBatch, MainType, ExitType, FlushType, mainVars
  <1>9. LoopType'
    BY <1>2, <1>7 DEF CountBatch, LoopType, GoesOn
  <1>10. CountType'
    BY <1>5, <1>6 DEF CountBatch, CountType
  <1>11. LoopPart'
    BY <1>2 DEF CountBatch, LoopPart, GoesOn, mainVars
  <1>12. FlushPart'
    BY <1>5 DEF CountBatch, Sums, FlushPart, FlushType, CountType
  <1>13. WaitGroupCounts' /\ MonitorOutlivesConsumers'
    BY <1>3 DEF CountBatch, Sums, WaitGroupCounts, MonitorOutlivesConsumers
  <1>14. LeasesHeldCountsConsumers'
    <2>. SUFFICES ASSUME NEW t \in Shards
                  PROVE  metrics'[t].held = Cardinality(Bearers(t)') + (IF gained' = t THEN 1 ELSE 0)
      BY DEF LeasesHeldCountsConsumers, Bearers
    <2>1. metrics[t].held = Cardinality(Bearers(t)) + (IF gained = t THEN 1 ELSE 0)
      BY DEF Sums, LeasesHeldCountsConsumers, Bearers
    <2>2. gained' = gained
      BY DEF CountBatch
    <2>. QED
      BY <1>3, <1>5, <2>1, <2>2
  <1>15. NoCountIsLost'
    <2>. SUFFICES ASSUME NEW t \in Shards
                  PROVE  counted'[t] + repeated'[t] = published'[t] + metrics'[t].processed
      BY DEF NoCountIsLost
    <2>1. /\ counted[t] + repeated[t] = published[t] + metrics[t].processed
          /\ published' = published /\ repeated' = repeated
      BY DEF Sums, NoCountIsLost, CountBatch
    <2>2. /\ published[t] \in Nat /\ metrics[t].processed \in Nat
          /\ counted[t] \in Nat /\ repeated[t] \in Nat
      BY DEF CountType
    <2>3. /\ counted'[t] = counted[t] + (IF t = s THEN 1 ELSE 0)
          /\ metrics'[t].processed = metrics[t].processed + (IF t = s THEN 1 ELSE 0)
          /\ published'[t] = published[t] /\ repeated'[t] = repeated[t]
      BY <1>5, <1>6, <2>1
    <2>4. (IF t = s THEN 1 ELSE 0) \in Nat
      OBVIOUS
    <2>. HIDE DEF IInv, Types, consumerUnchanged
    <2>. QED
      BY <2>1, <2>2, <2>3, <2>4, CountBalance
  <1>. QED
    BY <1>8, <1>9, <1>10, <1>11, <1>12, <1>13, <1>14, <1>15 DEF Sums

(* The metric of the lease goes down with the consumer it counted. *)
LEMMA LoseIsGood ==
  ASSUME IInv, NEW i \in DOMAIN consumers, LoseLease(i)
  PROVE  IInv'
PROOF
  <1>. USE DEF IInv, Types, consumerUnchanged
  <1>. DEFINE s == consumers[i].shard
  <1>1. consumers \in Seq(Consumers) /\ consumers[i] \in Consumers /\ s \in Shards
        /\ consumers[i].pc = "lost"
    BY ConsumersAreTyped DEF LoseLease, ConsumerAt
  <1>2. /\ consumers' \in Seq(Consumers) /\ Len(consumers') = Len(consumers)
        /\ DOMAIN consumers' = DOMAIN consumers
        /\ \A j \in DOMAIN consumers :
             /\ consumers'[j].shard = consumers[j].shard
             /\ consumers'[j].pc = IF j = i THEN "done" ELSE consumers[j].pc
    BY <1>1, MovesTo DEF LoseLease, PCs
  <1>3. CountType /\ Bump(s, "held", -1)
    BY DEF LoseLease
  <1>4. Children' = Children /\ i \in Children
    BY <1>1, <1>2 DEF Children
  <1>5. \A t : Bearers(t)' = IF t = s THEN Bearers(t) \ {i} ELSE Bearers(t)
    BY <1>1, <1>2, <1>4 DEF Bearers, Children
  <1>6. i \in Bearers(s)
    BY <1>1, <1>4 DEF Bearers
  <1>. HIDE DEF s
  <1>7. /\ metrics' \in [Shards -> [held : Int, processed : Nat]]
        /\ known' \subseteq Shards /\ todo' \subseteq known'
        /\ locked # s
        /\ \A t \in Shards :
             /\ metrics'[t].held = metrics[t].held + (IF t = s THEN -1 ELSE 0)
             /\ metrics'[t].processed = metrics[t].processed
    BY <1>1, <1>3, BumpHeld
  <1>8. MainType' /\ ExitType' /\ FlushType'
    BY DEF LoseLease, MainType, ExitType, FlushType, mainVars
  <1>9. LoopType'
    BY <1>2 DEF LoseLease, LoopType
  <1>10. CountType'
    BY <1>7 DEF LoseLease, CountType
  <1>11. LoopPart'
    BY <1>2 DEF LoseLease, LoopPart, mainVars
  <1>12. FlushPart'
    BY <1>7 DEF LoseLease, Sums, FlushPart, FlushType, CountType
  <1>13. WaitGroupCounts' /\ MonitorOutlivesConsumers'
    BY <1>4 DEF LoseLease, Sums, WaitGroupCounts, MonitorOutlivesConsumers
  <1>14. LeasesHeldCountsConsumers'
    <2>. SUFFICES ASSUME NEW t \in Shards
                  PROVE  metrics'[t].held = Cardinality(Bearers(t)') + (IF gained' = t THEN 1 ELSE 0)
      BY DEF LeasesHeldCountsConsumers, Bearers
    <2>1. metrics[t].held = Cardinality(Bearers(t)) + (IF gained = t THEN 1 ELSE 0)
      BY DEF Sums, LeasesHeldCountsConsumers, Bearers
    <2>2. gained' = gained
      BY DEF LoseLease
    <2>3. IsFiniteSet(Bearers(t)) /\ Cardinality(Bearers(t)) \in Nat
      BY <1>1, ChildrenAreFinite
    <2>4. t = s => Cardinality(Bearers(t) \ {i}) = Cardinality(Bearers(t)) - 1
      BY <1>6, <2>3, FS_RemoveElement
    <2>5. CASE t = s
      <3>1. metrics'[t].held = metrics[t].held + -1
        BY <1>7, <2>5
      <3>2. Bearers(t)' = Bearers(t) \ {i}
        BY <1>5, <2>5
      <3>3. Cardinality(Bearers(t)') = Cardinality(Bearers(t)) - 1
        BY <2>4, <2>5, <3>2
      <3>. QED
        BY <2>1, <2>2, <2>3, <3>1, <3>3
    <2>6. CASE t # s
      BY <1>5, <1>7, <2>1, <2>2, <2>3, <2>6
    <2>. QED
      BY <2>5, <2>6
  <1>15. NoCountIsLost'
    BY <1>7 DEF LoseLease, Sums, NoCountIsLost
  <1>. QED
    BY <1>8, <1>9, <1>10, <1>11, <1>12, <1>13, <1>14, <1>15 DEF Sums

(* The last thing a consumer does is to tell the wait group; if it is      *)
(* faster than the loop that started it, the process panics.               *)
LEMMA DoneIsGood ==
  ASSUME IInv, NEW i \in DOMAIN consumers, Done(i)
  PROVE  IInv'
PROOF
  <1>1. CASE Ends("2")
    BY <1>1, EndIsGood
  <1>2. CASE /\ waitGroup > 0 /\ waitGroup' = waitGroup - 1 /\ Moves(i, "gone")
             /\ UNCHANGED <<exit, held, checkpoint, todo, metrics, known, counted, consumerUnchanged>>
    <2>. USE DEF IInv, Types, consumerUnchanged
    <2>1. consumers \in Seq(Consumers) /\ consumers[i] \in Consumers /\ consumers[i].pc = "done"
      BY ConsumersAreTyped DEF Done, ConsumerAt
    <2>2. /\ consumers' \in Seq(Consumers) /\ Len(consumers') = Len(consumers)
          /\ DOMAIN consumers' = DOMAIN consumers
          /\ \A j \in DOMAIN consumers :
               /\ consumers'[j].shard = consumers[j].shard
               /\ consumers'[j].pc = IF j = i THEN "gone" ELSE consumers[j].pc
      BY <1>2, <2>1, MovesTo DEF PCs
    <2>3. Children' = Children \ {i} /\ i \in Children
      BY <2>1, <2>2 DEF Children
    <2>4. \A t : Bearers(t)' = Bearers(t)
      BY <2>1, <2>2, <2>3 DEF Bearers, Children
    <2>5. MainType' /\ ExitType' /\ FlushType' /\ CountType'
      BY <1>2 DEF MainType, ExitType, FlushType, CountType, mainVars
    <2>6. LoopType'
      BY <1>2, <2>2 DEF LoopType
    <2>7. LoopPart'
      BY <1>2, <2>2 DEF LoopPart, mainVars
    <2>8. WaitGroupCounts'
      <3>1. IsFiniteSet(Children) /\ Cardinality(Children) \in Nat
        BY <2>1, ChildrenAreFinite
      <3>2. Cardinality(Children') = Cardinality(Children) - 1
        BY <2>3, <3>1, FS_RemoveElement
      <3>3. waitGroup = Cardinality(Children) - (IF loop = "started" THEN 1 ELSE 0)
        BY DEF Sums, WaitGroupCounts
      <3>. QED
        BY <1>2, <3>1, <3>2, <3>3 DEF WaitGroupCounts
    <2>9. LeasesHeldCountsConsumers'
      <3>. SUFFICES ASSUME NEW t \in Shards
                    PROVE  metrics'[t].held = Cardinality(Bearers(t)') + (IF gained' = t THEN 1 ELSE 0)
        BY DEF LeasesHeldCountsConsumers, Bearers
      <3>1. metrics[t].held = Cardinality(Bearers(t)) + (IF gained = t THEN 1 ELSE 0)
        BY DEF Sums, LeasesHeldCountsConsumers, Bearers
      <3>. QED
        BY <1>2, <2>4, <3>1
    <2>10. FlushPart' /\ NoCountIsLost' /\ MonitorOutlivesConsumers'
      BY <1>2, <2>3 DEF Sums, FlushPart, NoCountIsLost, MonitorOutlivesConsumers
    <2>. QED
      BY <2>5, <2>6, <2>7, <2>8, <2>9, <2>10 DEF Sums
  <1>. QED
    BY <1>1, <1>2 DEF Done

(* and so do all steps of a consumer.                                    *)
LEMMA ConsumerStepIsGood ==
  ASSUME IInv, NEW i \in DOMAIN consumers, ConsumerStep(i)
  PROVE  IInv'
BY QuietConsumerIsGood, CountIsGood, LoseIsGood, DoneIsGood DEF ConsumerStep

---------------------------------------------------------------------------
(* The theorems. *)

(* The invariant is inductive.                                           *)
LEMMA IInvIsInductive == IInv /\ [Next]_vars => IInv'
PROOF
  <1>. SUFFICES ASSUME IInv, [Next]_vars PROVE IInv'
    OBVIOUS
  <1>1. CASE UNCHANGED vars
    <2>1. MainType' /\ UNCHANGED <<exit, workerVars>> /\ main' = main
      BY <1>1 DEF vars, mainVars, MainType, IInv, Types
    <2>. QED
      BY <2>1, WorkerUnchanged
  <1>2. CASE MainStep
    BY <1>2, MainStepIsGood
  <1>3. CASE Signal \/ Handle
    BY <1>3, SignalsAreGood
  <1>4. CASE MonitorStep
    BY <1>4, MonitorStepIsGood
  <1>5. CASE LoopStep
    BY <1>5, LoopStepIsGood
  <1>6. ASSUME NEW i \in DOMAIN consumers, ConsumerStep(i) PROVE IInv'
    BY <1>6, ConsumerStepIsGood
  <1>. QED
    BY <1>1, <1>2, <1>3, <1>4, <1>5, <1>6 DEF Next

(* So it holds of every behaviour.                                       *)
LEMMA IInvHolds == Spec => []IInv
BY InitIsGood, IInvIsInductive, PTL DEF Spec

(* Every variable of the process keeps its type, the wait group's counter  *)
(* included, which is never below zero.                                    *)
THEOREM TypeCorrect == Spec => []TypeOK
PROOF
  <1>1. IInv => TypeOK
    BY TypesAreTypeOK DEF IInv
  <1>. QED
    BY <1>1, IInvHolds, PTL

(* Worker.waitGroup counts the shard consumers that have not returned,     *)
(* less the one that is started and not yet added.                         *)
THEOREM WaitGroupIsRight == Spec => []WaitGroupCounts
PROOF
  <1>1. IInv => WaitGroupCounts
    BY DEF IInv, Sums
  <1>. QED
    BY <1>1, IInvHolds, PTL

(* The lease metric of a shard counts the consumers between LeaseGained    *)
(* and LeaseLost, however the loop, the consumers and a flush interleave.  *)
THEOREM LeaseMetricIsRight == Spec => []LeasesHeldCountsConsumers
PROOF
  <1>1. IInv => LeasesHeldCountsConsumers
    BY DEF IInv, Sums
  <1>. QED
    BY <1>1, IInvHolds, PTL

(* A flush never loses what a consumer counts, and repeats no more of it   *)
(* than what CloudWatch took without its answer coming back: flushShard    *)
(* holds the metric's mutex from the copy of the count to its reset.       *)
THEOREM CountsAreKept == Spec => []NoCountIsLost
PROOF
  <1>1. IInv => NoCountIsLost
    BY DEF IInv, Sums
  <1>. QED
    BY <1>1, IInvHolds, PTL

(* Worker.Shutdown stops the monitoring service only when no consumer is   *)
(* left that could still count, and none is started after that.            *)
THEOREM MonitorIsStoppedLast == Spec => []MonitorOutlivesConsumers
PROOF
  <1>1. IInv => MonitorOutlivesConsumers
    BY DEF IInv, Sums
  <1>. QED
    BY <1>1, IInvHolds, PTL
=============================================================================
