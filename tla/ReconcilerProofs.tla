-------------------------- MODULE ReconcilerProofs --------------------------
(* Proofs about SourceReconciler.tla, for any specs, addresses, failing       *)
(* requests and bounds: the types, what the write-back of whole cached        *)
(* objects never does to a user's edit, and, for a source that is not created *)
(* again under its name, that its status does not claim a Deployment nobody   *)
(* ever created.                                                              *)
EXTENDS SourceReconciler, TLAPS

(* The source is created at most once under its name.                         *)
NotRecreated == MaxUID = 1

-----------------------------------------------------------------------------
(* What the helpers return *)

(* The type of a source, field by field.                                      *)
LEMMA SourceFields ==
    ASSUME NEW s \in SourceType
    PROVE  /\ s.uid \in 0..MaxUID /\ s.deleting \in BOOLEAN /\ s.fins \subseteq Finalizers
           /\ s.spec \in SourceSpec /\ s.status \in Status
           /\ s.status.conds \in Conditions /\ s.status.sinkURI \in StringValue
BY DEF SourceType, Status

(* No source and no spec are values of the types.                             *)
LEMMA NoSourceType ==
    /\ NoSpec \in SourceSpec /\ NoSource \in SourceType
    /\ NoSource.uid = 0 /\ ~NoSource.deleting
    /\ NoSource.status.conds["Deployed"] # "True"
PROOF
  <1>1. Empty \in StringValue
    BY DEF StringValue
  <1>2. NoSpec \in SourceSpec
    BY <1>1 DEF NoSpec, SourceSpec
  <1>3. NoConditions \in Conditions /\ NoConditions["Deployed"] = "unset"
    BY DEF NoConditions, Conditions, ConditionStatus, ConditionType
  <1>4. NewStatus \in Status /\ NewStatus.conds = NoConditions
    BY <1>1, <1>3 DEF NewStatus, Status
  <1>5. 0 \in 0..MaxUID
    BY ReconcilerAssumption
  <1>. QED
    BY <1>2, <1>3, <1>4, <1>5 DEF NoSource, SourceType

(* One field of a source changes, the others stay.                            *)
LEMMA WithFins ==
    ASSUME NEW s \in SourceType, NEW F \in SUBSET Finalizers
    PROVE  LET new == [s EXCEPT !.fins = F]
           IN  /\ new \in SourceType /\ new.fins = F
               /\ new.uid = s.uid /\ new.deleting = s.deleting
               /\ new.spec = s.spec /\ new.status = s.status
BY DEF SourceType

(* The same for the status.                                                   *)
LEMMA WithStatusType ==
    ASSUME NEW s \in SourceType, NEW st \in Status
    PROVE  LET new == [s EXCEPT !.status = st]
           IN  /\ new \in SourceType /\ new.status = st
               /\ new.uid = s.uid /\ new.deleting = s.deleting
               /\ new.spec = s.spec /\ new.fins = s.fins
BY DEF SourceType

(* Marking conditions keeps the type; only MarkDeployed claims a Deployment.  *)
LEMMA MarkTypes ==
    ASSUME NEW st \in Status
    PROVE  /\ MarkDeployed(st) \in Status /\ MarkNoSink(st) \in Status
           /\ MarkNoSink(st).conds["Deployed"] = st.conds["Deployed"]
           /\ \A a \in StringValue :
                 /\ MarkSink(st, a) \in Status
                 /\ MarkSink(st, a).conds["Deployed"] = st.conds["Deployed"]
PROOF
  <1>. DEFINE c == st.conds
  <1>1. c \in Conditions /\ st.sinkURI \in StringValue
    BY DEF Status
  <1>2. ASSUME NEW t \in {"SinkProvided", "Deployed"}
        PROVE  MarkTrue(c, t) \in Conditions /\ MarkFalse(c, t) \in Conditions
    BY <1>1 DEF MarkTrue, MarkFalse, SetCondition, Conditions, ConditionType, ConditionStatus
  <1>3. /\ MarkTrue(c, "SinkProvided")["Deployed"] = c["Deployed"]
        /\ MarkFalse(c, "SinkProvided")["Deployed"] = c["Deployed"]
    BY <1>1 DEF MarkTrue, MarkFalse, SetCondition, Conditions, ConditionType, ConditionStatus
  <1>. HIDE DEF c
  <1>4. MarkDeployed(st) = [st EXCEPT !.conds = MarkTrue(c, "Deployed")]
    BY DEF MarkDeployed, c
  <1>5. MarkNoSink(st) = [st EXCEPT !.conds = MarkFalse(c, "SinkProvided")]
    BY DEF MarkNoSink, c
  <1>6. \A a : MarkSink(st, a) = [conds |-> MarkTrue(c, "SinkProvided"), sinkURI |-> a]
    BY DEF MarkSink, c
  <1>. QED
    BY <1>1, <1>2, <1>3, <1>4, <1>5, <1>6 DEF Status, c

(* A source whose conditions are initialized claims no more than before.      *)
LEMMA InitializedType ==
    ASSUME NEW s \in SourceType
    PROVE  /\ Initialized(s) \in SourceType /\ Initialized(s).uid = s.uid
           /\ Initialized(s).status.conds["Deployed"] = "True" <=>
                 s.status.conds["Deployed"] = "True"
PROOF
  <1>. DEFINE c == s.status.conds
              d == InitializeConditions(c)
  <1>1. c \in Conditions /\ s.status \in Status /\ s.fins \subseteq Finalizers
    BY SourceFields
  <1>2. d \in Conditions
    BY <1>1 DEF InitializeConditions, Conditions, ConditionType, ConditionStatus
  <1>3. d["Deployed"] = "True" <=> c["Deployed"] = "True"
    BY <1>1 DEF InitializeConditions, Conditions, ConditionType, ConditionStatus
  <1>. HIDE DEF d
  <1>4. Initialized(s) = [s EXCEPT !.fins = s.fins \cup {Ours},
                                   !.status = [s.status EXCEPT !.conds = d]]
    BY <1>1 DEF Initialized, SourceType, Status, d
  <1>5. [s.status EXCEPT !.conds = d] \in Status /\ [s.status EXCEPT !.conds = d].conds = d
    BY <1>1, <1>2 DEF Status
  <1>6. s.fins \cup {Ours} \in SUBSET Finalizers
    BY <1>1 DEF Finalizers
  <1>. QED
    BY <1>3, <1>4, <1>5, <1>6 DEF SourceType

(* So does marking a source deployed, but for the claim.                      *)
LEMMA DeployedType ==
    ASSUME NEW s \in SourceType
    PROVE  Deployed(s) \in SourceType /\ Deployed(s).uid = s.uid
BY SourceFields, MarkTypes, WithStatusType DEF Deployed

(* The Deployment that is asked for is one.                                   *)
LEMMA TemplateTypes ==
    ASSUME NEW spec \in SourceSpec, NEW address \in StringValue
    PROVE  /\ PodSpec(spec, address) \in PodSpecType
           /\ Template(spec, address) \in TemplateType
PROOF
  <1>1. Empty \in StringValue
    BY DEF StringValue
  <1>2. Environment(spec, address) \in EnvironmentType
    BY <1>1 DEF Environment, EnvironmentType, SourceSpec
  <1>3. PodSpec(spec, address) \in PodSpecType
    BY <1>1, <1>2 DEF PodSpec, PodSpecType, SourceSpec
  <1>. QED
    BY <1>1, <1>3 DEF Template, TemplateType, SourceSpec

(* A free slot holds a value of the type.                                     *)
LEMMA NoDeploymentType == NoDeployment \in DeploymentType /\ NoDeployment.owner = 0
PROOF
  <1>1. Template(NoSpec, Empty) \in TemplateType
    BY NoSourceType, TemplateTypes DEF StringValue
  <1>. QED
    BY <1>1, ReconcilerAssumption DEF NoDeployment, DeploymentType

-----------------------------------------------------------------------------
(* The inductive invariant *)

ServerType ==
    /\ src \in SourceType /\ uids \in 0..MaxUID /\ created \subseteq 1..MaxUID
    /\ deps \in [Slot -> DeploymentType]

CacheType ==
    /\ srcCache \in SourceType /\ depCache \in [Slot -> DeploymentType]
    /\ current \subseteq {"srcCache", "fresh"}

LocalType ==
    /\ {orig, obj, fresh} \subseteq SourceType
    /\ uri \in StringValue
    /\ pc \in {"list", "create", "updateDep"} => uri \in Addresses
    /\ ra \in 0..MaxDeployments /\ oldRa \in DeploymentType
    /\ failed \in BOOLEAN
    /\ pc \in {"idle", "sink", "list", "create", "updateDep", "diff",
               "finalizers", "refetch", "status"}

OtherType ==
    /\ sink \in Addresses \cup {Empty} /\ changes \in 0..MaxChanges /\ queued \in BOOLEAN

(* A copy of the current version has the spec that is stored, and is marked   *)
(* as being deleted if and only if what is stored is.                         *)
Copies ==
    /\ "srcCache" \in current => srcCache = src
    /\ "fresh" \in current /\ pc \in {"finalizers", "status"} =>
          fresh.spec = src.spec /\ fresh.deleting = src.deleting

(* Deployments belong to sources one was created for, in the cache as well;   *)
(* Reconcile creates one into a free slot, and updates one of its own.        *)
Owned(deployments) == \A i \in Slot : deployments[i].owner \in created \cup {0}
Adapters ==
    /\ Owned(deps) /\ Owned(depCache)
    /\ pc # "idle" => Exists(obj)
    /\ pc = "create" => FreeSlots # {}
    /\ pc = "updateDep" => ra \in Slot /\ obj.uid \in created

IInv == ServerType /\ CacheType /\ LocalType /\ OtherType /\ Copies /\ Adapters

(* What a status says of a Deployment is true of the source it is in, in the  *)
(* API server, in the cache and in the copies Reconcile works on.             *)
Honest(s) == Condition(s, "Deployed") = "True" => s.uid \in created
Truthful == Honest(src) /\ Honest(srcCache) /\ Honest(obj) /\ Honest(fresh)

(* The invariant contains the type invariant.                                 *)
LEMMA TypesFollow == IInv => TypeOK
BY DEF IInv, TypeOK, ServerType, CacheType, LocalType, OtherType

(* The claims stay true when those of the source that is not created again do. *)
Claims == NotRecreated /\ Truthful

(* A write either leaves the source and the versions as they are, or makes    *)
(* every copy outdated.                                                       *)
LEMMA WriteKeeps ==
    ASSUME src \in SourceType, current \subseteq {"srcCache", "fresh"},
           NEW new \in SourceType, Write(new)
    PROVE  /\ src' \in SourceType /\ src' \in {new, NoSource}
           /\ current' \subseteq current
           /\ current' # {} => src' = src
BY NoSourceType DEF Write, Stored, Current

(* Nothing is kept of a Reconcile that has returned.                          *)
LEMMA ReturnIsGood ==
    ASSUME IInv, NEW error \in BOOLEAN, Return(error),
           src' \in SourceType, current' \subseteq current, current' # {} => src' = src,
           changes' \in 0..MaxChanges,
           UNCHANGED <<uids, deps, created, sink, cacheVars>>
    PROVE  IInv' /\ (Truthful /\ Honest(src)' => Truthful')
PROOF
  <1>. USE DEF cacheVars, IInv
  <1>1. /\ pc' = "idle" /\ uri' = Empty /\ ra' = 0 /\ failed' = FALSE
        /\ orig' = NoSource /\ obj' = NoSource /\ fresh' = NoSource /\ oldRa' = NoDeployment
        /\ queued' = (queued \/ error)
    BY DEF Return, Goto
  <1>2. LocalType'
    <2>1. {orig, obj, fresh}' \subseteq SourceType /\ oldRa' \in DeploymentType
      BY <1>1, NoSourceType, NoDeploymentType
    <2>2. uri' \in StringValue /\ ra' \in 0..MaxDeployments
      BY <1>1, ReconcilerAssumption DEF StringValue
    <2>. QED
      BY <1>1, <2>1, <2>2 DEF LocalType
  <1>3. ServerType' /\ CacheType'
    BY DEF ServerType, CacheType
  <1>4. OtherType'
    BY <1>1 DEF OtherType
  <1>5. Copies'
    BY <1>1 DEF Copies
  <1>6. Adapters'
    BY <1>1 DEF Adapters, Owned
  <1>7. Truthful /\ Honest(src)' => Truthful'
    BY <1>1, NoSourceType DEF Truthful, Honest, Condition
  <1>. QED
    BY <1>2, <1>3, <1>4, <1>5, <1>6, <1>7

(* A step of Reconcile that neither writes to the API server nor reads the    *)
(* source again.                                                              *)
LocalStep == UNCHANGED <<apiVars, current, sink, changes, cacheVars, fresh>>

(* Such a step keeps the invariant if its locals keep theirs.                 *)
LEMMA LocalStepIsGood ==
    ASSUME IInv, LocalStep, LocalType', queued' \in BOOLEAN,
           pc' \notin {"finalizers", "status"}, pc' # "idle" => Exists(obj)',
           pc' = "create" => FreeSlots # {},
           pc' = "updateDep" => ra' \in Slot /\ obj'.uid \in created
    PROVE  IInv' /\ (Truthful /\ Honest(obj)' => Truthful')
PROOF
  <1>. USE DEF LocalStep, apiVars, cacheVars, IInv
  <1>1. ServerType' /\ CacheType' /\ OtherType' /\ Copies'
    BY DEF ServerType, CacheType, OtherType, Copies
  <1>2. FreeSlots' = FreeSlots
    BY DEF FreeSlots
  <1>3. Adapters'
    BY <1>2 DEF Adapters, Owned, Exists
  <1>4. Truthful /\ Honest(obj)' => Truthful'
    BY DEF Truthful, Honest, Condition
  <1>. QED
    BY <1>1, <1>3, <1>4

-----------------------------------------------------------------------------
(* The steps of the reconcilers *)

(* The source is read: the copy to work on claims what the cache claims.      *)
LEMMA FetchIsGood ==
    ASSUME IInv, Fetch PROVE IInv' /\ (Claims => Truthful')
PROOF
  <1>. USE DEF IInv
  <1>1. LocalStep /\ queued' = FALSE /\ pc = "idle" /\ srcCache \in SourceType
    BY DEF Fetch, LocalStep, localVars, CacheType
  <1>2. CASE ~Exists(srcCache)
    <2>1. UNCHANGED <<pc, localVars>>
      BY <1>2 DEF Fetch
    <2>2. LocalType' /\ obj' = obj /\ pc' = pc
      BY <2>1 DEF localVars, LocalType
    <2>3. Claims => Honest(obj)'
      BY <1>1, <2>2 DEF Claims, Truthful, Honest, Condition, LocalStep, apiVars
    <2>. QED
      BY <1>1, <2>2, <2>3, LocalStepIsGood DEF Claims
  <1>3. CASE Exists(srcCache) /\ srcCache.deleting
    <2>1. /\ orig' = srcCache /\ obj' = [srcCache EXCEPT !.fins = srcCache.fins \ {Ours}]
          /\ pc' = "diff" /\ UNCHANGED <<uri, ra, oldRa, fresh, failed>>
      BY <1>1, <1>3 DEF Fetch, Goto, SourceType
    <2>2. srcCache.fins \ {Ours} \in SUBSET Finalizers
      BY <1>1, SourceFields
    <2>3. obj' \in SourceType /\ obj'.uid = srcCache.uid /\ obj'.status = srcCache.status
      BY <1>1, <2>1, <2>2, WithFins
    <2>4. LocalType'
      BY <1>1, <2>1, <2>3 DEF LocalType
    <2>5. Claims => Honest(obj)'
      BY <1>1, <2>3 DEF Claims, Truthful, Honest, Condition, LocalStep, apiVars
    <2>. QED
      BY <1>1, <1>3, <2>1, <2>3, <2>4, <2>5, LocalStepIsGood DEF Claims, Exists
  <1>4. CASE Exists(srcCache) /\ ~srcCache.deleting
    <2>1. /\ orig' = srcCache /\ obj' = Initialized(srcCache)
          /\ pc' = "sink" /\ UNCHANGED <<uri, ra, oldRa, fresh, failed>>
      BY <1>4 DEF Fetch, Goto
    <2>2. LocalType'
      BY <1>1, <2>1, InitializedType DEF LocalType
    <2>3. Claims => Honest(obj)'
      BY <1>1, <2>1, InitializedType DEF Claims, Truthful, Honest, Condition, LocalStep, apiVars
    <2>. QED
      BY <1>1, <1>4, <2>1, <2>2, <2>3, InitializedType, LocalStepIsGood DEF Claims, Exists
  <1>. QED
    BY <1>2, <1>3, <1>4

(* The sink is resolved or not; no claim about the Deployment is added.       *)
LEMMA GetSinkURIIsGood ==
    ASSUME IInv, GetSinkURI PROVE IInv' /\ (Claims => Truthful')
PROOF
  <1>. USE DEF IInv
  <1>1. /\ LocalStep /\ queued' = queued /\ pc = "sink" /\ UNCHANGED <<orig, ra, oldRa>>
        /\ obj \in SourceType /\ obj.status \in Status /\ Exists(obj) /\ queued \in BOOLEAN
    BY SourceFields DEF GetSinkURI, LocalStep, LocalType, OtherType, Adapters
  <1>2. CASE sink = Empty
    <2>1. /\ obj' = [obj EXCEPT !.status = MarkNoSink(obj.status)]
          /\ failed' = TRUE /\ pc' = "diff" /\ uri' = uri
      BY <1>1, <1>2 DEF GetSinkURI, Reconciled, Goto, SourceType
    <2>2. /\ obj' \in SourceType /\ obj'.uid = obj.uid
          /\ obj'.status.conds["Deployed"] = obj.status.conds["Deployed"]
      BY <1>1, <2>1, MarkTypes, WithStatusType
    <2>3. LocalType'
      BY <1>1, <2>1, <2>2 DEF LocalType, LocalStep
    <2>4. Claims => Honest(obj)'
      BY <1>1, <2>2 DEF Claims, Truthful, Honest, Condition, LocalStep, apiVars
    <2>. QED
      BY <1>1, <2>1, <2>2, <2>3, <2>4, LocalStepIsGood DEF Claims, Exists
  <1>3. CASE sink # Empty
    <2>1. /\ obj' = [obj EXCEPT !.status = MarkSink(obj.status, sink)]
          /\ uri' = sink /\ pc' = "list" /\ failed' = failed
      BY <1>1, <1>3 DEF GetSinkURI, Goto, SourceType
    <2>2. sink \in Addresses /\ sink \in StringValue
      BY <1>3, ReconcilerAssumption DEF OtherType, StringValue
    <2>3. /\ obj' \in SourceType /\ obj'.uid = obj.uid
          /\ obj'.status.conds["Deployed"] = obj.status.conds["Deployed"]
      BY <1>1, <2>1, <2>2, MarkTypes, WithStatusType
    <2>4. LocalType'
      BY <1>1, <2>1, <2>2, <2>3 DEF LocalType, LocalStep
    <2>5. Claims => Honest(obj)'
      BY <1>1, <2>3 DEF Claims, Truthful, Honest, Condition, LocalStep, apiVars
    <2>. QED
      BY <1>1, <2>1, <2>3, <2>4, <2>5, LocalStepIsGood DEF Claims, Exists
  <1>. QED
    BY <1>2, <1>3

(* A Deployment that is found was created for the source, so the claim that   *)
(* is made of it is true.                                                     *)
LEMMA ListDeploymentsIsGood ==
    ASSUME IInv, ListDeployments PROVE IInv' /\ (Claims => Truthful')
PROOF
  <1>. USE DEF IInv
  <1>1. /\ LocalStep /\ queued' = queued /\ pc = "list" /\ UNCHANGED <<orig, uri>>
        /\ obj \in SourceType /\ Exists(obj) /\ queued \in BOOLEAN
    BY DEF ListDeployments, LocalStep, LocalType, OtherType, Adapters
  <1>2. CASE Reconciled(obj, TRUE) /\ UNCHANGED <<ra, oldRa>>
    <2>1. obj' = obj /\ failed' = TRUE /\ pc' = "diff"
      BY <1>2 DEF Reconciled, Goto
    <2>2. LocalType'
      BY <1>1, <1>2, <2>1 DEF LocalType, LocalStep
    <2>3. Claims => Honest(obj)'
      BY <1>1, <2>1 DEF Claims, Truthful, Honest, Condition, LocalStep, apiVars
    <2>. QED
      BY <1>1, <2>1, <2>2, <2>3, LocalStepIsGood DEF Claims, Exists
  <1>3. CASE FreeSlots # {} /\ Goto("create") /\ UNCHANGED <<obj, ra, oldRa, failed>>
    <2>1. pc' = "create"
      BY <1>3 DEF Goto
    <2>2. LocalType'
      BY <1>1, <1>3, <2>1 DEF LocalType, LocalStep
    <2>3. Claims => Honest(obj)'
      BY <1>1, <1>3 DEF Claims, Truthful, Honest, Condition, LocalStep, apiVars
    <2>. QED
      BY <1>1, <1>3, <2>1, <2>2, <2>3, LocalStepIsGood DEF Claims, Exists
  <1>4. ASSUME NEW i \in Controlled(depCache, obj.uid),
               \/ ra' = i /\ oldRa' = depCache[i] /\ Goto("updateDep") /\ UNCHANGED <<obj, failed>>
               \/ Reconciled(Deployed(obj), FALSE) /\ UNCHANGED <<ra, oldRa>>
        PROVE  IInv' /\ (Claims => Truthful')
    <2>1. i \in Slot /\ depCache[i] \in DeploymentType /\ obj.uid \in created
      BY <1>1, <1>4 DEF Controlled, Adapters, Owned, CacheType, Exists
    <2>2. CASE ra' = i /\ oldRa' = depCache[i] /\ Goto("updateDep") /\ UNCHANGED <<obj, failed>>
      <3>1. pc' = "updateDep"
        BY <2>2 DEF Goto
      <3>2. LocalType'
        BY <1>1, <2>1, <2>2, <3>1 DEF LocalType, LocalStep, Slot
      <3>3. Claims => Honest(obj)'
        BY <1>1, <2>2 DEF Claims, Truthful, Honest, Condition, LocalStep, apiVars
      <3>. QED
        BY <1>1, <2>1, <2>2, <3>1, <3>2, <3>3, LocalStepIsGood DEF Claims, Exists
    <2>3. CASE Reconciled(Deployed(obj), FALSE) /\ UNCHANGED <<ra, oldRa>>
      <3>1. obj' = Deployed(obj) /\ failed' = FALSE /\ pc' = "diff"
        BY <2>3 DEF Reconciled, Goto
      <3>2. obj' \in SourceType /\ obj'.uid = obj.uid
        BY <1>1, <3>1, DeployedType
      <3>3. LocalType'
        BY <1>1, <2>3, <3>1, <3>2 DEF LocalType, LocalStep
      <3>4. Honest(obj)'
        BY <1>1, <2>1, <3>2 DEF Honest, LocalStep, apiVars
      <3>. QED
        BY <1>1, <3>1, <3>2, <3>3, <3>4, LocalStepIsGood DEF Claims, Exists
    <2>. QED
      BY <1>4, <2>2, <2>3
  <1>. QED
    BY <1>2, <1>3, <1>4, Zenon DEF ListDeployments

(* Reconcile ends with a copy of the same source; a Deployment of it may have *)
(* been created or updated.                                                   *)
LEMMA ReconciledIsGood ==
    ASSUME IInv, pc # "idle", NEW new \in SourceType, new.uid = obj.uid,
           NEW error \in BOOLEAN, Reconciled(new, error),
           deps' \in [Slot -> DeploymentType], Owned(deps)',
           created' \subseteq 1..MaxUID, created \subseteq created', changes' \in 0..MaxChanges,
           UNCHANGED <<src, uids, current, sink, cacheVars, queued, orig, uri, ra, oldRa, fresh>>
    PROVE  IInv' /\ (Truthful /\ Honest(obj)' => Truthful')
PROOF
  <1>. USE DEF cacheVars, IInv
  <1>1. obj' = new /\ failed' = error /\ pc' = "diff"
    BY DEF Reconciled, Goto
  <1>2. ServerType' /\ CacheType' /\ OtherType'
    BY DEF ServerType, CacheType, OtherType
  <1>3. LocalType' /\ Copies'
    BY <1>1 DEF LocalType, Copies
  <1>4. Adapters'
    BY <1>1 DEF Adapters, Owned, Exists
  <1>5. Truthful /\ Honest(obj)' => Truthful'
    BY DEF Truthful, Honest, Condition
  <1>. QED
    BY <1>2, <1>3, <1>4, <1>5

(* The new Deployment belongs to the source it is created for.                *)
LEMMA CreateKeeps ==
    ASSUME IInv, pc = "create", Create
    PROVE  /\ deps' \in [Slot -> DeploymentType] /\ Owned(deps)'
           /\ created' \subseteq 1..MaxUID /\ created' = created \cup {obj.uid}
PROOF
  <1>. DEFINE slot == CHOOSE i \in FreeSlots : TRUE
              new == [owner |-> obj.uid, template |-> Template(obj.spec, uri)]
  <1>1. deps' = [deps EXCEPT ![slot] = new] /\ created' = created \cup {obj.uid}
    BY DEF Create
  <1>2. obj \in SourceType /\ obj.uid \in 0..MaxUID /\ obj.uid # 0 /\ obj.spec \in SourceSpec
    BY SourceFields DEF IInv, LocalType, Adapters, Exists
  <1>3. new \in DeploymentType /\ new.owner = obj.uid
    BY <1>2, TemplateTypes DEF IInv, LocalType, DeploymentType
  <1>4. deps \in [Slot -> DeploymentType] /\ Owned(deps) /\ created \subseteq 1..MaxUID
    BY DEF IInv, ServerType, Adapters
  <1>. HIDE DEF slot, new
  <1>5. deps' \in [Slot -> DeploymentType]
    BY <1>1, <1>3, <1>4
  <1>6. Owned(deps)'
    BY <1>1, <1>3, <1>4 DEF Owned
  <1>7. created' \subseteq 1..MaxUID
    <2>1. obj.uid \in 1..MaxUID
      BY <1>2, ReconcilerAssumption
    <2>. QED
      BY <1>1, <1>4, <2>1
  <1>. QED
    BY <1>1, <1>5, <1>6, <1>7

(* A Deployment is created before the source says so; when the request fails, *)
(* or its answer is lost, the source says no more than before.                *)
LEMMA CreateIsGood ==
    ASSUME IInv, CreateDeployment \/ CreateFails PROVE IInv' /\ (Claims => Truthful')
PROOF
  <1>1. pc = "create" /\ obj \in SourceType /\ changes \in 0..MaxChanges
    BY DEF CreateDeployment, CreateFails, IInv, LocalType, OtherType
  <1>2. CASE CreateDeployment
    <2>1. Create /\ Reconciled(Deployed(obj), FALSE) /\ changes' = changes
      BY <1>2 DEF CreateDeployment
    <2>2. Honest(obj)'
      BY <1>1, <2>1, CreateKeeps, DeployedType DEF Honest, Reconciled
    <2>3. UNCHANGED <<src, uids, current, sink, cacheVars, queued, orig, uri, ra, oldRa, fresh>>
      BY <1>2 DEF CreateDeployment
    <2>. HIDE DEF Deployed
    <2>. QED
      BY <1>1, <2>1, <2>2, <2>3, CreateKeeps, DeployedType, ReconciledIsGood DEF Claims
  <1>3. CASE CreateFails
    <2>0. changes < MaxChanges /\ changes' = changes + 1
      BY <1>3 DEF CreateFails, Fault, Change
    <2>1. /\ Create \/ UNCHANGED <<deps, created>>
          /\ Reconciled(obj, TRUE) /\ changes' \in 0..MaxChanges
      <3>1. changes' \in 0..MaxChanges
        BY <1>1, <2>0, ReconcilerAssumption
      <3>. QED
        BY <1>3, <3>1 DEF CreateFails
    <2>2. UNCHANGED <<src, uids, current, sink, cacheVars, queued, orig, uri, ra, oldRa, fresh>>
      BY <1>3 DEF CreateFails
    <2>3. /\ deps' \in [Slot -> DeploymentType] /\ Owned(deps)'
          /\ created' \subseteq 1..MaxUID /\ created \subseteq created'
      <3>1. CASE Create
        BY <1>1, <3>1, CreateKeeps
      <3>2. CASE UNCHANGED <<deps, created>>
        BY <3>2 DEF IInv, ServerType, Adapters, Owned
      <3>. QED
        BY <2>1, <3>1, <3>2
    <2>4. Truthful => Honest(obj)'
      BY <2>1, <2>3 DEF Truthful, Honest, Condition, Reconciled
    <2>. QED
      BY <1>1, <2>1, <2>2, <2>3, <2>4, ReconciledIsGood DEF Claims
  <1>. QED
    BY <1>2, <1>3

(* An update replaces the pod of a Deployment and leaves it with its owner.   *)
LEMMA ReplacePodKeeps ==
    ASSUME IInv, pc = "updateDep", ReplacePod, created' = created
    PROVE  deps' \in [Slot -> DeploymentType] /\ Owned(deps)'
PROOF
  <1>. DEFINE old == deps[ra]
              pod == PodSpec(obj.spec, uri)
              new == [old EXCEPT !.template = [old.template EXCEPT !.pod = pod]]
  <1>1. /\ obj.spec \in SourceSpec /\ uri \in StringValue /\ ra \in Slot
        /\ deps \in [Slot -> DeploymentType] /\ Owned(deps)
    BY SourceFields DEF IInv, LocalType, Adapters, ServerType
  <1>2. deps' = [deps EXCEPT ![ra] = new]
    BY <1>1 DEF ReplacePod, DeploymentType, TemplateType
  <1>3. old \in DeploymentType /\ old.template \in TemplateType
    BY <1>1 DEF DeploymentType
  <1>4. pod \in PodSpecType
    BY <1>1, TemplateTypes
  <1>. HIDE DEF pod, old
  <1>5. [old.template EXCEPT !.pod = pod] \in TemplateType
    BY <1>3, <1>4 DEF TemplateType
  <1>6. new \in DeploymentType /\ new.owner = old.owner
    BY <1>3, <1>5 DEF DeploymentType
  <1>. HIDE DEF new
  <1>. QED
    BY <1>1, <1>2, <1>6 DEF Owned, old

(* The source says Deployed after the update went through; when it is refused *)
(* or fails, or its answer is lost, the source says no more than before.      *)
LEMMA UpdateDeploymentIsGood ==
    ASSUME IInv, UpdateDeployment \/ UpdateDeploymentFails
    PROVE  IInv' /\ (Claims => Truthful')
PROOF
  <1>1. /\ pc = "updateDep" /\ obj \in SourceType /\ obj.uid \in created
        /\ changes \in 0..MaxChanges /\ created' = created /\ created \subseteq 1..MaxUID
        /\ deps \in [Slot -> DeploymentType] /\ Owned(deps)
    BY DEF UpdateDeployment, UpdateDeploymentFails, IInv, LocalType, OtherType, Adapters,
           ServerType
  <1>2. UNCHANGED <<src, uids, current, sink, cacheVars, queued, orig, uri, ra, oldRa, fresh>>
    BY DEF UpdateDeployment, UpdateDeploymentFails
  <1>3. CASE UpdateDeployment /\ deps[ra] = oldRa
    <2>1. ReplacePod /\ Reconciled(Deployed(obj), FALSE) /\ changes' \in 0..MaxChanges
      BY <1>1, <1>3 DEF UpdateDeployment
    <2>2. Honest(obj)'
      BY <1>1, <2>1, DeployedType DEF Honest, Reconciled
    <2>. HIDE DEF Deployed
    <2>. QED
      BY <1>1, <1>2, <2>1, <2>2, ReplacePodKeeps, DeployedType, ReconciledIsGood DEF Claims
  <1>4. CASE UpdateDeployment /\ deps[ra] # oldRa
    <2>1. Reconciled(obj, TRUE) /\ deps' = deps /\ changes' \in 0..MaxChanges
      BY <1>1, <1>4 DEF UpdateDeployment
    <2>2. Owned(deps)'
      BY <1>1, <2>1 DEF Owned
    <2>3. Truthful => Honest(obj)'
      BY <1>1, <2>1 DEF Truthful, Honest, Condition, Reconciled
    <2>. QED
      BY <1>1, <1>2, <2>1, <2>2, <2>3, ReconciledIsGood DEF Claims
  <1>5. CASE UpdateDeploymentFails
    <2>0. changes < MaxChanges /\ changes' = changes + 1
      BY <1>5 DEF UpdateDeploymentFails, Fault, Change
    <2>1. changes' \in 0..MaxChanges
      BY <1>1, <2>0, ReconcilerAssumption
    <2>2. Reconciled(obj, TRUE) /\ (ReplacePod \/ deps' = deps)
      BY <1>5 DEF UpdateDeploymentFails
    <2>3. deps' \in [Slot -> DeploymentType] /\ Owned(deps)'
      <3>1. CASE ReplacePod
        BY <1>1, <3>1, ReplacePodKeeps
      <3>2. CASE deps' = deps
        BY <1>1, <3>2 DEF Owned
      <3>. QED
        BY <2>2, <3>1, <3>2
    <2>4. Truthful => Honest(obj)'
      BY <1>1, <2>2 DEF Truthful, Honest, Condition, Reconciled
    <2>. QED
      BY <1>1, <1>2, <2>1, <2>2, <2>3, <2>4, ReconciledIsGood DEF Claims
  <1>. QED
    BY <1>3, <1>4, <1>5

(* The source is read again for a write, with finalizers or status replaced.  *)
LEMMA RereadIsGood ==
    ASSUME IInv, pc # "idle", pc' \in {"finalizers", "status"},
           NEW new \in SourceType, Reread(new),
           new.spec = srcCache.spec, new.deleting = srcCache.deleting,
           UNCHANGED <<apiVars, sink, changes, cacheVars>>
    PROVE  IInv' /\ (Truthful /\ Honest(new) => Truthful')
PROOF
  <1>. USE DEF apiVars, cacheVars, IInv
  <1>1. /\ fresh' = new /\ UNCHANGED <<queued, orig, obj, uri, ra, oldRa, failed>>
        /\ current' = IF "srcCache" \in current THEN {"srcCache", "fresh"} ELSE {}
    BY DEF Reread
  <1>2. ServerType' /\ CacheType' /\ OtherType'
    BY <1>1 DEF ServerType, CacheType, OtherType
  <1>3. LocalType'
    BY <1>1 DEF LocalType
  <1>4. Copies'
    BY <1>1 DEF Copies
  <1>5. Adapters'
    BY <1>1 DEF Adapters, Owned, Exists
  <1>6. Truthful /\ Honest(new) => Truthful'
    BY <1>1 DEF Truthful, Honest, Condition
  <1>. QED
    BY <1>2, <1>3, <1>4, <1>5, <1>6

(* While a source is not created again, all copies of it have one uid.        *)
LEMMA OneUID ==
    ASSUME IInv, NotRecreated, NEW s \in SourceType, Honest(s), NEW t \in SourceType, Exists(t),
           t.status = s.status
    PROVE  Honest(t)
PROOF
  <1>1. created \subseteq 1..1
    BY DEF NotRecreated, IInv, ServerType
  <1>2. \A u \in created : u = 1
    BY <1>1
  <1>3. t.uid = 1
    BY SourceFields DEF NotRecreated, Exists
  <1>. QED
    BY <1>2, <1>3 DEF Honest, Condition

(* update compares and reads; nothing is left of a Reconcile that changed     *)
(* nothing.                                                                   *)
LEMMA CompareIsGood ==
    ASSUME IInv, Compare PROVE IInv' /\ (Claims => Truthful')
PROOF
  <1>1. /\ pc = "diff" /\ UNCHANGED <<apiVars, sink, changes, cacheVars>>
        /\ failed \in BOOLEAN /\ srcCache \in SourceType /\ obj \in SourceType
        /\ src \in SourceType /\ changes \in 0..MaxChanges
        /\ obj.fins \in SUBSET Finalizers
    BY SourceFields DEF Compare, IInv, LocalType, CacheType, ServerType, OtherType
  <1>2. ASSUME NEW error \in BOOLEAN, Return(error), current' = current
        PROVE  IInv' /\ (Claims => Truthful')
    BY <1>1, <1>2, ReturnIsGood DEF Claims, apiVars, Truthful, Honest, Condition
  <1>3. ASSUME Exists(srcCache), Reread([srcCache EXCEPT !.fins = obj.fins]), Goto("finalizers")
        PROVE  IInv' /\ (Claims => Truthful')
    <2>. DEFINE new == [srcCache EXCEPT !.fins = obj.fins]
    <2>1. /\ new \in SourceType /\ new.uid = srcCache.uid /\ new.status = srcCache.status
          /\ new.spec = srcCache.spec /\ new.deleting = srcCache.deleting
      BY <1>1, WithFins
    <2>2. Reread(new) /\ pc' = "finalizers"
      BY <1>3 DEF Goto
    <2>. HIDE DEF new
    <2>3. Truthful => Honest(new)
      BY <2>1 DEF Truthful, Honest, Condition
    <2>. QED
      BY <1>1, <2>1, <2>2, <2>3, RereadIsGood DEF Claims
  <1>. QED
    BY <1>1, <1>2, <1>3, Zenon DEF Compare

(* The second read takes the status of the copy, so its claim comes along.    *)
LEMMA RefetchIsGood ==
    ASSUME IInv, Refetch PROVE IInv' /\ (Claims => Truthful')
PROOF
  <1>1. /\ pc = "refetch" /\ UNCHANGED <<apiVars, sink, changes, cacheVars>>
        /\ srcCache \in SourceType /\ obj \in SourceType
        /\ src \in SourceType /\ changes \in 0..MaxChanges
        /\ obj.status \in Status
    BY SourceFields DEF Refetch, IInv, LocalType, CacheType, ServerType, OtherType
  <1>2. CASE Return(TRUE) /\ current' = current
    BY <1>1, <1>2, ReturnIsGood DEF Claims, apiVars, Truthful, Honest, Condition
  <1>3. CASE Exists(srcCache) /\ Reread([srcCache EXCEPT !.status = obj.status]) /\ Goto("status")
    <2>. DEFINE new == [srcCache EXCEPT !.status = obj.status]
    <2>1. /\ new \in SourceType /\ new.uid = srcCache.uid /\ new.status = obj.status
          /\ new.spec = srcCache.spec /\ new.deleting = srcCache.deleting
      BY <1>1, WithStatusType
    <2>2. Reread(new) /\ pc' = "status"
      BY <1>3 DEF Goto
    <2>. HIDE DEF new
    <2>3. Claims => Honest(new)
      BY <1>1, <1>3, <2>1, OneUID DEF Claims, Truthful, Exists
    <2>. QED
      BY <1>1, <2>1, <2>2, <2>3, RereadIsGood DEF Claims
  <1>. QED
    BY <1>2, <1>3, Zenon DEF Refetch

(* Finalizers and status are written, or the write is refused or fails.  The  *)
(* status is written to what is stored, whose uid is that of the copy if the  *)
(* source is not created again.                                               *)
LEMMA WriteBackType ==
    ASSUME IInv
    PROVE  /\ src \in SourceType /\ fresh \in SourceType /\ fresh.status \in Status
           /\ WithStatus(src) \in SourceType /\ WithStatus(src).spec = src.spec
           /\ WithStatus(src).deleting = src.deleting
           /\ Claims /\ Exists(src) => Honest(WithStatus(src))
PROOF
  <1>1. src \in SourceType /\ fresh \in SourceType /\ fresh.status \in Status
    BY SourceFields DEF IInv, ServerType, LocalType
  <1>. DEFINE new == [src EXCEPT !.status = fresh.status]
  <1>2. /\ new \in SourceType /\ new.uid = src.uid /\ new.status = fresh.status
        /\ new.spec = src.spec /\ new.deleting = src.deleting
    BY <1>1, WithStatusType
  <1>3. WithStatus(src) = new
    BY DEF WithStatus
  <1>. HIDE DEF new
  <1>4. Claims /\ Exists(src) => Honest(new)
    BY <1>1, <1>2, OneUID DEF Claims, Truthful, Exists
  <1>. QED
    BY <1>1, <1>2, <1>3, <1>4

(* A write of the source that is no end of a Reconcile.                       *)
LEMMA WriteIsGood ==
    ASSUME IInv, NEW new \in SourceType, Write(new),
           uids' \in 0..MaxUID, changes' \in 0..MaxChanges,
           pc' = pc \/ (pc = "finalizers" /\ pc' = "refetch"),
           UNCHANGED <<deps, created, sink, cacheVars, queued, localVars>>
    PROVE  IInv' /\ (Truthful /\ Honest(new) => Truthful')
PROOF
  <1>. USE DEF cacheVars, localVars, IInv
  <1>1. /\ src' \in SourceType /\ src' \in {new, NoSource}
        /\ current' \subseteq current /\ (current' # {} => src' = src)
    BY WriteKeeps DEF ServerType, CacheType
  <1>2. ServerType' /\ CacheType' /\ OtherType'
    BY <1>1 DEF ServerType, CacheType, OtherType
  <1>3. LocalType'
    BY DEF LocalType
  <1>4. Copies'
    BY <1>1 DEF Copies
  <1>5. FreeSlots' = FreeSlots
    BY DEF FreeSlots
  <1>6. Adapters'
    BY <1>5 DEF Adapters, Owned, Exists
  <1>7. Truthful /\ Honest(new) => Truthful'
    BY <1>1, NoSourceType DEF Truthful, Honest, Condition
  <1>. QED
    BY <1>2, <1>3, <1>4, <1>6, <1>7

(* The steps that write back.                                                 *)
LEMMA WriteBackIsGood ==
    ASSUME IInv, UpdateFinalizers \/ UpdateStatus \/ UpdateRefused \/ UpdateFails
    PROVE  IInv' /\ (Claims => Truthful')
PROOF
  <1>1. /\ src \in SourceType /\ current \subseteq {"srcCache", "fresh"} /\ failed \in BOOLEAN
        /\ uids \in 0..MaxUID /\ changes \in 0..MaxChanges
    BY DEF IInv, ServerType, CacheType, LocalType, OtherType
  <1>2. CASE UpdateFinalizers
    <2>1. /\ Write(fresh) /\ pc = "finalizers" /\ pc' = "refetch"
          /\ UNCHANGED <<uids, deps, created, sink, changes, cacheVars, queued, localVars>>
      BY <1>2 DEF UpdateFinalizers, Goto
    <2>. QED
      BY <1>1, <2>1, WriteBackType, WriteIsGood DEF Claims, Truthful
  <1>3. ASSUME NEW new \in SourceType, Write(new), NEW error \in BOOLEAN, Return(error),
               changes' \in 0..MaxChanges, UNCHANGED <<uids, deps, created, sink, cacheVars>>,
               Claims => Honest(new)
        PROVE  IInv' /\ (Claims => Truthful')
    <2>1. /\ src' \in SourceType /\ src' \in {new, NoSource}
          /\ current' \subseteq current /\ (current' # {} => src' = src)
      BY <1>1, <1>3, WriteKeeps
    <2>2. Claims => Honest(src)'
      BY <1>3, <2>1, NoSourceType DEF Honest, Condition
    <2>. QED
      BY <1>3, <2>1, <2>2, ReturnIsGood DEF Claims
  <1>4. CASE UpdateStatus
    <2>1. /\ Exists(src) /\ Write(WithStatus(src)) /\ Return(failed) /\ changes' = changes
          /\ UNCHANGED <<uids, deps, created, sink, cacheVars>>
      BY <1>4 DEF UpdateStatus, StatusUpdateAllowed
    <2>. QED
      BY <1>1, <1>3, <2>1, WriteBackType
  <1>5. CASE UpdateRefused
    <2>1. Return(TRUE) /\ UNCHANGED <<apiVars, current, sink, changes, cacheVars>>
      BY <1>5 DEF UpdateRefused
    <2>. QED
      BY <1>1, <2>1, ReturnIsGood DEF apiVars, Claims, Truthful, Honest, Condition
  <1>6. CASE UpdateFails
    <2>1. changes < MaxChanges /\ changes' = changes + 1
      BY <1>6 DEF UpdateFails, Fault, Change
    <2>2. changes' \in 0..MaxChanges
      BY <1>1, <2>1, ReconcilerAssumption
    <2>3. /\ Exists(src) /\ Return(TRUE) /\ UNCHANGED <<uids, deps, created, sink, cacheVars>>
          /\ Write(src) \/ Write(fresh) \/ Write(WithStatus(src))
      BY <1>6 DEF UpdateFails, UpdateAllowed, StatusUpdateAllowed
    <2>. QED
      BY <1>1, <1>3, <2>2, <2>3, WriteBackType DEF Claims, Truthful
  <1>. QED
    BY <1>2, <1>4, <1>5, <1>6

-----------------------------------------------------------------------------
(* The steps around them *)

(* What the informers bring is what the server has.                           *)
LEMMA DeliveryIsGood ==
    ASSUME IInv, DeliverSource \/ DeliverDeployments \/ Resync
    PROVE  IInv' /\ (Claims => Truthful')
PROOF
  <1>. USE DEF apiVars, localVars, cacheVars, IInv
  <1>1. /\ srcCache' \in {srcCache, src} /\ depCache' \in {depCache, deps} /\ queued' = TRUE
        /\ UNCHANGED <<apiVars, sink, changes, pc, localVars>>
    BY DEF DeliverSource, DeliverDeployments, Resync
  <1>2. \/ current' = current /\ srcCache' = srcCache
        \/ current' = current \cup {"srcCache"} /\ srcCache' = src
    BY DEF DeliverSource, DeliverDeployments, Resync
  <1>3. ServerType' /\ CacheType' /\ OtherType'
    BY <1>1, <1>2 DEF ServerType, CacheType, OtherType
  <1>4. LocalType'
    BY <1>1 DEF LocalType
  <1>5. Copies'
    BY <1>1, <1>2 DEF Copies
  <1>6. FreeSlots # {} => FreeSlots' # {}
    BY <1>1 DEF FreeSlots
  <1>7. Adapters'
    BY <1>1, <1>6 DEF Adapters, Owned, Exists
  <1>8. Truthful => Truthful'
    BY <1>1 DEF Truthful, Honest, Condition
  <1>. QED
    BY <1>3, <1>4, <1>5, <1>7, <1>8 DEF Claims

(* A controller that starts again has nothing but what it lists.              *)
LEMMA RestartIsGood ==
    ASSUME IInv, RestartController PROVE IInv' /\ (Claims => Truthful')
PROOF
  <1>. USE DEF apiVars, IInv
  <1>0. changes' \in 0..MaxChanges
    <2>1. changes < MaxChanges /\ changes' = changes + 1
      BY DEF RestartController, Change
    <2>. QED
      BY <2>1, ReconcilerAssumption DEF OtherType
  <1>1. /\ srcCache' = src /\ depCache' = deps /\ current' = {"srcCache"}
        /\ pc' = "idle" /\ uri' = Empty /\ ra' = 0 /\ failed' = FALSE
        /\ orig' = NoSource /\ obj' = NoSource /\ fresh' = NoSource /\ oldRa' = NoDeployment
        /\ queued' = Exists(src) /\ UNCHANGED <<apiVars, sink>>
    BY DEF RestartController, Goto
  <1>2. LocalType'
    <2>1. {orig, obj, fresh}' \subseteq SourceType /\ oldRa' \in DeploymentType
      BY <1>1, NoSourceType, NoDeploymentType
    <2>2. uri' \in StringValue /\ ra' \in 0..MaxDeployments
      BY <1>1, ReconcilerAssumption DEF StringValue
    <2>. QED
      BY <1>1, <2>1, <2>2 DEF LocalType
  <1>3. queued' \in BOOLEAN
    BY <1>1, Zenon DEF Exists
  <1>4. ServerType' /\ CacheType' /\ OtherType'
    BY <1>0, <1>1, <1>3 DEF ServerType, CacheType, OtherType
  <1>5. Copies' /\ Adapters'
    BY <1>1 DEF Copies, Adapters, Owned
  <1>6. Truthful => Truthful'
    BY <1>1, NoSourceType DEF Truthful, Honest, Condition
  <1>. QED
    BY <1>2, <1>4, <1>5, <1>6 DEF Claims

(* Users and other controllers write the source, but no status.               *)
LEMMA SourceChangeIsGood ==
    ASSUME IInv,
           \/ \E spec \in Specs : CreateSource(spec) \/ EditSpec(spec)
           \/ DeleteSource \/ AddForeign \/ RemoveForeign
    PROVE  IInv' /\ (Claims => Truthful')
PROOF
  <1>1. /\ src \in SourceType /\ uids \in 0..MaxUID /\ changes \in 0..MaxChanges
        /\ src.fins \subseteq Finalizers
    BY SourceFields DEF IInv, ServerType, OtherType
  <1>2. Change => changes' \in 0..MaxChanges
    <2>1. Change => changes < MaxChanges /\ changes' = changes + 1
      BY DEF Change
    <2>. QED
      BY <1>1, <2>1, ReconcilerAssumption
  <1>3. ASSUME NEW new \in SourceType, new.status = src.status, new.uid = src.uid,
               ChangeSource(new), changes' \in 0..MaxChanges
        PROVE  IInv' /\ (Claims => Truthful')
    <2>1. Truthful => Honest(new)
      BY <1>3 DEF Truthful, Honest, Condition
    <2>. QED
      BY <1>1, <1>3, <2>1, WriteIsGood DEF ChangeSource, Claims
  <1>4. ASSUME NEW spec \in Specs, CreateSource(spec) PROVE IInv' /\ (Claims => Truthful')
    <2>. DEFINE new == [NoSource EXCEPT !.uid = uids', !.spec = spec]
    <2>1. /\ Write(new) /\ uids < MaxUID /\ uids' = uids + 1
          /\ UNCHANGED <<deps, created, sink, changes, cacheVars, queued, pc, localVars>>
      BY <1>4 DEF CreateSource
    <2>2. uids' \in 0..MaxUID /\ spec \in SourceSpec
      BY <1>1, <2>1, ReconcilerAssumption
    <2>3. new \in SourceType /\ new.status = NoSource.status
      BY <2>2, NoSourceType DEF SourceType
    <2>. HIDE DEF new
    <2>4. Honest(new)
      BY <2>3, NoSourceType DEF Honest, Condition
    <2>. QED
      BY <1>1, <2>1, <2>2, <2>3, <2>4, WriteIsGood DEF Claims
  <1>5. ASSUME NEW spec \in Specs, EditSpec(spec) PROVE IInv' /\ (Claims => Truthful')
    <2>1. spec \in SourceSpec
      BY ReconcilerAssumption
    <2>2. LET new == [src EXCEPT !.spec = spec]
          IN  new \in SourceType /\ new.status = src.status /\ new.uid = src.uid
      BY <1>1, <2>1 DEF SourceType
    <2>. QED
      BY <1>2, <1>3, <1>5, <2>2 DEF EditSpec
  <1>6. CASE DeleteSource
    <2>1. LET new == [src EXCEPT !.deleting = TRUE]
          IN  new \in SourceType /\ new.status = src.status /\ new.uid = src.uid
      BY <1>1 DEF SourceType
    <2>. QED
      BY <1>2, <1>3, <1>6, <2>1 DEF DeleteSource
  <1>7. CASE AddForeign
    <2>1. src.fins \cup {Foreign} \in SUBSET Finalizers
      BY <1>1 DEF Finalizers
    <2>2. /\ ChangeSource([src EXCEPT !.fins = src.fins \cup {Foreign}])
          /\ changes' \in 0..MaxChanges
      BY <1>1, <1>2, <1>7 DEF AddForeign, SourceType
    <2>. QED
      BY <1>1, <1>3, <2>1, <2>2, WithFins
  <1>8. CASE RemoveForeign
    <2>1. src.fins \ {Foreign} \in SUBSET Finalizers
      BY <1>1
    <2>2. /\ ChangeSource([src EXCEPT !.fins = src.fins \ {Foreign}])
          /\ changes' \in 0..MaxChanges
      BY <1>1, <1>8 DEF RemoveForeign, SourceType
    <2>. QED
      BY <1>1, <1>3, <2>1, <2>2, WithFins
  <1>. QED
    BY <1>4, <1>5, <1>6, <1>7, <1>8

(* The sink moves, or a Deployment disappears: its slot becomes free.         *)
LEMMA SurroundingsAreGood ==
    ASSUME IInv,
           \/ \E address \in Addresses \cup {Empty} : ChangeSink(address)
           \/ \E i \in Slot : DeleteDeployment(i) \/ CollectGarbage(i)
    PROVE  IInv' /\ (Claims => Truthful')
PROOF
  <1>. USE DEF apiVars, cacheVars, localVars, IInv
  <1>1. /\ UNCHANGED <<src, uids, created, current, cacheVars, queued, pc, localVars>>
        /\ sink' \in Addresses \cup {Empty}
        /\ deps' = deps \/ \E i \in Slot : deps' = [deps EXCEPT ![i] = NoDeployment]
    BY DEF ChangeSink, DeleteDeployment, CollectGarbage, Remove, OtherType
  <1>2. changes' \in 0..MaxChanges
    <2>1. changes' = changes \/ (changes < MaxChanges /\ changes' = changes + 1)
      BY DEF ChangeSink, DeleteDeployment, CollectGarbage, Change
    <2>. QED
      BY <2>1, ReconcilerAssumption DEF OtherType
  <1>3. deps' \in [Slot -> DeploymentType]
    BY <1>1, NoDeploymentType DEF ServerType
  <1>4. \A i \in Slot : deps'[i].owner \in {deps[i].owner, 0}
    BY <1>1, NoDeploymentType DEF ServerType
  <1>5. ServerType' /\ CacheType' /\ OtherType'
    BY <1>1, <1>2, <1>3 DEF ServerType, CacheType, OtherType
  <1>6. LocalType' /\ Copies'
    BY <1>1 DEF LocalType, Copies
  <1>7. FreeSlots # {} => FreeSlots' # {}
    BY <1>1, <1>4 DEF FreeSlots
  <1>8. Adapters'
    BY <1>1, <1>4, <1>7 DEF Adapters, Owned, Exists
  <1>9. Truthful => Truthful'
    BY <1>1 DEF Truthful, Honest, Condition
  <1>. QED
    BY <1>5, <1>6, <1>8, <1>9 DEF Claims

-----------------------------------------------------------------------------
(* The theorems *)

(* The invariant is inductive, and so is the truth of the claims with it.     *)
LEMMA StepIsGood == IInv /\ [Next]_vars => IInv' /\ (Claims => Truthful')
PROOF
  <1>. SUFFICES ASSUME IInv, [Next]_vars PROVE IInv' /\ (Claims => Truthful')
    OBVIOUS
  <1>1. CASE ReconcilerStep
    BY <1>1, FetchIsGood, GetSinkURIIsGood, ListDeploymentsIsGood, CreateIsGood,
       UpdateDeploymentIsGood, CompareIsGood, RefetchIsGood, WriteBackIsGood, Zenon
       DEF ReconcilerStep
  <1>2. CASE DeliverSource \/ DeliverDeployments \/ Resync \/ RestartController
    BY <1>2, DeliveryIsGood, RestartIsGood
  <1>3. CASE EnvironmentStep
    BY <1>3, SourceChangeIsGood, SurroundingsAreGood, Zenon DEF EnvironmentStep
  <1>4. CASE UNCHANGED vars
    <2>. USE <1>4 DEF vars, apiVars, cacheVars, localVars
    <2>1. ServerType' /\ CacheType' /\ LocalType' /\ OtherType'
      BY DEF IInv, ServerType, CacheType, LocalType, OtherType
    <2>2. Copies' /\ Adapters'
      BY DEF IInv, Copies, Adapters, Owned, FreeSlots, Exists
    <2>3. Truthful => Truthful'
      BY DEF Truthful, Honest, Condition
    <2>. QED
      BY <2>1, <2>2, <2>3 DEF IInv, Claims
  <1>. QED
    BY <1>1, <1>2, <1>3, <1>4 DEF Next

(* It holds at first, when there is no source.                                *)
LEMMA InitIsGood == Init => IInv /\ Truthful
PROOF
  <1>. SUFFICES ASSUME Init PROVE IInv /\ Truthful
    OBVIOUS
  <1>. USE DEF Init
  <1>1. 0 \in 0..MaxUID /\ 0 \in 0..MaxDeployments /\ 0 \in 0..MaxChanges
    BY ReconcilerAssumption
  <1>2. ServerType /\ CacheType
    BY <1>1, NoSourceType, NoDeploymentType DEF ServerType, CacheType
  <1>3. LocalType /\ OtherType
    BY <1>1, NoSourceType, NoDeploymentType DEF LocalType, OtherType, StringValue
  <1>4. Copies /\ Adapters
    BY NoDeploymentType DEF Copies, Adapters, Owned
  <1>5. Truthful
    BY NoSourceType DEF Truthful, Honest, Condition
  <1>. QED
    BY <1>2, <1>3, <1>4, <1>5 DEF IInv

(* Every variable keeps its type; in particular Reconcile goes on beyond the  *)
(* sink with an address only.                                                 *)
THEOREM TypeCorrect == Spec => []TypeOK
BY InitIsGood, StepIsGood, TypesFollow, PTL DEF Spec

(* Writing back whole objects that were read from a cache never undoes a      *)
(* user's edit of the spec or a deletion: the first write is refused unless   *)
(* the cached copy was current, and the second takes nothing but the status.  *)
THEOREM EditsSurvive == Spec => UserSpecKept
PROOF
  <1>1. IInv /\ [Next]_vars =>
          [ReconcilerStep => \/ ~Exists(src')
                             \/ src'.spec = src.spec /\ src'.deleting = src.deleting]_vars
    <2>. SUFFICES ASSUME IInv, ReconcilerStep, Exists(src')
                  PROVE  src'.spec = src.spec /\ src'.deleting = src.deleting
      OBVIOUS
    <2>1. ASSUME NEW new, Write(new), new.spec = src.spec, new.deleting = src.deleting
          PROVE  src'.spec = src.spec /\ src'.deleting = src.deleting
      <3>1. src' # NoSource
        BY NoSourceType DEF Exists
      <3>. QED
        BY <2>1, <3>1 DEF Write, Stored
    <2>2. UpdateAllowed /\ pc = "finalizers" =>
            fresh.spec = src.spec /\ fresh.deleting = src.deleting
      BY DEF IInv, Copies, UpdateAllowed
    <2>3. CASE UpdateFinalizers
      BY <2>1, <2>2, <2>3 DEF UpdateFinalizers
    <2>4. CASE UpdateStatus
      BY <2>1, <2>4, WriteBackType DEF UpdateStatus
    <2>5. CASE UpdateFails
      BY <2>1, <2>2, <2>5, WriteBackType DEF UpdateFails
    <2>6. CASE src' = src
      BY <2>6
    <2>7. UpdateFinalizers \/ UpdateStatus \/ UpdateFails \/ src' = src
      BY DEF ReconcilerStep, Fetch, GetSinkURI, ListDeployments, CreateDeployment, CreateFails,
             UpdateDeployment, UpdateDeploymentFails, Compare, Refetch, UpdateRefused, apiVars
    <2>. QED
      BY <2>3, <2>4, <2>5, <2>6, <2>7
  <1>. QED
    BY <1>1, InitIsGood, StepIsGood, PTL DEF Spec, UserSpecKept

(* A source that says Deployed has had a Deployment created for it, provided  *)
(* it is not deleted and created again under the same name; then the status   *)
(* of the old one may be written to the new one.                              *)
THEOREM DeployedIsTrue == NotRecreated /\ Spec => []DeployedMeansCreated
PROOF
  <1>. SUFFICES ASSUME NotRecreated PROVE Spec => []DeployedMeansCreated
    OBVIOUS
  <1>1. Init => IInv /\ Truthful
    BY InitIsGood
  <1>2. (IInv /\ Truthful) /\ [Next]_vars => (IInv /\ Truthful)'
    BY StepIsGood DEF Claims, NotRecreated
  <1>3. Truthful => DeployedMeansCreated
    BY DEF Truthful, Honest, DeployedMeansCreated
  <1>. QED
    BY <1>1, <1>2, <1>3, PTL DEF Spec

=============================================================================
