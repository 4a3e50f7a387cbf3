-------------------------- MODULE ConditionsProofs --------------------------
(* Proofs about Conditions.tla, for every set of conditions with at least one *)
(* dependent.                                                                 *)
EXTENDS Conditions, TLAPS

-----------------------------------------------------------------------------
(* What one call returns *)

(* Setting a condition changes that one and no other.                         *)
LEMMA SetConditionType ==
    ASSUME NEW c \in Conditions, NEW t \in ConditionType, NEW st \in ConditionStatus
    PROVE  /\ SetCondition(c, t, st) \in Conditions
           /\ SetCondition(c, t, st)[t] = st
           /\ \A u \in ConditionType : u # t => SetCondition(c, t, st)[u] = c[u]
BY DEF SetCondition, Conditions

(* Setting the happy condition leaves its dependents alone.                   *)
LEMMA SetHappy ==
    ASSUME NEW c \in Conditions, NEW st \in ConditionStatus
    PROVE  /\ SetCondition(c, Happy, st) \in Conditions
           /\ SetCondition(c, Happy, st)[Happy] = st
           /\ \A d \in Dependents : SetCondition(c, Happy, st)[d] = c[d]
BY SetConditionType, ConditionAssumption DEF ConditionType

(* The summary a happy condition has to be.                                   *)
Summary(c) ==
    /\ c[Happy] = "True" <=> \A d \in Dependents : c[d] = "True"
    /\ (\E d \in Dependents : c[d] = "False") => c[Happy] = "False"

(* MarkTrue keeps the type and the summary.                                    *)
LEMMA MarkTrueKeeps ==
    ASSUME NEW c \in Conditions, Summary(c), NEW t \in Dependents \cup Others
    PROVE  MarkTrue(c, t) \in Conditions /\ Summary(MarkTrue(c, t))
PROOF
  <1>. DEFINE m == SetCondition(c, t, "True")
  <1>a. /\ t \in ConditionType /\ t # Happy
        /\ Happy \in ConditionType /\ Happy \notin Dependents
        /\ Dependents \subseteq ConditionType
    BY ConditionAssumption DEF ConditionType
  <1>b. "True" \in ConditionStatus /\ "Unknown" \in ConditionStatus /\ "False" \in ConditionStatus
    BY DEF ConditionStatus
  <1>1. /\ m \in Conditions /\ m[t] = "True"
        /\ \A u \in ConditionType : u # t => m[u] = c[u]
    BY <1>a, <1>b, SetConditionType
  <1>2. CASE \A d \in Dependents : m[d] = "True"
    <2>1. MarkTrue(c, t) = SetCondition(m, Happy, "True")
      BY <1>2 DEF MarkTrue
    <2>2. /\ MarkTrue(c, t) \in Conditions /\ MarkTrue(c, t)[Happy] = "True"
          /\ \A d \in Dependents : MarkTrue(c, t)[d] = m[d]
      BY <1>b, <1>1, <2>1, SetHappy, SMTT(30)
    <2>. QED
      BY <1>a, <1>1, <1>2, <2>2 DEF Summary
  <1>3. CASE ~ \A d \in Dependents : m[d] = "True"
    <2>1. MarkTrue(c, t) = m
      BY <1>3 DEF MarkTrue
    <2>. HIDE DEF m
    <2>2. \A d \in Dependents : m[d] = "False" => c[d] = "False"
      BY <1>a, <1>1
    <2>3. m[Happy] = c[Happy]
      BY <1>a, <1>1
    <2>4. ~ \A d \in Dependents : c[d] = "True"
      BY <1>a, <1>1, <1>3
    <2>. QED
      BY <1>1, <1>3, <2>1, <2>2, <2>3, <2>4 DEF Summary
  <1>. QED
    BY <1>2, <1>3

(* MarkUnknown keeps the type and the summary.                                *)
LEMMA MarkUnknownKeeps ==
    ASSUME NEW c \in Conditions, Summary(c), NEW t \in Dependents \cup Others
    PROVE  MarkUnknown(c, t) \in Conditions /\ Summary(MarkUnknown(c, t))
PROOF
  <1>. DEFINE m == SetCondition(c, t, "Unknown")
  <1>a. /\ t \in ConditionType /\ t # Happy
        /\ Happy \in ConditionType /\ Happy \notin Dependents
        /\ Dependents \subseteq ConditionType
    BY ConditionAssumption DEF ConditionType
  <1>b. "True" \in ConditionStatus /\ "Unknown" \in ConditionStatus /\ "False" \in ConditionStatus
    BY DEF ConditionStatus
  <1>1. /\ m \in Conditions /\ m[t] = "Unknown"
        /\ \A u \in ConditionType : u # t => m[u] = c[u]
    BY <1>a, <1>b, SetConditionType
  <1>2. CASE \E d \in Dependents : m[d] = "False"
    <2>1. MarkUnknown(c, t) = SetCondition(m, Happy, "False")
      BY <1>2 DEF MarkUnknown
    <2>2. /\ MarkUnknown(c, t) \in Conditions /\ MarkUnknown(c, t)[Happy] = "False"
          /\ \A d \in Dependents : MarkUnknown(c, t)[d] = m[d]
      BY <1>b, <1>1, <2>1, SetHappy, SMTT(30)
    <2>. QED
      BY <1>a, <1>1, <1>2, <2>2 DEF Summary
  <1>3. CASE (~ \E d \in Dependents : m[d] = "False") /\ t \in Dependents
    <2>1. MarkUnknown(c, t) = SetCondition(m, Happy, "Unknown")
      BY <1>3 DEF MarkUnknown
    <2>2. /\ MarkUnknown(c, t) \in Conditions /\ MarkUnknown(c, t)[Happy] = "Unknown"
          /\ \A d \in Dependents : MarkUnknown(c, t)[d] = m[d]
      BY <1>b, <1>1, <2>1, SetHappy, SMTT(30)
    <2>. QED
      BY <1>a, <1>1, <1>3, <2>2 DEF Summary
  <1>4. CASE (~ \E d \in Dependents : m[d] = "False") /\ t \notin Dependents
    <2>1. MarkUnknown(c, t) = m
      BY <1>4 DEF MarkUnknown
    <2>. HIDE DEF m
    <2>2. \A d \in Dependents : m[d] = c[d]
      BY <1>a, <1>1, <1>4
    <2>3. m[Happy] = c[Happy]
      BY <1>a, <1>1
    <2>. QED
      BY <1>1, <1>4, <2>1, <2>2, <2>3 DEF Summary
  <1>. QED
    BY <1>2, <1>3, <1>4

(* MarkFalse keeps the type and the summary.                                  *)
LEMMA MarkFalseKeeps ==
    ASSUME NEW c \in Conditions, Summary(c), NEW t \in Dependents \cup Others
    PROVE  MarkFalse(c, t) \in Conditions /\ Summary(MarkFalse(c, t))
PROOF
  <1>. DEFINE m == SetCondition(c, t, "False")
  <1>a. /\ t \in ConditionType /\ t # Happy
        /\ Happy \in ConditionType /\ Happy \notin Dependents
        /\ Dependents \subseteq ConditionType
    BY ConditionAssumption DEF ConditionType
  <1>b. "True" \in ConditionStatus /\ "Unknown" \in ConditionStatus /\ "False" \in ConditionStatus
    BY DEF ConditionStatus
  <1>1. /\ m \in Conditions /\ m[t] = "False"
        /\ \A u \in ConditionType : u # t => m[u] = c[u]
    BY <1>a, <1>b, SetConditionType
  <1>2. CASE t \in Dependents
    <2>1. MarkFalse(c, t) = SetCondition(m, Happy, "False")
      BY <1>2 DEF MarkFalse
    <2>2. /\ MarkFalse(c, t) \in Conditions /\ MarkFalse(c, t)[Happy] = "False"
          /\ \A d \in Dependents : MarkFalse(c, t)[d] = m[d]
      BY <1>b, <1>1, <2>1, SetHappy, SMTT(30)
    <2>. QED
      BY <1>a, <1>1, <1>2, <2>2 DEF Summary
  <1>3. CASE t \notin Dependents
    <2>1. MarkFalse(c, t) = m
      BY <1>3 DEF MarkFalse
    <2>. HIDE DEF m
    <2>2. (\A d \in Dependents : m[d] = c[d]) /\ m[Happy] = c[Happy]
      BY <1>a, <1>1, <1>3
    <2>. QED
      BY <1>1, <2>1, <2>2 DEF Summary
  <1>. QED
    BY <1>2, <1>3

(* InitializeConditions only fills in what is unset.                          *)
LEMMA InitializeKeeps ==
    ASSUME NEW c \in Conditions, Summary(c)
    PROVE  InitializeConditions(c) \in Conditions /\ Summary(InitializeConditions(c))
PROOF
  <1>1. \A t \in ConditionType :
           /\ InitializeConditions(c)[t] = "True" <=> c[t] = "True"
           /\ InitializeConditions(c)[t] = "False" <=> c[t] = "False"
    BY DEF InitializeConditions
  <1>2. Happy \in ConditionType /\ Dependents \subseteq ConditionType
    BY DEF ConditionType
  <1>3. InitializeConditions(c) \in Conditions
    BY DEF InitializeConditions, Conditions, ConditionStatus
  <1>. QED
    BY <1>1, <1>2, <1>3 DEF Summary

-----------------------------------------------------------------------------
(* Theorems *)

(* Every call keeps the types and the summary.                                *)
LEMMA SummaryHolds ==
    Dependents # {} /\ Spec => [](TypeOK /\ Summary(conds))
PROOF
  <1>. SUFFICES ASSUME Dependents # {}
                PROVE  Spec => [](TypeOK /\ Summary(conds))
    OBVIOUS
  <1>. DEFINE Inv == TypeOK /\ Summary(conds)
  <1>1. Init => Inv
    BY DEF Init, TypeOK, NoConditions, Conditions, ConditionStatus, ConditionType, Summary
  <1>2. Inv /\ [Next]_conds => Inv'
    <2>. SUFFICES ASSUME Inv, [Next]_conds PROVE Inv'
      OBVIOUS
    <2>1. CASE CallInitialize
      BY <2>1, InitializeKeeps DEF CallInitialize, TypeOK, Summary
    <2>2. ASSUME NEW t \in Dependents \cup Others, CallMarkTrue(t) PROVE Inv'
      BY <2>2, MarkTrueKeeps DEF CallMarkTrue, TypeOK, Summary
    <2>3. ASSUME NEW t \in Dependents \cup Others, CallMarkUnknown(t) PROVE Inv'
      BY <2>3, MarkUnknownKeeps DEF CallMarkUnknown, TypeOK, Summary
    <2>4. ASSUME NEW t \in Dependents \cup Others, CallMarkFalse(t) PROVE Inv'
      BY <2>4, MarkFalseKeeps DEF CallMarkFalse, TypeOK, Summary
    <2>5. CASE UNCHANGED conds
      BY <2>5 DEF TypeOK, Summary
    <2>. QED
      BY <2>1, <2>2, <2>3, <2>4, <2>5 DEF Next
  <1>. QED
    BY <1>1, <1>2, PTL DEF Spec

(* For every set of conditions and every order of calls the happy condition   *)
(* is the conjunction of its dependents, and shows a failed one whatever was  *)
(* marked true or unknown since. Without dependents the first half is false   *)
(* of the initial state, which has no happy condition yet.                    *)
THEOREM HappySumsUp ==
    Dependents # {} /\ Spec => [](TypeOK /\ HappySummarises)
PROOF
  <1>. SUFFICES ASSUME Dependents # {} PROVE Spec => [](TypeOK /\ HappySummarises)
    OBVIOUS
  <1>1. Spec => [](TypeOK /\ Summary(conds))
    BY SummaryHolds
  <1>2. TypeOK /\ Summary(conds) => TypeOK /\ HappySummarises
    BY DEF Summary, HappySummarises, IsHappy
  <1>. QED
    BY <1>1, <1>2, PTL

=============================================================================
