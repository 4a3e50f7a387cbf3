---------------------------- MODULE ConditionSet ----------------------------
(* The condition manager of knative/pkg (condition_set.go) through which the  *)
(* status of a KinesisSource is written: a set of conditions, of which one is *)
(* the happy condition that sums up its dependents.  Reasons, messages and    *)
(* transition times are left out.                                             *)
CONSTANTS
    Happy,       \* the happy condition: Ready of a living resource
    Dependents,  \* the conditions it depends on
    Others       \* conditions outside the set, which may be marked as well

ASSUME ConditionAssumption ==
    /\ Happy \notin Dependents \cup Others
    /\ Dependents \cap Others = {}

ConditionType == {Happy} \cup Dependents \cup Others

(* A condition that is not in the list is unset.                              *)
ConditionStatus == {"unset", "Unknown", "False", "True"}
Conditions == [ConditionType -> ConditionStatus]
NoConditions == [t \in ConditionType |-> "unset"]

SetCondition(conds, t, st) == [conds EXCEPT ![t] = st]

(* Bug variant: the dependents looked at do not include t itself, and failed  *)
(* ones alone hold back the happy condition.                                  *)
MarkTrueUnlessFalse(conds, t) ==
    LET marked == SetCondition(conds, t, "True") IN
    IF \A d \in Dependents : marked[d] # "False"
    THEN SetCondition(marked, Happy, "True")
    ELSE marked

(* The happy condition follows when every dependent is true; otherwise it     *)
(* stays what it was.                                                         *)
MarkTrue(conds, t) ==
    LET marked == SetCondition(conds, t, "True") IN
    IF \A d \in Dependents : marked[d] = "True"
    THEN SetCondition(marked, Happy, "True")
    ELSE marked

(* Bug variant: the happy condition becomes unknown without a look at the     *)
(* other dependents.                                                          *)
MarkUnknownAlways(conds, t) ==
    LET marked == SetCondition(conds, t, "Unknown") IN
    IF t \in Dependents THEN SetCondition(marked, Happy, "Unknown") ELSE marked

(* A dependent that failed keeps the happy condition false; otherwise an      *)
(* unknown dependent makes it unknown.                                        *)
MarkUnknown(conds, t) ==
    LET marked == SetCondition(conds, t, "Unknown") IN
    IF \E d \in Dependents : marked[d] = "False"
    THEN SetCondition(marked, Happy, "False")
    ELSE IF t \in Dependents THEN SetCondition(marked, Happy, "Unknown") ELSE marked

MarkFalse(conds, t) ==
    LET marked == SetCondition(conds, t, "False") IN
    IF t \in Dependents THEN SetCondition(marked, Happy, "False") ELSE marked

(* InitializeConditions: what is unset in the set becomes unknown.            *)
InitializeConditions(conds) ==
    [t \in ConditionType |->
        IF t \notin Others /\ conds[t] = "unset" THEN "Unknown" ELSE conds[t]]

IsHappy(conds) == conds[Happy] = "True"

=============================================================================
