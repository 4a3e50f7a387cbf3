----------------------------- MODULE Conditions -----------------------------
(* Any sequence of calls on the conditions of one resource, in any order: the *)
(* order in which a reconciler marks them is not fixed by the library.        *)
EXTENDS ConditionSet

VARIABLE conds

TypeOK == conds \in Conditions

Init == conds = NoConditions

CallInitialize == conds' = InitializeConditions(conds)
CallMarkTrue(t) == conds' = MarkTrue(conds, t)
CallMarkUnknown(t) == conds' = MarkUnknown(conds, t)
CallMarkFalse(t) == conds' = MarkFalse(conds, t)

(* The happy condition itself is never marked by a caller.                    *)
Next ==
    \/ CallInitialize
    \/ \E t \in Dependents \cup Others :
          CallMarkTrue(t) \/ CallMarkUnknown(t) \/ CallMarkFalse(t)

Spec == Init /\ [][Next]_conds

-----------------------------------------------------------------------------
(* Properties *)

(* HappySummarises: whatever was marked before, and in whatever order, the    *)
(* happy condition is true exactly when all its dependents are, and while one *)
(* of them is false it is false, no matter what was marked true or unknown    *)
(* meanwhile (MarkTrue, MarkUnknown and MarkFalse together).                  *)
HappySummarises ==
    /\ IsHappy(conds) <=> \A d \in Dependents : conds[d] = "True"
    /\ (\E d \in Dependents : conds[d] = "False") => conds[Happy] = "False"

=============================================================================
