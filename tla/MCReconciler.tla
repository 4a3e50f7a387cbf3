---------------------------- MODULE MCReconciler ----------------------------
(* Small instances of SourceReconciler.tla for TLC.                           *)
EXTENDS SourceReconciler

CONSTANTS v1, v2, empty, ours, foreign

(* Specs as in the samples: a secret, or two roles for KIAM to assume.        *)
Secret == [NoSpec EXCEPT !.secretName = v1, !.secretKey = v1]
Role1 == [NoSpec EXCEPT !.assignedRole = v1, !.kclRole = v1]
Role2 == [NoSpec EXCEPT !.assignedRole = v2, !.kclRole = v2]
(* A role for the pod but none to assume.                                     *)
RoleOnly == [NoSpec EXCEPT !.assignedRole = v1]

SecretRoleOrNothing == {Secret, Role1, NoSpec}
TwoRoles == {Role1, Role2}
RoleOrNothing == {Role1, NoSpec}
OneRole == {Role1}
NoneToAssume == {RoleOnly}

=============================================================================
