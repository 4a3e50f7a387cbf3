------------------------------- MODULE MCFake -------------------------------
(* An instance of FakeClientset: a handle of a namespace, and one without  *)
(* namespace, as a cluster-wide test would take.                           *)
EXTENDS FakeClientset
CONSTANTS A, n, a1, d1, inA, inAll

MCHome == [c \in Clients |-> IF c = inA THEN A ELSE NoNS]
MCSeeds == {[ns |-> A, name |-> n, app |-> a1, data |-> d1]}
=============================================================================
