------------------------------ MODULE MCWorker ------------------------------
(* Small instances of Worker.tla for TLC.                                     *)
EXTENDS Worker

CONSTANTS p1, p2, w1, w2, noOwner, a, b, c, none

(* Every process of a source has the same worker id (adapter.go:139).         *)
SharedID == [p \in Process |-> w1]

(* One shard for ever; a split of a into b and c; a merge of a and b into c.  *)
NoParents == [s \in Shard |-> {}]
NoParent == [s \in Shard |-> none]
SplitParents == [s \in Shard |-> IF s = a THEN {} ELSE {a}]
SplitParent == [s \in Shard |-> IF s = a THEN none ELSE a]
MergeParents == [s \in Shard |-> IF s = c THEN {a, b} ELSE {}]
MergeParent == [s \in Shard |-> IF s = c THEN a ELSE none]

=============================================================================
