------------------------------ MODULE MCProcess ------------------------------
(* One process with a parent shard and its child. *)
EXTENDS AdapterProcess

CONSTANTS p, c

MCParent == (p :> NoShard) @@ (c :> p)

(* A container with a role, one without credentials, an incomplete one. *)
MCContainers == {[required |-> TRUE, credsFile |-> FALSE, role |-> TRUE],
                 [required |-> TRUE, credsFile |-> FALSE, role |-> FALSE],
                 [required |-> FALSE, credsFile |-> TRUE, role |-> FALSE]}

(* A restart in the middle of the parent: its child has to wait. *)
MCTables == {(p :> "some") @@ (c :> "some")}

(* One answer of CloudWatch may be lost, about the child. *)
MCRepeats == (p :> 0) @@ (c :> 1)
=============================================================================
