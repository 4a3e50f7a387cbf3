--------------------------- MODULE KinesisStream ---------------------------
(* The Kinesis stream as the shard consumers see it through the AWS API:      *)
(* every shard is an append-only log of records numbered from 1, shards are   *)
(* closed by a split or a merge that opens their children, and a closed shard *)
(* disappears once the retention period has passed.  The service itself is    *)
(* not in the repository: it is modelled from the calls the worker and the    *)
(* consumers make on it.                                                      *)
EXTENDS Shards

CONSTANT MaxHead    \* bound: records ever put into one shard

ASSUME MaxHeadAssumption == MaxHead \in Nat

VARIABLES
    phase,  \* phase[s]: not there yet, open, closed by a reshard, or expired
    head    \* head[s]: the number of the last record put into s

streamVars == <<phase, head>>

Phases == {"future", "open", "closed", "gone"}

StreamTypeOK ==
    /\ phase \in [Shard -> Phases]
    /\ head \in [Shard -> 0..MaxHead]

StreamInit ==
    /\ phase = [s \in Shard |-> IF Parents[s] = {} THEN "open" ELSE "future"]
    /\ head = [s \in Shard |-> 0]

(* The shards DescribeStream lists.                                           *)
Listed == {s \in Shard : phase[s] \in {"open", "closed"}}

Children(P) == {s \in Shard : Parents[s] = P}

(* A producer puts a record into an open shard.                               *)
PutRecord(s) ==
    /\ phase[s] = "open"
    /\ head[s] < MaxHead
    /\ head' = [head EXCEPT ![s] = @ + 1]
    /\ UNCHANGED phase

(* A split of the one shard of P, or a merge of the two: the parents take no  *)
(* more records, the children open empty.                                     *)
Reshard(P) ==
    /\ P # {}
    /\ Children(P) # {}
    /\ \A s \in P : phase[s] = "open"
    /\ \A s \in Children(P) : phase[s] = "future"
    /\ phase' = [s \in Shard |-> CASE s \in P           -> "closed"
                                   [] s \in Children(P) -> "open"
                                   [] OTHER             -> phase[s]]
    /\ UNCHANGED head

(* The retention period of a closed shard ends: it is no longer listed and    *)
(* its records can no longer be read.                                         *)
ExpireShard(s) ==
    /\ phase[s] = "closed"
    /\ phase' = [phase EXCEPT ![s] = "gone"]
    /\ UNCHANGED head

StreamNext ==
    \/ \E s \in Shard : PutRecord(s) \/ ExpireShard(s)
    \/ \E s \in Shard : Reshard(Parents[s])

=============================================================================
