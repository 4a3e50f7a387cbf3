------------------------------ MODULE Delivery ------------------------------
(* What the receive adapter promises of a stream, all its processes taken     *)
(* together: the records of a shard are offered to the sink in their order,   *)
(* again after a restart, and what is committed was offered.  Only records    *)
(* put before the first iterator of a shard are passed over.  Who offers a    *)
(* record, from which cache, with which lease, and what the sink answers is   *)
(* no matter of this module.                                                  *)
EXTENDS Integers

CONSTANTS
    Shard,
    None, End,   \* committed: nothing yet, and the whole closed shard
    Alone        \* one process at a time, and it reads what was written

VARIABLES
    length,      \* length[s]: how many records were put into s
    closed,      \* the shards that take no more records
    expired,     \* those whose records are no longer there
    offered,     \* offered[s]: the records of s that were sent to the sink
    passed,      \* passed[s]: the records of s nobody ever meant to send
    committed    \* committed[s]: where a restart goes on

log == <<length, closed, expired>>
dvars == <<log, offered, passed, committed>>

DInit ==
    /\ length = [s \in Shard |-> 0]
    /\ closed = {} /\ expired = {}
    /\ offered = [s \in Shard |-> {}]
    /\ passed = [s \in Shard |-> {}]
    /\ committed = [s \in Shard |-> None]

(* Producers, reshards and the retention period.                              *)
Append(s) ==
    /\ s \notin closed
    /\ length' = [length EXCEPT ![s] = @ + 1]
    /\ UNCHANGED <<closed, expired, offered, passed, committed>>

Close(S) ==
    /\ S \cap closed = {}
    /\ closed' = closed \cup S
    /\ UNCHANGED <<length, expired, offered, passed, committed>>

Expire(s) ==
    /\ s \in closed
    /\ expired' = expired \cup {s}
    /\ UNCHANGED <<length, closed, offered, passed, committed>>

Done(s, n) == 1..n \subseteq offered[s] \cup passed[s]

(* No record is offered before those ahead of it, and none that is committed. *)
Offer(s, from, to) ==
    /\ Done(s, from - 1)
    /\ Alone => committed[s] # End /\ committed[s] < from
    /\ offered' = [offered EXCEPT ![s] = @ \cup from..to]
    /\ passed' = [passed EXCEPT ![s] = @ \ (from..to)]
    /\ UNCHANGED <<log, committed>>

(* A shard without a commit is read from its latest record on.                *)
Pass(s) ==
    /\ Alone => committed[s] = None
    /\ passed' = [passed EXCEPT ![s] = @ \cup ((1..length[s]) \ offered[s])]
    /\ UNCHANGED <<log, offered, committed>>

(* What is committed is done, and stays committed.                            *)
Commit(s, c) ==
    /\ IF c = End THEN s \in closed /\ Done(s, length[s]) ELSE Done(s, c)
    /\ Alone /\ s \notin expired => c = End \/ (committed[s] # End /\ committed[s] <= c)
    /\ committed' = [committed EXCEPT ![s] = c]
    /\ UNCHANGED <<log, offered, passed>>

Forget(S) ==
    /\ S \subseteq expired
    /\ committed' = [s \in Shard |-> IF s \in S THEN None ELSE committed[s]]
    /\ UNCHANGED <<log, offered, passed>>

DNext ==
    \/ \E S \in SUBSET Shard : Close(S) \/ Forget(S)
    \/ \E s \in Shard : Append(s) \/ Expire(s) \/ Pass(s)
    \/ \E s \in Shard : \E c \in 0..length[s] \cup {End} : Commit(s, c)
    \/ \E s \in Shard : \E to \in 1..length[s] : \E from \in 1..to : Offer(s, from, to)

DSpec == DInit /\ [][DNext]_dvars

=============================================================================
