------------------------------- MODULE Shards -------------------------------
(* The shards of one Kinesis stream and the lineage that splits and merges   *)
(* give them.  Shard ids are never reused by Kinesis, so the shards of every  *)
(* generation are known from the start as constants; KinesisStream.tla says   *)
(* when each of them exists.                                                  *)
EXTENDS Integers

CONSTANTS
    Shard,          \* the ids of the shards of all generations
    NoShard,        \* the empty ParentShardId of a shard that has no parent
    Parents,        \* Parents[s]: the shards whose split or merge creates s
    ParentShardId   \* the one parent KCL keeps in shardStatus.ParentShardId

(* A shard is original (no parents), or it comes from a split (one parent)    *)
(* or a merge (two): ParentShardId names one of its parents.                  *)
ASSUME LineageAssumption ==
    /\ NoShard \notin Shard
    /\ Parents \in [Shard -> SUBSET Shard]
    /\ ParentShardId \in [Shard -> Shard \cup {NoShard}]
    /\ \A s \in Shard :
          IF Parents[s] = {} THEN ParentShardId[s] = NoShard
                             ELSE ParentShardId[s] \in Parents[s]

=============================================================================
