------------------------ MODULE MCShardingScheduler ------------------------
(* Instances of ShardingScheduler for TLC. *)
EXTENDS ShardingScheduler
====
