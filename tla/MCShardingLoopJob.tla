------------------------- MODULE MCShardingLoopJob -------------------------
(* Instances of ShardingLoopJob for TLC. *)
EXTENDS ShardingLoopJob, TLC

CONSTANTS n1, n2

MCNodes == {n1, n2}

Symmetry == Permutations(MCNodes)
====
