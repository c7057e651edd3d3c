----------------------------- MODULE MCShardMap -----------------------------
(* ShardMap for two threads.  A negative key shows what the conversion to  *)
(* size_t does to its shard.                                               *)
EXTENDS ShardMap

MCKeys == -1 .. 1
MCValues == 0 .. 1

=============================================================================
