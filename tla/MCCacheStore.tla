---------------------------- MODULE MCCacheStore ----------------------------
(* CacheStore with all keys in one shard.                                  *)
EXTENDS CacheStore, TLC

CONSTANT d1

MCShardOf == [k \in Keys |-> d1]

Interchangeable ==
  Permutations(Clients) \cup Permutations(Operators) \cup Permutations(Keys)

=============================================================================
