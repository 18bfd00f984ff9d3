----------------------------- MODULE MCCacheLock -----------------------------
(* TLC instances of CacheLock.                                             *)
EXTENDS CacheLock, TLC

\* Processes, inodes and operators are interchangeable; used by runs without
\* liveness properties only.
Interchangeable ==
  Permutations(Procs) \cup Permutations(Inodes) \cup Permutations(Operators)

=============================================================================
