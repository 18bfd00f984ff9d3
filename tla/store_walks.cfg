SPECIFICATION Spec
CONSTANTS
  Clients = {c1, c2}
  Operators = {o1, o2}
  Keys = {k1, k2}
  Shards = {d1}
  d1 = d1
  ShardOf <- MCShardOf
  Absent = Absent
  Partial = Partial
  MaxCalls = 2
CHECK_DEADLOCK FALSE
SYMMETRY Interchangeable
INVARIANT PartialMeansWriter
INVARIANT KeepsAcknowledged
INVARIANT RebuildClears
INVARIANT OsErrorMeansRebuild
