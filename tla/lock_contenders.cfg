SPECIFICATION Spec
CONSTANTS
  Procs = {p1, p2, p3}
  Operators = {o1}
  Inodes = {i1, i2, i3}
  Nobody = Nobody
  NoInode = NoInode
  AllowAgeTakeover = TRUE
  AllowAlive = FALSE
  MaxAttempts = 2
CHECK_DEADLOCK FALSE
SYMMETRY Interchangeable
INVARIANT LockOwnership
INVARIANT FileNamesHolder
INVARIANT WritersBoundedByRemovals
PROPERTY RefusalMeansLiveHolder
PROPERTY TakeoverMeansAbandonment
