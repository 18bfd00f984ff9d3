SPECIFICATION Spec
CONSTANTS
  Procs = {p1, p2, p3}
  Operators = {}
  Inodes = {i1, i2, i3}
  Nobody = Nobody
  NoInode = NoInode
  AllowAgeTakeover = FALSE
  AllowAlive = FALSE
  MaxAttempts = 1
CHECK_DEADLOCK FALSE
INVARIANT SingleWriter
