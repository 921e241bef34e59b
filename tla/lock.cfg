\* A holder, a contender, and one that opened a file since removed.
SPECIFICATION Spec
CONSTANTS
  Proc = {daemon, cron, seed}
  Inode = {i1, i2, i3, i4}
  None = None
INVARIANTS
  LockInv
  MutualExclusion
PROPERTY
  ImplementsMutex
