\* Three threads, each with up to two nested locks.
CONSTANTS
  Threads = {t1, t2, t3}
  NULL = NULL
  MaxSpin = 2
  MaxDepth = 2
SPECIFICATION MSpec
SYMMETRY Symm
INVARIANTS Exclusive HolderIsTrue CountIsDepth
PROPERTY ImplementsLock
