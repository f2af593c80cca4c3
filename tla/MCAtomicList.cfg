\* Three threads push and pop concurrently; nobody removes.
CONSTANTS
  Pushers = {t1, t2, t3}
  Poppers = {t1, t2}
  Removers = {}
  Items = {a, b, c}
  NULL = NULL
  LIST = LIST
  VersionMod = 3
SPECIFICATION Spec
SYMMETRY Symm
INVARIANTS ChainIsList NoStaleCas
PROPERTY ImplementsStack
