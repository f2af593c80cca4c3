\* One connection, one thread that enables and disables it.
CONSTANTS
  Conns = {c1}
  Users = {u1}
  NULL = NULL
  MaxOps = 4
  MaxArrivals = 1
  MaxOpens = 1
SPECIFICATION Spec
INVARIANT EveryEnableIsSeen
