\* Two threads work on two connections of a net thread.
CONSTANTS
  Conns = {c1, c2}
  Users = {u1, u2}
  NULL = NULL
  MaxOps = 4
  MaxArrivals = 2
  MaxOpens = 2
SPECIFICATION FairSpec
INVARIANTS NoLostEnable FreedIsGone NoStall
PROPERTIES Served Freed
