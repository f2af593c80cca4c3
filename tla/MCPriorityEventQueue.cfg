\* Four lists; rounds of up to half the period of the highest compared bit.
CONSTANTS
  Events = {e1, e2}
  N_PQ_LIST = 4
  Tick = 2
  Heartbeat = 6
  MaxDelay = 18
  MaxStep = 8
  MaxTime = 40
SPECIFICATION Spec
SYMMETRY Symm
INVARIANTS TypeOK NotOverdue NotEarly OversleepBounded
CHECK_DEADLOCK FALSE
