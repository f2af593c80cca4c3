\* The sleep against the time of the earliest event.
CONSTANTS
  Events = {e1, e2}
  N_PQ_LIST = 4
  Tick = 2
  Heartbeat = 6
  MaxDelay = 18
  MaxStep = 8
  MaxTime = 40
SPECIFICATION Spec
SYMMETRY Symm
INVARIANT SleepsUntilEventTime
CHECK_DEADLOCK FALSE
