\* A net thread and a foreign thread that schedules with and without fast_signal.
CONSTANTS
  N = 1
  Pollers = {0}
  Externals = {x}
  Events = {e1, e2}
  MaxLocal <- OneLocal
  NULL = NULL
SPECIFICATION Spec
INVARIANT FastIsSignalled
