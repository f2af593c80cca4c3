\* A net thread, a thread that sleeps on its condition variable and also schedules
\* locally, and a foreign one.
CONSTANTS
  N = 2
  Pollers = {0}
  Externals = {x}
  Events = {e1, e2}
  MaxLocal <- OneLocal
  NULL = NULL
SPECIFICATION FairSpec
INVARIANTS NoLostWakeup InOrder TableOK DirectMapKeeps
PROPERTIES ImplementsWakeup Taken
