\* Two events, one of which may be rescheduled while it waits in NegativeQueue.
CONSTANTS
  Events = {e1, e2}
  Others = {x}
  THREAD = THREAD
  NULL = NULL
  thread_freelist_size = 1
SPECIFICATION Spec
INVARIANT OneQueue
