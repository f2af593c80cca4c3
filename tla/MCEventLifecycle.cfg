\* Two events, a thread's free list of one, one other thread.
CONSTANTS
  Events = {e1, e2}
  Others = {x}
  THREAD = THREAD
  NULL = NULL
  thread_freelist_size = 1
SPECIFICATION FairSpec
INVARIANTS FlagsTell RecycledClean NoDangling
PROPERTIES TangledByReschedule NoCallAfterCancel Called Reclaimed
