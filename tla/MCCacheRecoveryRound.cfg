\* The same volume, without failed writes.
CONSTANTS
  Start = 9
  End = 19
  AGG_SIZE = 2
  Prefill <- HalfFull
  Batches <- SmallBatches
  MaxLogWrites = 9
  MaxLogSyncs = 2
  MaxLogCrashes = 1
  MaxLogErrors = 0
SPECIFICATION LogSpec
INVARIANT AllIntact
CHECK_DEADLOCK FALSE
