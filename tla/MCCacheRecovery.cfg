\* Ten blocks of data, written two at a time; the log comes round.
CONSTANTS
  Start = 9
  End = 19
  AGG_SIZE = 2
  Prefill <- HalfFull
  Batches <- SmallBatches
  MaxLogWrites = 8
  MaxLogSyncs = 2
  MaxLogCrashes = 2
  MaxLogErrors = 1
SPECIFICATION LogFairSpec
INVARIANT EntriesIntact
PROPERTY ScanEnds
CHECK_DEADLOCK FALSE
