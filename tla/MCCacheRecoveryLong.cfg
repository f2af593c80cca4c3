\* More writes before the one crash: the scan reads over its own start, and
\* Ldone takes the place it fell back to for write_pos.
CONSTANTS
  Start = 9
  End = 20
  AGG_SIZE = 2
  Prefill <- HalfFull
  Batches <- SingleDocs
  MaxLogWrites = 13
  MaxLogSyncs = 2
  MaxLogCrashes = 1
  MaxLogErrors = 0
SPECIFICATION LogSpec
INVARIANT EntriesIntact
CHECK_DEADLOCK FALSE
