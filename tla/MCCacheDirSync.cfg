\* Two body pieces; crashes, a shutdown, a failed write and a clear at any point.
CONSTANTS
  NBody = 2
  MaxSyncs = 2
  MaxCrashes = 2
  MaxStops = 1
  MaxErrors = 1
  MaxClears = 1
  MaxSkip = 1
SPECIFICATION FairSpec
INVARIANT GoodCopyKept
PROPERTIES ImplementsStore WaitingSyncBegins
