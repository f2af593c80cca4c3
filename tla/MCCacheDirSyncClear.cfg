\* A volume that was used, cleared and synced for the first time.
CONSTANTS
  NBody = 2
  MaxSyncs = 3
  MaxCrashes = 2
  MaxStops = 0
  MaxErrors = 0
  MaxClears = 1
  MaxSkip = 1
SPECIFICATION Spec
INVARIANT LoadedIsWhole
