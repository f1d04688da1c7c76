\* A supervised run with overlapping requests, and the storage.
CONSTANTS
  r1 = r1
  r2 = r2
  run1 = run1
  run2 = run2
  lock = lock
  workspace = workspace
  watchdog = watchdog
  slots = slots
  Requests <- TwoRequests
  Tasks = 2
  MaxRetries = 1
  MaxMishaps = 2
  MaxCalls = 3
  Threads <- TwoThreads
  Objects <- FourObjects
  Slots = slots
  Writers <- OwnAndShared
  Registries <- ByRegistry
  MaxChanges = 3
  MaxFaults = 2
SPECIFICATION MCSpec
SYMMETRY Symmetry
INVARIANTS TypeOK WatchedWhileWorked RecoveredOncePerSilence SessionsTellTheWork CrashCostsOneChange SlotsStartFree
CHECK_DEADLOCK FALSE
