\* Cancelling a run whose thread has crashed.
CONSTANTS
  MaxItems = 2
  a = a
  b = b
  shared = shared
  NoRun = NoRun
  Runs <- TwoRuns
  Repos <- OneRepo
  RepoOf <- AllShare
SPECIFICATION Spec
INVARIANT CancelReleases
CHECK_DEADLOCK FALSE
