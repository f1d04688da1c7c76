\* Two runs of plans of up to two packages on one repository.
CONSTANTS
  MaxItems = 2
  a = a
  b = b
  shared = shared
  NoRun = NoRun
  Runs <- TwoRuns
  Repos <- OneRepo
  RepoOf <- AllShare
SPECIFICATION FairSpec
INVARIANTS TypeOK OneRunPerRepo WorksOnItsItem EndedLeavesNothing
PROPERTIES RunsEnd ImplementsRepoMutex
CHECK_DEADLOCK FALSE
