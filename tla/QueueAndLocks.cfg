\* The run alone with its queue, with every plan of up to three packages; and
\* undivided acquire_lock calls, where three items share a repository and one
\* has its own.
CONSTANTS
  MaxItems = 3
  r1 = r1
  r2 = r2
  Readers <- NoReaders
  i1 = i1
  i2 = i2
  i3 = i3
  i4 = i4
  shared = shared
  other = other
  NoItem = NoItem
  Items <- FourItems
  Repos <- TwoRepos
  RepoOf <- ThreeAndOne
  SwitchInside = FALSE
SPECIFICATION MCSpec
INVARIANTS
  DependenciesFirst CompletedIffValidated EndedMeansAllCompleted
  RepoExclusive WorkspaceIsLocked RefusedHoldsNothing ReleasedIsUnlocked
PROPERTIES
  StartsMostUrgent QueueRunEnds ImplementsSequentialPlan
  LocksAreReleased ImplementsRepoMutex
CHECK_DEADLOCK FALSE
