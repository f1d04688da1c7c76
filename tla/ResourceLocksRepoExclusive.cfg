\* Threads that switch inside acquire_lock; two items share a repository.
CONSTANTS
  i1 = i1
  i2 = i2
  i3 = i3
  i4 = i4
  shared = shared
  other = other
  NoItem = NoItem
  Items <- TwoItems
  Repos <- TwoRepos
  RepoOf <- BothShare
  SwitchInside = TRUE
SPECIFICATION LocksSpec
INVARIANT RepoExclusive
CHECK_DEADLOCK FALSE
