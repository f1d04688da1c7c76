\* Readers of a queue; requests for slots; promotions; analyses and
\* answers.
CONSTANTS
  MaxItems = 2
  r1 = r1
  r2 = r2
  Readers <- TwoReaders
  t1 = t1
  t2 = t2
  t3 = t3
  DEV = DEV
  QA = QA
  lite = lite
  NoRole = NoRole
  Threads <- ThreeThreads
  Roles <- TwoRoles
  Models <- OneModel
  ModelOf <- SharedModel
  MaxSlots <- OneOrTwoSlots
  c1 = c1
  c2 = c2
  V1 = V1
  V2 = V2
  Callers <- TwoCallers
  Versions <- TwoVersions
  Results <- SomeResults
  Cases = 5
  MaxLearnings = 3
  A = A
  Api = Api
  f1 = f1
  f2 = f2
  Runs <- OneRun
  Clients <- TwoClients
  Others <- CalmOrReviewed
  MaxPackages = 2
  MaxCalls = 3
SPECIFICATION MCSpec
SYMMETRY ClientSymmetry
INVARIANTS
  SlotsRespected UsedMatchesActive SlotsComeBack QualityIsKept StoredQueueIsRefreshed
  AnswersReachTheReview BlamesAFailure
CHECK_DEADLOCK FALSE
