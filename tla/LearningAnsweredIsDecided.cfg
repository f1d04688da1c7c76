\* An answer that overlaps the analysis.
CONSTANTS
  A = A
  Api = Api
  f1 = f1
  f2 = f2
  Runs <- OneRun
  Clients <- TwoClients
  Others <- CalmOrReviewed
  MaxPackages = 2
  MaxCalls = 3
SPECIFICATION LearningSpec
SYMMETRY ClientSymmetry
INVARIANT AnsweredIsDecided
CHECK_DEADLOCK FALSE
