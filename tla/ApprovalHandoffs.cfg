SPECIFICATION FairSpec
CONSTANTS
    MaxQuestions = 3
    MaxIterations = 1
    MaxThreads = 2
    Texts <- MCTexts
    Updates = 3
    MaxBeside = 1
    MaxFaults = 1
INVARIANTS TypeOK HandoffReviewed OneRunPerVersion HandedOffBriefIsCurrent
PROPERTIES ApprovalIsServed
CHECK_DEADLOCK FALSE
