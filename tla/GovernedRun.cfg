\* A run of two packages under every Kilo setting.
CONSTANTS
  Settings <- AllSettings
  Histories <- TwoHistories
  Tasks = 2
  MaxAttempts = 2
  Files <- FileCounts
  PackageSize = 12
  Limit = 4
  MaxBudgets = 2
  MaxEvents = 3
SPECIFICATION Spec
INVARIANTS TypeOK VerdictsReachTheirTask StopIsEscalated
PROPERTIES CautionStays
CHECK_DEADLOCK FALSE
