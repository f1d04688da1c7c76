\* A rework of real executions.
CONSTANTS
  Settings <- AllSettings
  Histories <- TwoHistories
  Tasks = 2
  MaxAttempts = 2
  Files <- FileCounts
  PackageSize = 12
  Limit = 4
  MaxBudgets = 2
  MaxEvents = 3
SPECIFICATION Spec
INVARIANTS VerdictIsOnWhatDevWrote
CHECK_DEADLOCK FALSE
