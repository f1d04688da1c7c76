\* One API reader races the run.
CONSTANTS
  MaxItems = 2
  r1 = r1
  r2 = r2
  Readers <- OneReader
SPECIFICATION Spec
INVARIANT OneActiveItem
CHECK_DEADLOCK FALSE
