\* Threads that switch anywhere, the seeded capacities of one slot.
CONSTANTS
  t1 = t1
  t2 = t2
  DEV = DEV
  QA = QA
  lite = lite
  NoRole = NoRole
  Threads <- TwoThreads
  Roles <- TwoRoles
  Models <- OneModel
  ModelOf <- SharedModel
  MaxSlots <- OneSlotEach
SPECIFICATION SlotsSpec
INVARIANT NotOversubscribed
CHECK_DEADLOCK FALSE
