SPECIFICATION PlanSpec
CONSTANTS
  Arrangements = {1}
  Bills = {1}
  Count = 1
  CoversFuture = {}
  MaxOwed = 1
  MaxSlots = 4
INVARIANTS
  PlanKeepsItsCount
CHECK_DEADLOCK FALSE
