SPECIFICATION MCFairSpec
CONSTANTS
  s1 = s1
  s2 = s2
  x1 = x1
  g1 = g1
  NoOne = NoOne
  Arrangements = {1}
  Bills = {1}
  Count = 1
  CoversFuture = {1}
  MaxOwed = 1
  MaxSlots = 3
PROPERTIES
  OwedAndHeldMoveOn
  JobsCatchUp
CHECK_DEADLOCK FALSE
