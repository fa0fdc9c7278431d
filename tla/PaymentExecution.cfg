SPECIFICATION MCSpec
CONSTANTS
  Docs = {d1, d2}
  Sessions = {s1, s2}
  ann = ann
  l1 = l1
  l2 = l2
  e1 = e1
  Staff = {ann, bob}
  Ledgers = {l1}
  Entitlements = {}
  None = None
  Counter = Counter
  Amounts = {1}
  Threshold = 1
  SelfAllowed = TRUE
  Gapless = TRUE
  MCEntitled = 0
  EntitledTo <- MCEntitledTo
  MaxHeld = 1
  MaxRefusals = 1
SYMMETRY PeopleSymmetry
INVARIANTS
  Discipline
  PaidWhenExecuted
  BlockedOnRecord
  DualControl
  TransfersHeadroomKept
CHECK_DEADLOCK FALSE
