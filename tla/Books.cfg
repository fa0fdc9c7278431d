SPECIFICATION MCSpec
CONSTANTS
  s1 = s1
  s2 = s2
  b1 = b1
  b2 = b2
  c1 = c1
  c2 = c2
  t2 = t2
  l2 = l2
  x1 = x1
  y1 = y1
  z1 = z1
  None = None
  Modes = {"reconciliation", "period_close", "office_bank", "office_bridge", "register", "positions", "imports", "money_replay", "numbers"}
  Staff = {y1, z1}
  NoOne = NoOne
  Recorded = TRUE
  MaxVersions = 3
SYMMETRY BooksSymmetry
INVARIANTS
  StatesOK
  CertifiedHolds
  EnteredOnce
  NothingHidden
  BatchesWholeOrNot
CHECK_DEADLOCK FALSE
