SPECIFICATION MCSpec
CONSTANTS
  s1 = s1
  s2 = s2
  b1 = b1
  b2 = b2
  c1 = c1
  c2 = c2
  x1 = x1
  g1 = g1
  NoOne = NoOne
  Modes = {"sessions", "visibility", "documents", "doors", "mailbox", "outbound", "intake", "reports", "settings", "lists", "private", "formulas"}
  Sessions = {s1, s2}
  Items = {x1}
  Groups = {b1, b2}
  Runs = {g1}
  Matters = {"matter"}
  MatterOf <- MCMatterOf
  Manual = Manual
  None = None
  MaxValue = 1
  MaxTax = 1
SYMMETRY PlatformSymmetry
INVARIANTS
  StatesOK
  DoneOnce
  RowsAgree
PROPERTIES
  NothingComesBack
CHECK_DEADLOCK FALSE
