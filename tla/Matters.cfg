SPECIFICATION MCSpec
CONSTANTS
  s1 = s1
  s2 = s2
  b1 = b1
  b2 = b2
  c1 = c1
  c2 = c2
  x1 = x1
  g1 = g1
  NoOne = NoOne
  Modes = {"opening", "merging", "merging_two", "merging_three", "closing", "stages", "proposals", "drafting", "capture", "disbursements", "shares"}
  Sessions = {s1, s2}
  Items = {x1}
  Groups = {b1, b2}
  Runs = {g1}
  Matters = {"matter"}
  MatterOf <- MCMatterOf
  Manual = Manual
  None = None
  MaxValue = 1
  MaxTax = 1
SYMMETRY Symmetry
INVARIANTS
  StatesOK
  BilledRight
  MattersHold
  WorkIsTrue
PROPERTIES
  ChangesAreWhole
CHECK_DEADLOCK FALSE
