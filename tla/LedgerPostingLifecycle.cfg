SPECIFICATION Spec
CONSTANTS
  Sessions = {s1, s2}
  Free = Free
  a1 = a1
  a2 = a2
  Accounts = {a1}
  Ledgers = {1}
  AccountOf <- MCAccountOf
  EarmarkIds = {1, 2}
  Amounts = {1, 2}
  MaxPosted = 4
  Operations = {"receipt", "payment", "open", "close", "reopen", "place", "release", "reversal", "dishonour"}
CONSTRAINT Small
SYMMETRY Symmetry
INVARIANTS
  Discipline
  EarmarksCovered
  ReversalsExactAndOnce
  ClosedLedgersAreEmpty
PROPERTIES
  ImplementsClientLedger
CHECK_DEADLOCK FALSE
