SPECIFICATION Spec
CONSTANTS
  Sessions = {s1, s2}
  Free = Free
  a1 = a1
  a2 = a2
  Accounts = {a1, a2}
  Ledgers = {1, 2, 3}
  AccountOf <- MCAccountOf
  EarmarkIds = {}
  Amounts = {1}
  MaxPosted = 3
  Operations = {"receipt", "payment", "transfer", "cross", "reversal"}
SYMMETRY Symmetry
INVARIANTS
  TypeOK
  StoredBalanceIsTheSum
  BookAgreesWithLedgers
  NeverBelowZero
PROPERTIES
  ImplementsClientLedger
CHECK_DEADLOCK FALSE
