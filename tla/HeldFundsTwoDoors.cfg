SPECIFICATION MCSpec
CONSTANTS
  s1 = s1
  s2 = s2
  c1 = c1
  c2 = c2
  p1 = p1
  p2 = p2
  n1 = n1
  x1 = x1
  Modes = {"held_funds"}
  Bills = {1}
  Payments = {x1}
  Notes = {n1}
  Sessions = {s1, s2}
  None = None
  Total <- MCTotal
  Worth <- MCWorth
  BillOf <- MCBillOf
  Amounts = {1}
  LastStep = 2
  MaxEntries = 3
  Operations = {"payment_allocation", "unallocate", "correct", "write_off", "dispute", "remind", "assign"}
SYMMETRY Symmetry
INVARIANTS
  NoMoneyWithoutBill
CHECK_DEADLOCK FALSE
