SPECIFICATION Spec
CONSTANTS
  Staff = {s1, s2}
  NoOne = NoOne
  Recorded = TRUE
  MaxVersions = 3
INVARIANTS
  BankFileCreditsGoverning
CHECK_DEADLOCK FALSE
