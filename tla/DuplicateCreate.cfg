SPECIFICATION Spec
CONSTANTS
  Machines = {m1, m2}
  Contents = {a, b}
  NoAccount = none
  MaxVersions = 2
  MaxIds = 3
  Duplicates = TRUE
  Faults = {}
PROPERTY AccountStays
CHECK_DEADLOCK FALSE
