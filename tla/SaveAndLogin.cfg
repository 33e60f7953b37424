SPECIFICATION Spec
CONSTANTS
  Machines = {m1, m2}
  Contents = {a, b}
  NoAccount = none
  MaxVersions = 2
  MaxIds = 4
  Duplicates = FALSE
  Faults = {"callFails", "deleteFails", "wrongPassword", "crash"}
INVARIANT TypeOK
INVARIANT TipIsStored
PROPERTY SavesAsPromised
CHECK_DEADLOCK FALSE
