SPECIFICATION FairBudgetSpec
CONSTANTS
  Names = {1, 2}
  Settings = {s1}
  Icons = {noIcon}
  NoSettings = noSettings
  NoIcon = noIcon
  NoApp = noApp
  NoSnapshot = noSnapshot
  Threads = {t1, t2}
  Env = {"writeFails", "renameFails", "saveFails"}
  Ops = {"add", "rename", "settings", "removeLocally", "removeFromNetwork", "save", "logout"}
  CollidingRenames = FALSE
  MaxCalls = 3
INVARIANT ShownOnce
PROPERTY StaysCoherent
PROPERTY StaysInStep
PROPERTY CallsReturn
CHECK_DEADLOCK FALSE
