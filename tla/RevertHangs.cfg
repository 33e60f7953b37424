SPECIFICATION FairBudgetSpec
CONSTANTS
  Names = {1, 2}
  Settings = {s1}
  Icons = {noIcon}
  NoSettings = noSettings
  NoIcon = noIcon
  NoApp = noApp
  NoSnapshot = noSnapshot
  Threads = {t1}
  Env = {}
  Ops = {"add", "revert"}
  CollidingRenames = FALSE
  MaxCalls = 2
PROPERTY RevertReverts
CHECK_DEADLOCK FALSE
