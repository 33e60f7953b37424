SPECIFICATION Spec
CONSTANTS
  Names = {1, 2}
  Settings = {s1}
  Icons = {noIcon}
  NoSettings = noSettings
  NoIcon = noIcon
  NoApp = noApp
  NoSnapshot = noSnapshot
  Threads = {t1}
  Env = {}
  Ops = {"add", "removeLocally"}
  CollidingRenames = FALSE
PROPERTY AccountKeepsApps
