SPECIFICATION Spec
CONSTANTS
  Names = {1, 2}
  Settings = {s1}
  Icons = {noIcon}
  NoSettings = noSettings
  NoIcon = noIcon
  NoApp = noApp
  NoSnapshot = noSnapshot
  Threads = {t1}
  Env = {"writeFails", "writeTears", "renameFails", "saveFails", "crash", "elsewhere"}
  Ops = {"add", "rename", "settings", "dirs", "removeLocally", "removeFromNetwork", "save", "logout", "link", "revert"}
  CollidingRenames = FALSE
INVARIANT TypeOK
INVARIANT ShownOnce
INVARIANT ConfigHasLocalApps
INVARIANT ConfigHasNoOtherApps
PROPERTY LoginShowsAccount
