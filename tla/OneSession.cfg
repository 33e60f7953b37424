SPECIFICATION Spec
CONSTANTS
  Names = {1, 2}
  Settings = {s1}
  Icons = {noIcon, i1}
  NoSettings = noSettings
  NoIcon = noIcon
  NoApp = noApp
  NoSnapshot = noSnapshot
  Threads = {t1}
  Env = {"writeFails", "writeTears", "renameFails", "saveFails"}
  Ops = {"add", "rename", "settings", "dirs", "icon", "removeFromNetwork", "save", "forceSave"}
  CollidingRenames = FALSE
INVARIANT UndoWouldRestore
INVARIANT UnsavedIsFlagged
INVARIANT RollbackIsLastSaved
PROPERTY KeepsPromises
