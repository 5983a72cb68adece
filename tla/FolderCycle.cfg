\* Two folders side by side and two updates that overlap.
SPECIFICATION Spec
CONSTANTS
  f1 = f1
  f2 = f2
  a1 = a1
  c1 = c1
  m1 = m1
  Root = Root
  None = None
  FolderIds = {f1, f2}
  AlbumIds = {a1}
  Keys = {}
  Scenarios <- Sideways
  Creators = {}
  Movers = {m1, m2}
  Deleters = {}
  SlugRetries = 1
  MaxFaults = 0
INVARIANT NoFolderInItself
CHECK_DEADLOCK FALSE
