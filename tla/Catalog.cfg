\* An album in a folder in a folder with updates, a deletion and a creation; an
\* empty tree with three create requests of one collection and a deletion; with
\* a crash or a failed removal.
SPECIFICATION Spec
CONSTANTS
  f1 = f1
  f2 = f2
  a1 = a1
  c1 = c1
  m1 = m1
  Root = Root
  None = None
  FolderIds = {f1, f2, f3}
  AlbumIds = {a1, a2}
  Keys = {k1, k2}
  Scenarios <- MovingAndCreating
  Creators = {c1, c2, c3}
  Movers = {m1}
  Deleters = {d1}
  SlugRetries = 1
  MaxFaults = 1
SYMMETRY InterchangeableKeys
INVARIANTS
  TypeOK
  NoFolderInItself
  Reachable
  FilesHaveAnOwner
  SameKeySameNode
  OneNodePerCollection
  RecordedIsMade
PROPERTIES
  RowsKeepFiles
CHECK_DEADLOCK FALSE
