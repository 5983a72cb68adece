\* Two calls of the server, a crash and a run of gc that stops early, next to
\* gc, which runs as often as it likes.
SPECIFICATION FairSpec
CONSTANTS
  x = x
  p1 = p1
  p2 = p2
  None = None
  Albums = {x}
  PhotoIds = {p1, p2}
  AlbumOf <- InAlbumX
  Stored = {p1}
  Calls = {c1, c2}
  MaxCrashes = 1
  MaxFailures = 1
INVARIANTS
  TypeOK
  DoomedStayOrphans
  DoneMeansClean
PROPERTIES
  OnlyEmptyDirsLoseOriginals
  LeftoversGo
CHECK_DEADLOCK FALSE
