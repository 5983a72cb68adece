\* An upload into the directory of an empty album while gc runs.
SPECIFICATION Spec
CONSTANTS
  x = x
  p1 = p1
  p2 = p2
  None = None
  Albums = {x}
  PhotoIds = {p1, p2}
  AlbumOf <- InAlbumX
  Stored = {p1}
  Calls = {c1, c2}
  MaxCrashes = 1
  MaxFailures = 1
INVARIANT RowHasOriginal
CHECK_DEADLOCK FALSE
