\* One stored photo whose file is replaced once.
SPECIFICATION Spec
CONSTANTS
  p1 = p1
  p2 = p2
  l1 = l1
  l2 = l2
  c1 = c1
  c2 = c2
  thumb = thumb
  None = None
  Large = large
  Original = original
  PhotoIds = {p1}
  LrIds = {l1}
  Contents = {c1, c2}
  BigContents = {c1}
  Deferred = {thumb, large}
  Posts = {}
  Puts = {r1}
  Deletes = {}
  AlbumDeletes = {}
  StoredPhotos <- P1Stored
  StoredContent = c1
  MaxRestarts = 0
  MaxFaults = 0
INVARIANT
  VisibleShowsOriginal
CHECK_DEADLOCK FALSE
