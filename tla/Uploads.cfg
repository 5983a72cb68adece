\* Two uploads, possibly of the same catalog photo, a deletion of a photo and
\* one of the album, against the worker, a restart and a fault.
SPECIFICATION Spec
CONSTANTS
  p1 = p1
  p2 = p2
  l1 = l1
  l2 = l2
  c1 = c1
  c2 = c2
  thumb = thumb
  None = None
  Large = large
  Original = original
  PhotoIds = {p1, p2}
  LrIds = {l1, l2}
  Contents = {c1, c2}
  BigContents = {c1}
  Deferred = {thumb, large}
  Posts = {u1, u2}
  Puts = {}
  Deletes = {d1}
  AlbumDeletes = {a1}
  StoredPhotos <- NoStored
  StoredContent = c1
  MaxRestarts = 1
  MaxFaults = 1
SYMMETRY Interchangeable
INVARIANTS
  TypeOK
  RowHasOriginal
  VisibleIsServable
  FilesHaveAnOwner
PROPERTY
  LivesAsPromised
CHECK_DEADLOCK FALSE
