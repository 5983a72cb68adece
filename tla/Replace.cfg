\* One stored photo: its file or metadata is replaced twice and the photo
\* is deleted, against the worker, a restart and a fault.
SPECIFICATION FairSpec
CONSTANTS
  p1 = p1
  p2 = p2
  l1 = l1
  l2 = l2
  c1 = c1
  c2 = c2
  thumb = thumb
  None = None
  Large = large
  Original = original
  PhotoIds = {p1}
  LrIds = {l1}
  Contents = {c1, c2}
  BigContents = {c1}
  Deferred = {thumb, large}
  Posts = {}
  Puts = {r1, r2}
  Deletes = {d1}
  AlbumDeletes = {}
  StoredPhotos <- P1Stored
  StoredContent = c1
  MaxRestarts = 1
  MaxFaults = 1
INVARIANTS
  VisibleIsServable
  FilesHaveAnOwner
PROPERTIES
  ShownVariantsAreCurrent
  PendingIsShown
CHECK_DEADLOCK FALSE
