\* One visit to an album of two photos while one of them is replaced.
SPECIFICATION ReadAndZip
CONSTANTS
  p1 = p1
  p2 = p2
  l1 = l1
  l2 = l2
  c1 = c1
  c2 = c2
  thumb = thumb
  None = None
  Large = large
  Original = original
  PhotoIds = {p1, p2}
  LrIds = {l1, l2}
  Contents = {c1, c2}
  BigContents = {c1}
  Deferred = {thumb, large}
  Posts = {}
  Puts = {r1}
  Deletes = {}
  AlbumDeletes = {}
  StoredPhotos <- BothStored
  StoredContent = c1
  MaxRestarts = 0
  MaxFaults = 0
  Visits = {v1}
  Thumb = thumb
  MaxZips = 1
  lower = lower
  upper = upper
  Stems <- Spellings
  Fold <- ToLowerCase
  Filenames <- Likely
  MaxPhotos = 0
INVARIANT
  CoverIsListed
CHECK_DEADLOCK FALSE
