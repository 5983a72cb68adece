\* Visits, one after another, to an album of two photos of which one may be
\* replaced and one deleted, against the worker and a restart; and the
\* names of archives of up to five photos that get in each other's way.
SPECIFICATION ReadAndZip
CONSTANTS
  p1 = p1
  p2 = p2
  l1 = l1
  l2 = l2
  c1 = c1
  c2 = c2
  thumb = thumb
  None = None
  Large = large
  Original = original
  PhotoIds = {p1, p2}
  LrIds = {l1, l2}
  Contents = {c1, c2}
  BigContents = {c1}
  Deferred = {thumb, large}
  Posts = {}
  Puts = {r1}
  Deletes = {d1}
  AlbumDeletes = {}
  StoredPhotos <- BothStored
  StoredContent = c1
  MaxRestarts = 1
  MaxFaults = 0
  Visits = {v1}
  Thumb = thumb
  MaxZips = 1
  lower = lower
  upper = upper
  Stems <- Spellings
  Fold <- ToLowerCase
  Filenames <- Likely
  MaxPhotos = 5
INVARIANTS
  VisitsTypeOK
  FoundUnlessChanged
  ETagNamesBody
  ZipSkipsOnlyDeleted
  SlotsGivenBack
  NamesTypeOK
  ZipNamesDistinct
CHECK_DEADLOCK FALSE
