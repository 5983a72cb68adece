\* Two requests and a command that change a password at once; a slug used again;
\* three albums unlocked from two tabs over time and restarts; a client that keeps
\* trying.  Two grants a cookie, two buckets.
SPECIFICATION Spec
CONSTANTS
  a1 = a1
  a2 = a2
  a3 = a3
  a4 = a4
  s1 = s1
  s2 = s2
  s3 = s3
  e1 = e1
  e2 = e2
  m1 = m1
  t1 = t1
  t2 = t2
  br = br
  None = None
  Keep = Keep
  Clear = Clear
  AlbumIds = {a1, a2, a3, a4}
  Slugs = {s1, s2, s3}
  SlugOf <- SlugOfAlbum
  Passwords = {p1, p2}
  Browsers = {br}
  Tabs = {t1, t2}
  BrowserOf <- BrowserOfTab
  Clients <- TheClients
  Publishers = {e1, e2}
  Admins = {m1}
  Capacity = 3
  PerToken = 2
  MaxKeys = 2
  SweepInterval = 2
  LastTick = 5
  MaxGrants = 2
  Lifetime = 3
  MaxSecrets = 2
  Scenarios <- TheScenarios
INVARIANTS
  TypeOK
  GrantMeansPassword
  StaysUnlocked
  AttemptsBounded
PROPERTIES
  RetryAfterHolds
  RevokedStartsNothing
CHECK_DEADLOCK FALSE
