\* Three uploads, a table that cannot be read once, and a shutdown.
SPECIFICATION FairSpec
CONSTANTS
  Uploads = {u1, u2, u3}
  MaxFaults = 1
INVARIANTS
  TypeOK
  IdleMeansSeen
  KickIsKept
PROPERTY
  StoredIsSeen
CHECK_DEADLOCK FALSE
