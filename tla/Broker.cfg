SPECIFICATION FairSpec
CONSTANTS
  None = None
  Sessions = {s1, s2}
  Requests = {r1, r2}
  MayFail = TRUE
INVARIANTS
  AllowOnlyByUser
  EntryOutlivesWait
PROPERTIES
  CancelReleases
  ImplementsContract
