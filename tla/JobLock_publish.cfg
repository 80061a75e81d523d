\* Locks of 120 s (publish-post): ticks of 15 s, heartbeats up to 75 s late.
SPECIFICATION FairSpec
CONSTANTS
  Client = {c1, c2, c3}
  Nobody = Nobody
  Orphan = Orphan
  Ttl = 8
  Period = 2
  MaxLate = 5
  RedisFaults = TRUE
INVARIANTS TypeOK OneConfidentOwner ConfidenceIsBacked
PROPERTIES ImplementsMutex OrphanExpires
