SPECIFICATION FairSpec
CONSTANTS
  Post = {p1}
  Kinds = {"publish-post"}
  Worker = {w1, w2}
  Nobody = Nobody
  Orphan = Orphan
  MaxAttempts = 2
  PrepareErrors = {}
  PublishErrors = {"NETWORK"}
  AdapterErrors = {"OTHER"}
  MultiStep = {}
  Fixtures = {p1}
  Invalid = {}
  LiveStalls = TRUE
  MaxCrashes = 1
  MaxLapses = 0
  MaxFaults = 1
PROPERTIES EveryJobEnds
CHECK_DEADLOCK FALSE
