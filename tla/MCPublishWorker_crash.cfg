SPECIFICATION FairSpec
CONSTANTS
  Post = {p1}
  Kinds = {"publish-post"}
  Worker = {w1}
  Nobody = Nobody
  Orphan = Orphan
  MaxAttempts = 2
  PrepareErrors = {}
  PublishErrors = {}
  AdapterErrors = {}
  MultiStep = {}
  Fixtures = {}
  Invalid = {}
  LiveStalls = FALSE
  MaxCrashes = 1
  MaxLapses = 0
  MaxFaults = 0
PROPERTIES EveryPostSettles
CHECK_DEADLOCK FALSE
