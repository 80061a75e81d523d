SPECIFICATION Spec
CONSTANTS
  Post = {p1}
  Kinds = {"publish-post"}
  Worker = {w1}
  Nobody = Nobody
  Orphan = Orphan
  MaxAttempts = 2
  PrepareErrors = {}
  PublishErrors = {"NETWORK"}
  AdapterErrors = {}
  MultiStep = {}
  Fixtures = {}
  Invalid = {}
  LiveStalls = FALSE
  MaxCrashes = 0
  MaxLapses = 0
  MaxFaults = 0
INVARIANTS AtMostOneCopy
CHECK_DEADLOCK FALSE
