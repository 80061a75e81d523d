SPECIFICATION Spec
CONSTANTS
  Post = {p1}
  Kinds = {"publish-post", "retry-failed-post"}
  Worker = {w1, w2}
  Nobody = Nobody
  Orphan = Orphan
  MaxAttempts = 3
  PrepareErrors = {"OTHER", "AUTH_INVALID"}
  PublishErrors = {"RATE_LIMITED", "VALIDATION"}
  AdapterErrors = {}
  MultiStep = {}
  Fixtures = {}
  Invalid = {p1}
  LiveStalls = TRUE
  MaxCrashes = 0
  MaxLapses = 0
  MaxFaults = 0
PROPERTIES KeepsThePromise
SYMMETRY WorkerSymmetry
CHECK_DEADLOCK FALSE
