SPECIFICATION ReconSpec
CONSTANTS
  Post = {p1, p2}
  Kinds = {"publish-post"}
  Worker = {w1, w2}
  Nobody = Nobody
  Orphan = Orphan
  MaxAttempts = 1
  PrepareErrors = {}
  PublishErrors = {"NETWORK"}
  AdapterErrors = {}
  MultiStep = {}
  Fixtures = {}
  Invalid = {}
  LiveStalls = FALSE
  MaxCrashes = 0
  MaxLapses = 0
  MaxFaults = 0
  Supported = {p1}
  Indeterminate = TRUE
  ReviewAfter = 1
  MaxTries = 2
  MaxThrows = 3
INVARIANTS ReconTypeOK ReconciliationRepairs
SYMMETRY WorkerSymmetry
CHECK_DEADLOCK FALSE
