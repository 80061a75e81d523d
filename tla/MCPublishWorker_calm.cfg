SPECIFICATION FairSpec
CONSTANTS
  Post = {p1, p2}
  Kinds = {"publish-post"}
  Worker = {w1, w2}
  Nobody = Nobody
  Orphan = Orphan
  MaxAttempts = 2
  PrepareErrors = {"OTHER", "AUTH_INVALID"}
  PublishErrors = {"NETWORK", "VALIDATION"}
  AdapterErrors = {"PROXY_CONFIGURATION_MISSING"}
  MultiStep = {p2}
  Fixtures = {}
  Invalid = {p1}
  LiveStalls = FALSE
  MaxCrashes = 0
  MaxLapses = 0
  MaxFaults = 0
INVARIANTS ParentNeverClaimsTooMuch JobsAgreeWithPosts
PROPERTIES EveryPostSettles
CHECK_DEADLOCK FALSE
