SPECIFICATION Spec
CONSTANTS
  Post = {p1}
  Kinds = {"publish-post"}
  Worker = {w1, w2}
  Nobody = Nobody
  Orphan = Orphan
  MaxAttempts = 2
  PrepareErrors = {"OTHER"}
  PublishErrors = {"NETWORK", "VALIDATION"}
  AdapterErrors = {}
  MultiStep = {}
  Fixtures = {}
  Invalid = {p1}
  LiveStalls = TRUE
  MaxCrashes = 1
  MaxLapses = 1
  MaxFaults = 1
INVARIANTS TypeOK OneAtATime CopiesAreAccountedFor CallsAreBounded
PROPERTIES RecordedIsFinal PublishedIsTerminal
SYMMETRY WorkerSymmetry
CHECK_DEADLOCK FALSE
