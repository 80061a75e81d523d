SPECIFICATION PostsSpec
CONSTANTS
  Account = {a}
  Caller = {c1}
  MaxRows = 1
  MaxCalls = 3
  MaxTries = 1
  MaxCrashes = 0
INVARIANT QueuedIsCarried
CHECK_DEADLOCK FALSE
