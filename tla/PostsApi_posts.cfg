\* Two accounts, so that a post can be partly out; three requests, so that one
\* can publish again what another has withdrawn.
SPECIFICATION PostsSpec
CONSTANTS
  Account = {a, b}
  Caller = {c1}
  MaxRows = 2
  MaxCalls = 3
  MaxTries = 2
  MaxCrashes = 1
INVARIANT PostsTypeOK
PROPERTIES WithdrawnStaysAway ScheduledGoesOut
CHECK_DEADLOCK FALSE
