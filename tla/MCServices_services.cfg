\* Each component at a size at which each of its properties can fail.
SPECIFICATION ServicesSpec
CONSTANTS
  e1 = e1  e2 = e2  s1 = s1  s2 = s2  b1 = b1
  Flow = {f1, f2}
  Refreshers = {"publish", "job", "accounts", "posts", "service"}
  MaxGrants = 2
  MaxMishaps = 1
  Event = {e1, e2}
  SyncJob = {s1, s2}
  SyncOf <- HookSyncs
  MaxHookTries = 2
  MaxHookMishaps = 2
  Message = {m1}
  MaxSends = 2
  MaxLostAnswers = 1
  Person = {"ann", "bob", "eve"}
  Founder = "ann"
  Offered = {"VIEWER", "ADMIN", "OWNER"}
  TeamRequest = {q1, q2}
  MaxInvites = 2
  Browser = {b1, b2}
  MaxPasswords = 4
  MaxResets = 2
  EditTarget = {"fb", "yt"}
  AlwaysOptions = {"yt"}
  Texts = {"a", "b"}
  Pictures = {"p1"}
  MaxTouches = 5
  MaxSaves = 2
  MaxPanelTouches = 2
  Parts = 4
  MaxAttempts = 3
  MaxWorkers = 4
  MaxFailures = 4
  Thread = {"p1", "p2"}
  Nowhere = "noPost"
  Load = {1, 2}
  MaxClicks = 4
  MaxNews = 1
  Account = {"u1", "u2"}
  Space = {"w1", "w2"}
  Tab = {"tab1", "tab2"}
  StartRoles = {"none", "VIEWER", "EDITOR"}
  MaxFetches = 2
  MaxMoves = 2
INVARIANTS
  ServicesTypeOK ConnectionIsKept ProcessedHasAsked InboxTellsTheTruth
  MembershipHolds OldSecretsAreDead DraftsAreCoherent PagesKeepFaith
PROPERTIES
  RemovedStaysRemoved SavesSayWhatWasShown
CHECK_DEADLOCK FALSE
