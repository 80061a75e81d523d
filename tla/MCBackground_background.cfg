\* Each component at a size at which each of its properties can fail.
SPECIFICATION BackgroundSpec
CONSTANTS
  t1 = t1
  Client = {u1, u2}
  Route = {r1, r2}
  Sibling = {q1, q2}
  MaxVersions = 2
  MaxDispatchers = 2
  MaxChecks = 2
  MaxMoves = 2
  MaxUses = 2
  Editor = {d1, d2}
  ThumbTries = 2
  MaxS3Errors = 2
  Importer = {i1, i2}
  MaxListed = 4
  Cutoff = 3
  PageSize = 2
  ImportTries = 2
  MaxImportMishaps = 2
  Target = {t1, t2}
  MetricJob = {j1}
  MaxLikes = 1
  MaxDays = 2
  MetricTries = 2
  MaxMetricMishaps = 2
  Part = {p1, p2}
  MaxLooks = 2
  MaxChildren = 4
  MaxAnswer = 1
  Varied = {"reactions", "comments", "shares", "like_count", "comments_count",
            "viewCount", "likeCount", "commentCount", "view_count",
            "comment_count", "share_count", "fan_count", "followers_count",
            "subscriberCount", "follower_count", "media_view_unique", "reach",
            "subscribersGained"}
  MaxRepeats = 2
  AccountJob = {a1, a2}
  MaxFollowers = 1
  MaxEvenings = 2
  AccountTries = 2
  MaxAccountMishaps = 1
  FirstItems = 3
  Limit = 1
  Reply = {1, 2}
  MaxSteps = 2
  MaxTurns = 1
SYMMETRY Alike
INVARIANTS
  BackgroundTypeOK ProxyTrafficIsSafe LibraryAgrees ImportsAreTrue MetricsAreHonest
  AnswersAreTold ListsAreWhole DerivationFollowsTheRule
PROPERTIES
  VerdictsMoveForward
CHECK_DEADLOCK FALSE
