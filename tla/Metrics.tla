------------------------------ MODULE Metrics ------------------------------
(***************************************************************************)
(* The numbers of the published posts: sync-post-metrics.ts, the state     *)
(* refresh, makeYouTubePublic and cancelTikTokPublish of posts.service.ts, *)
(* and the sums of the dashboard (analytics.service.ts, shared/metrics.ts).*)
(* One number, the likes, stands for the fourteen of a post; its source    *)
(* says where it comes from, and Unknown is not 0.                         *)
(***************************************************************************)
EXTENDS MetricValues, FiniteSets

CONSTANTS Target,       \* published platform posts
          MetricJob,    \* sync-post-metrics jobs, each of one target
          MaxLikes, MaxDays, MetricTries,
          MaxMetricMishaps \* bound on errors, crashes and requests of users

ASSUME MetricsAssumption ==
  /\ IsFiniteSet(Target) /\ IsFiniteSet(MetricJob) /\ {MaxDays, MetricTries} \subseteq Nat \ {0}
  /\ {MaxLikes, MaxMetricMishaps} \subseteq Nat

VARIABLES
  likes,      \* what the platform counts now
  today,      \* the date in the workspace's time zone
  evening,    \* what it counted at the end of each past day
  target,     \* of each job, once it is queued
  reading,    \* the worker's memory of each job: where it is, what it read
  delivery,   \* of each job in Redis: its state, attempts, stalled before
  jobRow,     \* the backgroundJob row of each job
  status,     \* of the platformPost rows
  shown,      \* the likes and the visibility in platformState
  metric,     \* the postMetric row
  snapshot,   \* the metricSnapshot row of each day
  viewer,     \* what the API is doing with each target: the row it read
  metricMishaps

metricVars == <<likes, today, evening, target, reading, delivery, jobRow, status, shown, metric,
                snapshot, viewer, metricMishaps>>

Values == [value : (0..MaxLikes) \cup {Unknown}, source : Sources]
NoView == [doing |-> "none", shown |-> [likes |-> Blank("NOT_SYNCED"), public |-> FALSE]]
AtRest == [at |-> "idle", got |-> Blank("NOT_SYNCED"), day |-> 0,
           shown |-> [likes |-> Blank("NOT_SYNCED"), public |-> FALSE]]

MetricsTypeOK ==
  /\ likes \in [Target -> 0..MaxLikes] /\ today \in 1..MaxDays
  /\ target \in [MetricJob -> Target]
  /\ status \in [Target -> {"PUBLISHED", "CANCELLED"}]
  /\ metric \in [Target -> Values] /\ snapshot \in [Target -> [1..MaxDays -> Values]]
  /\ \A t \in Target : shown[t].likes \in Values /\ \A d \in (today + 1)..MaxDays : snapshot[t][d].source = "NOT_SYNCED"
  /\ \A j \in MetricJob : /\ delivery[j].tries \in 0..MetricTries
                          /\ reading[j].at # "idle" => delivery[j].state = "running"
                          /\ reading[j].day \in 0..today

MetricsInit ==
  /\ likes = [t \in Target |-> 0] /\ today = 1 /\ evening = [d \in 1..MaxDays |-> likes]
  /\ target \in [MetricJob -> Target]
  /\ reading = [j \in MetricJob |-> AtRest] /\ jobRow = [j \in MetricJob |-> "none"]
  /\ delivery = [j \in MetricJob |-> [state |-> "none", tries |-> 0, stalled |-> FALSE]]
  /\ status = [t \in Target |-> "PUBLISHED"] /\ viewer = [t \in Target |-> NoView]
  /\ shown = [t \in Target |-> [likes |-> Blank("NOT_SYNCED"), public |-> FALSE]]
  /\ metric = [t \in Target |-> Blank("NOT_SYNCED")]
  /\ snapshot = [t \in Target |-> [d \in 1..MaxDays |-> Blank("NOT_SYNCED")]]
  /\ metricMishaps = 0

MetricMishap == metricMishaps < MaxMetricMishaps /\ metricMishaps' = metricMishaps + 1
metricTables == <<status, shown, metric, snapshot>>
metricWorld == <<likes, today, evening, target>>
-----------------------------------------------------------------------------
Like(t) ==
  /\ likes[t] < MaxLikes /\ likes' = [likes EXCEPT ![t] = @ + 1]
  /\ UNCHANGED <<today, evening, target, reading, delivery, jobRow, metricTables, viewer, metricMishaps>>

Midnight ==
  /\ today < MaxDays /\ today' = today + 1 /\ evening' = [evening EXCEPT ![today] = likes]
  /\ UNCHANGED <<likes, target, reading, delivery, jobRow, metricTables, viewer, metricMishaps>>

(* enqueueSync gives every request jobs of its own (syncRunId): two jobs   *)
(* of one target may run at once.  The board first, then the queue.        *)
EnqueueSync(j) ==
  /\ jobRow[j] = "none" /\ status[target[j]] = "PUBLISHED"
  /\ jobRow' = [jobRow EXCEPT ![j] = "QUEUED"]
  /\ \/ delivery' = [delivery EXCEPT ![j].state = "waiting"] /\ UNCHANGED metricMishaps
     \/ MetricMishap /\ UNCHANGED delivery
  /\ UNCHANGED <<metricWorld, reading, metricTables, viewer>>

(* The row as it is now; a post that is not PUBLISHED is left alone.       *)
TakeMetricJob(j) ==
  LET t == target[j] IN
  /\ delivery[j].state = "waiting"
  /\ delivery' = [delivery EXCEPT ![j].state = "running", ![j].tries = @ + 1]
  /\ jobRow' = [jobRow EXCEPT ![j] = "RUNNING"]
  /\ reading' = [reading EXCEPT ![j] =
       [AtRest EXCEPT !.at = IF status[t] = "PUBLISHED" THEN "ask" ELSE "end", !.shown = shown[t]]]
  /\ UNCHANGED <<metricWorld, metricTables, viewer, metricMishaps>>

\* Mutant of AskPlatform: the day is chosen before the platform is asked.
AskPlatformDated(j) ==
  /\ reading[j].at \in {"ask", "dated"}
  /\ IF reading[j].at = "ask" THEN reading' = [reading EXCEPT ![j].at = "dated", ![j].day = today]
     ELSE reading' = [reading EXCEPT ![j].at = "store", ![j].got = FromApi(likes[target[j]])]
  /\ UNCHANGED <<metricWorld, delivery, jobRow, metricTables, viewer, metricMishaps>>

(* The platform answers with a number, or says it has none for this post:  *)
(* a missing permission, a post that is gone, no such capability.          *)
AskPlatform(j) ==
  /\ reading[j].at = "ask"
  /\ \E got \in {FromApi(likes[target[j]]), Blank("UNSUPPORTED")} :
       reading' = [reading EXCEPT ![j].at = "date", ![j].got = got]
  /\ UNCHANGED <<metricWorld, delivery, jobRow, metricTables, viewer, metricMishaps>>

MetricDate(j) ==
  /\ reading[j].at = "date" /\ reading' = [reading EXCEPT ![j].at = "store", ![j].day = today]
  /\ UNCHANGED <<metricWorld, delivery, jobRow, metricTables, viewer, metricMishaps>>

(* One transaction: the metric, today's snapshot, and the state as the job *)
(* read it with the new numbers; what was stored there meanwhile is lost.  *)
Persist(j) ==
  LET t == target[j] IN
  /\ reading[j].at = "store" /\ reading' = [reading EXCEPT ![j].at = "end"]
  /\ metric' = [metric EXCEPT ![t] = reading[j].got]
  /\ snapshot' = [snapshot EXCEPT ![t][reading[j].day] = reading[j].got]
  /\ shown' = [shown EXCEPT ![t] = [reading[j].shown EXCEPT !.likes = reading[j].got]]
  /\ UNCHANGED <<metricWorld, delivery, jobRow, status, viewer, metricMishaps>>

EndMetricJob(j) ==
  /\ reading[j].at = "end" /\ reading' = [reading EXCEPT ![j] = AtRest]
  /\ jobRow' = [jobRow EXCEPT ![j] = "COMPLETED"] /\ delivery' = [delivery EXCEPT ![j].state = "done"]
  /\ UNCHANGED <<metricWorld, metricTables, viewer, metricMishaps>>

MetricAttemptEnds(j, dead, state) ==
  /\ reading[j].at # "idle" /\ MetricMishap
  /\ reading' = [reading EXCEPT ![j] = AtRest]
  /\ jobRow' = [jobRow EXCEPT ![j] = IF dead THEN "DEAD" ELSE "FAILED"]
  /\ delivery' = [delivery EXCEPT ![j].state = state]
  /\ UNCHANGED <<metricWorld, metricTables, viewer>>

(* A platform error that cannot be retried is DEAD and swallowed; any      *)
(* other is thrown for BullMQ to retry, DEAD after the last attempt.       *)
FailMetricJob(j) ==
  \/ MetricAttemptEnds(j, TRUE, "done")
  \/ LET last == delivery[j].tries = MetricTries IN
     MetricAttemptEnds(j, last, IF last THEN "dead" ELSE "waiting")

MetricWorkerDies(j) ==
  /\ reading[j].at # "idle" /\ MetricMishap /\ reading' = [reading EXCEPT ![j] = AtRest]
  /\ delivery' = [delivery EXCEPT ![j] = [state |-> IF @.stalled THEN "dead" ELSE "waiting",
                                          tries |-> @.tries - 1, stalled |-> TRUE]]
  /\ UNCHANGED <<metricWorld, jobRow, metricTables, viewer>>
-----------------------------------------------------------------------------
(* The API reads the row, asks the platform, and writes the state.         *)
ViewRow(t, doing) ==
  /\ viewer[t] = NoView /\ status[t] = "PUBLISHED" /\ MetricMishap
  /\ viewer' = [viewer EXCEPT ![t] = [doing |-> doing, shown |-> shown[t]]]
  /\ UNCHANGED <<metricWorld, reading, delivery, jobRow, metricTables>>

Viewed(t, doing) == viewer[t].doing = doing /\ viewer' = [viewer EXCEPT ![t] = NoView]

(* refreshPlatformPostState: the numbers are replaced when there are any.  *)
RefreshState(t) ==
  /\ Viewed(t, "refresh")
  /\ \E got \in {FromApi(likes[t]), viewer[t].shown.likes} :
       shown' = [shown EXCEPT ![t] = [viewer[t].shown EXCEPT !.likes = got]]
  /\ UNCHANGED <<metricWorld, reading, delivery, jobRow, status, metric, snapshot, metricMishaps>>

(* makeYouTubePublic stores YouTube's answer alone: the numbers are gone.  *)
MakePublic(t) ==
  /\ Viewed(t, "public")
  /\ shown' = [shown EXCEPT ![t] = [likes |-> Blank("NOT_SYNCED"), public |-> TRUE]]
  /\ UNCHANGED <<metricWorld, reading, delivery, jobRow, status, metric, snapshot, metricMishaps>>

CancelPublish(t) ==
  /\ Viewed(t, "cancel") /\ status' = [status EXCEPT ![t] = "CANCELLED"]
  /\ shown' = [shown EXCEPT ![t] = viewer[t].shown]
  /\ UNCHANGED <<metricWorld, reading, delivery, jobRow, metric, snapshot, metricMishaps>>

MetricsNext ==
  \/ Midnight
  \/ \E t \in Target : \/ Like(t) \/ RefreshState(t) \/ MakePublic(t) \/ CancelPublish(t)
                       \/ \E doing \in {"refresh", "public", "cancel"} : ViewRow(t, doing)
  \/ \E j \in MetricJob : \/ EnqueueSync(j) \/ TakeMetricJob(j) \/ AskPlatform(j) \/ MetricDate(j)
                          \/ Persist(j) \/ EndMetricJob(j) \/ FailMetricJob(j) \/ MetricWorkerDies(j)

MetricsSpec == MetricsInit /\ [][MetricsNext]_metricVars
-----------------------------------------------------------------------------
(* The dashboard.  sumValues adds what is known; with nothing known the    *)
(* sum is unknown, unsupported when every part is.                         *)
SumValues(a, b) ==
  IF ~Usable(a) /\ ~Usable(b)
  THEN Blank(IF {a.source, b.source} = {"UNSUPPORTED"} THEN "UNSUPPORTED" ELSE "NOT_SYNCED")
  ELSE [value |-> (IF Usable(a) THEN a.value ELSE 0) + (IF Usable(b) THEN b.value ELSE 0),
        source |-> "DERIVED"]

(* buildPlatformBreakdown merges the posts one by one into an empty bag.   *)
Breakdown == FoldFunctionOnSet(SumValues, Blank("NOT_SYNCED"), metric, Target)

-----------------------------------------------------------------------------
(* The snapshot of a day holds no number the platform reached only later.  *)
NoNumbersFromTomorrow ==
  \A t \in Target, d \in 1..(today - 1) : snapshot[t][d].value <= evening[d][t]

(* docs/PROJECT_PLAN.md 75: what is not supported or not synced is never   *)
(* shown as 0; the dashboard's sum, merged in any order, is unknown unless *)
(* some post's number is known, and then it is the sum of those.           *)
UnknownIsNotZero ==
  LET known == {t \in Target : Usable(metric[t])} IN
  Breakdown.value = IF known = {} THEN Unknown ELSE SumFunctionOnSet([t \in Target |-> metric[t].value], known)

(* A number on the dashboard was true of the day it stands for.            *)
NumbersAreHonest == NoNumbersFromTomorrow /\ UnknownIsNotZero
=============================================================================
