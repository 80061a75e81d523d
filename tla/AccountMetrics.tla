--------------------------- MODULE AccountMetrics ---------------------------
(***************************************************************************)
(* The job sync-account-metrics (sync-account-metrics.ts): one snapshot per*)
(* account and day.  One account, whose followers only grow, stands for    *)
(* all of them, its followers for their numbers.                           *)
(***************************************************************************)
EXTENDS MetricValues, FiniteSets

CONSTANTS AccountJob,                 \* sync-account-metrics jobs of the account
          MaxFollowers, MaxEvenings,  \* bounds on the followers and on the days
          AccountTries, MaxAccountMishaps

ASSUME AccountMetricsAssumption ==
  /\ {MaxEvenings, AccountTries} \subseteq Nat \ {0} /\ {MaxFollowers, MaxAccountMishaps} \subseteq Nat

VARIABLES
  followers,  \* what the platform counts now
  accountDay, \* the date in the workspace's time zone
  atNightfall,\* the followers at the end of each past day
  connected,  \* the account is CONNECTED and has a token
  syncing,    \* the worker's memory of each job
  queued,     \* of each job in Redis: state, attempts, stalled before
  accountRow,      \* its backgroundJob row
  daily,      \* the metricSnapshot of each day: followers, dominant source
  accountMishaps

accountVars == <<followers, accountDay, atNightfall, connected, syncing, queued, accountRow, daily, accountMishaps>>
accountWorld == <<followers, accountDay, atNightfall>>
Resting == [at |-> "idle", day |-> 0, got |-> Blank("NOT_SYNCED"), source |-> "NOT_SYNCED"]
NotTaken == [followers |-> Unknown, source |-> "NOT_SYNCED"]

AccountInit ==
  /\ followers = 0 /\ accountDay = 1 /\ atNightfall = [d \in 0..MaxEvenings |-> 0] /\ connected = TRUE
  /\ syncing = [j \in AccountJob |-> Resting] /\ accountRow = [j \in AccountJob |-> "none"]
  /\ queued = [j \in AccountJob |-> [state |-> "none", tries |-> 0, stalled |-> FALSE]]
  /\ daily = [d \in 1..MaxEvenings |-> NotTaken] /\ accountMishaps = 0

AccountTypeOK ==
  /\ followers \in 0..MaxFollowers /\ accountDay \in 1..MaxEvenings
  /\ \A d \in 1..MaxEvenings : /\ daily[d].followers \in {Unknown} \cup 0..followers /\ daily[d].source \in Sources
                               /\ d > accountDay => daily[d] = NotTaken
  /\ \A j \in AccountJob : /\ queued[j].tries \in 0..AccountTries /\ syncing[j].day \in 0..accountDay
                           /\ syncing[j].at # "idle" => queued[j].state = "running"
                           /\ accountRow[j] = "DEAD" => syncing[j].at = "idle"
-----------------------------------------------------------------------------
Follow ==
  /\ followers < MaxFollowers /\ followers' = followers + 1
  /\ UNCHANGED <<accountDay, atNightfall, connected, syncing, queued, accountRow, daily, accountMishaps>>

Nightfall ==
  /\ accountDay < MaxEvenings /\ accountDay' = accountDay + 1
  /\ atNightfall' = [atNightfall EXCEPT ![accountDay] = followers]
  /\ UNCHANGED <<followers, connected, syncing, queued, accountRow, daily, accountMishaps>>

DisconnectAccount ==
  /\ connected /\ connected' = FALSE
  /\ UNCHANGED <<accountWorld, syncing, queued, accountRow, daily, accountMishaps>>

(* enqueueSync: the row and the job; each request makes a job of its own.  *)
EnqueueAccountSync(j) ==
  /\ accountRow[j] = "none" /\ connected
  /\ accountRow' = [accountRow EXCEPT ![j] = "QUEUED"] /\ queued' = [queued EXCEPT ![j].state = "waiting"]
  /\ UNCHANGED <<accountWorld, connected, syncing, daily, accountMishaps>>

TakeAccountJob(j) ==
  /\ queued[j].state = "waiting"
  /\ queued' = [queued EXCEPT ![j].state = "running", ![j].tries = @ + 1]
  /\ accountRow' = [accountRow EXCEPT ![j] = "RUNNING"] /\ syncing' = [syncing EXCEPT ![j].at = "load"]
  /\ UNCHANGED <<accountWorld, connected, daily, accountMishaps>>

(* An account that is gone or disconnected ends the job well.              *)
LoadAccount(j) ==
  /\ syncing[j].at = "load"
  /\ syncing' = [syncing EXCEPT ![j].at = IF connected THEN "date" ELSE "end"]
  /\ UNCHANGED <<accountWorld, connected, queued, accountRow, daily, accountMishaps>>

\* Mutant of ChooseDate: the date is read when the platform has answered.
ChooseDateLate(j) ==
  /\ syncing[j].at = "date"
  /\ IF syncing[j].day = 0 THEN syncing' = [syncing EXCEPT ![j].day = accountDay, ![j].got = FromApi(followers)]
     ELSE syncing' = [syncing EXCEPT ![j].at = "store", ![j].day = accountDay, ![j].source = "PLATFORM_API"]
  /\ UNCHANGED <<accountWorld, connected, queued, accountRow, daily, accountMishaps>>

(* After the token is fresh and before the platform is asked; for the posts*)
(* it is the other way round (Metrics.MetricDate).                         *)
ChooseDate(j) ==
  /\ syncing[j].at = "date" /\ syncing' = [syncing EXCEPT ![j].at = "ask", ![j].day = accountDay]
  /\ UNCHANGED <<accountWorld, connected, queued, accountRow, daily, accountMishaps>>

DominantSource(sources) ==
  IF "PLATFORM_API" \in sources THEN "PLATFORM_API"
  ELSE IF "DERIVED" \in sources THEN "DERIVED"
  ELSE IF sources = {"UNSUPPORTED"} THEN "UNSUPPORTED" ELSE "NOT_SYNCED"

(* The followers, if the platform gives them, and the sources of the rest; *)
(* an adapter without getAccountMetrics supports none.                     *)
AskAccount(j) ==
  /\ syncing[j].at = "ask"
  /\ \E got \in {FromApi(followers), Blank("NOT_SYNCED"), Blank("UNSUPPORTED")}, others \in {{}, {"DERIVED"}, {"PLATFORM_API"}} :
       syncing' = [syncing EXCEPT ![j].at = "store", ![j].got = got,
                                  ![j].source = DominantSource({got.source} \cup others)]
  /\ UNCHANGED <<accountWorld, connected, queued, accountRow, daily, accountMishaps>>

StoreSnapshot(j) ==
  /\ syncing[j].at = "store" /\ syncing' = [syncing EXCEPT ![j] = [Resting EXCEPT !.at = "end"]]
  /\ daily' = [daily EXCEPT ![syncing[j].day] = [followers |-> syncing[j].got.value, source |-> syncing[j].source]]
  /\ UNCHANGED <<accountWorld, connected, queued, accountRow, accountMishaps>>

EndAccountJob(j) ==
  /\ syncing[j].at = "end" /\ syncing' = [syncing EXCEPT ![j] = Resting]
  /\ accountRow' = [accountRow EXCEPT ![j] = "COMPLETED"] /\ queued' = [queued EXCEPT ![j].state = "done"]
  /\ UNCHANGED <<accountWorld, connected, daily, accountMishaps>>

(* Every error is thrown again, whatever its kind; DEAD at the last try.   *)
FailAccountJob(j) ==
  LET last == queued[j].tries = AccountTries IN
  /\ syncing[j].at # "idle" /\ accountMishaps < MaxAccountMishaps /\ accountMishaps' = accountMishaps + 1
  /\ syncing' = [syncing EXCEPT ![j] = Resting]
  /\ accountRow' = [accountRow EXCEPT ![j] = IF last THEN "DEAD" ELSE "FAILED"]
  /\ queued' = [queued EXCEPT ![j].state = IF last THEN "dead" ELSE "waiting"]
  /\ UNCHANGED <<accountWorld, connected, daily>>

AccountWorkerDies(j) ==
  /\ syncing[j].at # "idle" /\ accountMishaps < MaxAccountMishaps /\ accountMishaps' = accountMishaps + 1
  /\ syncing' = [syncing EXCEPT ![j] = Resting]
  /\ queued' = [queued EXCEPT ![j] = [state |-> IF @.stalled THEN "dead" ELSE "waiting",
                                      tries |-> @.tries - 1, stalled |-> TRUE]]
  /\ UNCHANGED <<accountWorld, connected, accountRow, daily>>

AccountNext ==
  \/ Follow \/ Nightfall \/ DisconnectAccount
  \/ \E j \in AccountJob :
       \/ EnqueueAccountSync(j) \/ TakeAccountJob(j) \/ LoadAccount(j) \/ ChooseDate(j) \/ AskAccount(j)
       \/ StoreSnapshot(j) \/ EndAccountJob(j) \/ FailAccountJob(j) \/ AccountWorkerDies(j)

AccountSpec == AccountInit /\ [][AccountNext]_accountVars
-----------------------------------------------------------------------------
(* A day's snapshot is no older than the day: attempts that are late,      *)
(* repeated or overtaken by midnight never store under a date what the     *)
(* account had before it (the opposite of what sync-post-metrics keeps, and*)
(* a slow answer may bring tomorrow's number).  A snapshot whose source is *)
(* not PLATFORM_API holds no number of the platform.                       *)
SnapshotsAreNotOld ==
  \A d \in 1..accountDay : daily[d].followers # Unknown =>
    daily[d].followers >= atNightfall[d - 1] /\ daily[d].source = "PLATFORM_API"
=============================================================================
