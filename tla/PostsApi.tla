------------------------------ MODULE PostsApi ------------------------------
(***************************************************************************)
(* What the API does to one content post, apps/api/src/modules/posts/posts *)
(* .service.ts, beside the scheduled post scanner, apps/worker/src/        *)
(* schedulers/scheduled-post-scanner.ts, and publish workers in outline    *)
(* (PublishWorker has them in full; their Redis lock works here).          *)
(*                                                                         *)
(* A request is a caller that walks through the service method, one step   *)
(* per transaction, queue command or remote call.  Jobs are identified by  *)
(* queue and platform post: BullMQ ignores an add whose id it still holds, *)
(* and holds finished jobs for an hour (completed) or a week (failed),     *)
(* which is longer than the executions that are modelled.                  *)
(***************************************************************************)
EXTENDS PostStatus, Integers, FiniteSets, SequencesExt

CONSTANTS Account,     \* the connected social accounts of the workspace
          Caller,      \* requests under way at the same time
          MaxRows,     \* bound on the platform posts created
          MaxCalls,    \* bound on the requests and crashes
          MaxTries,    \* attempts of a publish-post job
          MaxCrashes   \* bound on the crashes of the API

ASSUME PostsApiAssumption ==
  /\ IsFiniteSet(Account) /\ Account # {} /\ Caller # {}
  /\ MaxRows \in Nat /\ MaxCalls \in Nat /\ MaxTries \in Nat \ {0}
  /\ MaxCrashes \in Nat

Id == 1..MaxRows
Queue == {"publish-post", "retry-failed-post"}

VARIABLES
  content,    \* ContentPost.status; NONE before it is created, GONE after
  plan,       \* PostSchedule: none, in the future, or due
  row,        \* the platform posts, by id
  born,       \* ids given out
  job,        \* the BullMQ job of each queue and platform post
  live,       \* copies of the post that are to be seen on each account
  call,       \* where each request is
  scan,       \* the platform posts the scanner has read
  restarted,  \* onModuleInit has yet to run its sweep
  calls, apiCrashes

postsVars == <<content, plan, row, born, job, live, call, scan, restarted, calls,
               apiCrashes>>

(* Deleted rows keep their account, for a worker that still has them.      *)
NoRow == [acct |-> "none", st |-> "NONE", ext |-> FALSE]
NoJob == [st |-> "none", tries |-> 0]
NoCall == [op |-> "none", step |-> "idle", ids |-> {}, goes |-> {}, accts |-> {},
           whole |-> FALSE]

(* A job is waiting for its time or a worker, with a worker (begun, calling *)
(* the platform, out with an answer to record), or finished and kept.       *)
Held == {"begun", "calling", "out"}

PostsTypeOK ==
  /\ content \in PostStatuses \cup {"NONE", "GONE"}
  /\ plan \in {"none", "future", "due"}
  /\ row \in [Id -> [acct : Account \cup {"none"}, ext : BOOLEAN,
                     st : PlatformPostStatuses \cup {"NONE"}]]
  /\ born \in 0..MaxRows
  /\ job \in [Queue \X Id -> [tries : 0..MaxTries,
                              st : Held \cup {"none", "delayed", "waiting", "kept"}]]
  /\ live \in [Account -> Nat]
  /\ scan \subseteq Id /\ restarted \in BOOLEAN
  /\ \A c \in Caller : call[c].ids \subseteq Id /\ call[c].accts \subseteq Account
  /\ calls \in 0..MaxCalls /\ apiCrashes \in 0..MaxCrashes

PostsInit ==
  /\ content = "NONE" /\ plan = "none" /\ row = [i \in Id |-> NoRow] /\ born = 0
  /\ job = [j \in Queue \X Id |-> NoJob] /\ live = [a \in Account |-> 0]
  /\ call = [c \in Caller |-> NoCall] /\ scan = {} /\ restarted = FALSE
  /\ calls = 0 /\ apiCrashes = 0
-----------------------------------------------------------------------------
Rows(r) == {i \in Id : r[i].st # "NONE"}
In(statuses) == {i \in Id : row[i].st \in statuses}
Setting(ids, s) == [i \in Id |-> IF i \in ids /\ row[i].st # "NONE"
                                  THEN [row[i] EXCEPT !.st = s] ELSE row[i]]

Gone(i) == [row[i] EXCEPT !.st = "NONE", !.ext = FALSE]

(* The copies of these platform posts are taken off the platforms.         *)
Without(ids) ==
  [a \in Account |-> IF \E i \in ids : row[i].acct = a /\ live[a] > 0
                     THEN live[a] - 1 ELSE live[a]]

(* updateParentStatus: of a post that is still there.                      *)
Derived(r) == IF content = "GONE" THEN "GONE"
              ELSE DeriveContentPostStatus({r[i].st : i \in Rows(r)})

(* Queue.add with an explicit job id.                                      *)
Added(q, ids, s) ==
  [j \in Queue \X Id |-> IF j[1] = q /\ j[2] \in ids /\ job[j] = NoJob
                         THEN [st |-> s, tries |-> 0] ELSE job[j]]

(* replaceTargets: what has not gone out makes room for new rows.          *)
Replaceable == {"PENDING", "QUEUED", "FAILED", "CANCELLED"}

Replaced(accts) ==
  LET s == SetToSeq(accts)
  IN  [i \in Id |->
        IF i > born /\ i <= born + Len(s)
        THEN [acct |-> s[i - born], st |-> "PENDING", ext |-> FALSE]
        ELSE IF row[i].st \in Replaceable THEN Gone(i) ELSE row[i]]

Retarget(accts) ==
  /\ born + Cardinality(accts) <= MaxRows
  /\ born' = born + Cardinality(accts)
  /\ row' = Replaced(accts)

(* The request goes on, or ends.                                           *)
Step(c, s) == call' = [call EXCEPT ![c].step = s]
End(c) == call' = [call EXCEPT ![c] = NoCall]
At(c, op, s) == call[c].op = op /\ call[c].step = s

\* The bound of an execution: each crash takes the place of a request.
Left == calls + apiCrashes < MaxCalls

Start(c, op, s, ids, accts) ==
  /\ call[c] = NoCall /\ Left /\ calls' = calls + 1
  /\ call' = [call EXCEPT ![c] = [NoCall EXCEPT !.op = op, !.step = s, !.ids = ids,
                                                !.accts = accts]]
-----------------------------------------------------------------------------
(* create, as a draft or with a time.                                      *)
Create(c) ==
  \E accts \in SUBSET Account \ {{}}, timed \in BOOLEAN :
    /\ content = "NONE"
    /\ Start(c, "schedule", IF timed THEN "enqueue" ELSE "end", {}, {})
    /\ Retarget(accts)
    /\ content' = IF timed THEN "SCHEDULED" ELSE "DRAFT"
    /\ plan' = IF timed THEN "future" ELSE "none"
    /\ UNCHANGED <<job, live, scan, restarted, apiCrashes>>

(* publishNow and schedule first take the waiting jobs away.  accts = {}   *)
(* stands for a request without socialAccountIds.                          *)
Request(c) ==
  /\ content \notin {"NONE", "GONE"}
  /\ \E op \in {"publish", "schedule"}, accts \in SUBSET Account :
       Start(c, op, "remove", {}, accts)
  /\ UNCHANGED <<content, plan, row, born, job, live, scan, restarted, apiCrashes>>

(* removeScheduledJobs.  BullMQ refuses to remove a job a worker holds;    *)
(* the request then fails, its other jobs removed.                         *)
RemoveJobs(c) ==
  LET mine == {j \in Queue \X Id : j[1] = "publish-post" /\ j[2] \in Rows(row)}
      free == {j \in mine : job[j].st \notin Held}
  IN  /\ call[c].step = "remove"
      /\ job' = [j \in Queue \X Id |-> IF j \in free THEN NoJob ELSE job[j]]
      /\ IF free = mine THEN Step(c, "write") ELSE End(c)
      /\ UNCHANGED <<content, plan, row, born, live, scan, restarted, calls, apiCrashes>>

(* prepareForPublishing, a transaction.                                    *)
PrepareForPublishing(c) ==
  LET asked   == call[c].accts
      targets == {i \in Rows(row) : /\ row[i].st # "PUBLISHED"
                                    /\ asked = {} \/ row[i].acct \in asked}
      allowed == /\ content \in {"DRAFT", "SCHEDULED", "FAILED", "PARTIALLY_PUBLISHED"}
                 /\ asked \subseteq {row[i].acct : i \in Rows(row)}
                 /\ targets # {}
  IN  /\ At(c, "publish", "write")
      /\ \/ /\ allowed
            /\ content' = "QUEUED" /\ plan' = "none" /\ row' = Setting(targets, "QUEUED")
            /\ Step(c, "enqueue")
         \/ ~allowed /\ End(c) /\ UNCHANGED <<content, plan, row>>
      /\ UNCHANGED <<born, job, live, scan, restarted, calls, apiCrashes>>

(* enqueuePlatformPosts.                                                   *)
EnqueuePlatformPosts(c) ==
  /\ At(c, "publish", "enqueue")
  /\ job' = Added("publish-post", In({"QUEUED"}), "waiting")
  /\ End(c)
  /\ UNCHANGED <<content, plan, row, born, live, scan, restarted, calls, apiCrashes>>

(* The transaction of schedule.                                            *)
ScheduleWrite(c) ==
  LET asked   == call[c].accts
      allowed == /\ content \in {"DRAFT", "SCHEDULED", "FAILED"}
                 /\ asked # {} \/ Rows(row) # {}
  IN  /\ At(c, "schedule", "write")
      /\ \/ /\ allowed
            /\ IF asked = {} THEN UNCHANGED <<row, born>> ELSE Retarget(asked)
            /\ content' = "SCHEDULED" /\ plan' = "future" /\ Step(c, "enqueue")
         \/ ~allowed /\ End(c) /\ UNCHANGED <<content, plan, row, born>>
      /\ UNCHANGED <<job, live, scan, restarted, calls, apiCrashes>>

(* enqueuePost with a time: every child gets a delayed job.                *)
EnqueuePost(c) ==
  /\ At(c, "schedule", "enqueue")
  /\ job' = Added("publish-post", Rows(row), IF plan = "due" THEN "waiting" ELSE "delayed")
  /\ End(c)
  /\ UNCHANGED <<content, plan, row, born, live, scan, restarted, calls, apiCrashes>>

(* retry reads the failed children, then queues what it has read.          *)
RetryRead(c) ==
  /\ In({"FAILED"}) # {}
  /\ Start(c, "retry", "write", In({"FAILED"}), {})
  /\ UNCHANGED <<content, plan, row, born, job, live, scan, restarted, apiCrashes>>

RetryWrite(c) ==
  /\ At(c, "retry", "write")
  /\ IF content = "GONE" THEN End(c) /\ UNCHANGED <<content, row>>
     ELSE content' = "QUEUED" /\ row' = Setting(call[c].ids, "QUEUED") /\ Step(c, "enqueue")
  /\ UNCHANGED <<plan, born, job, live, scan, restarted, calls, apiCrashes>>

EnqueueRetries(c) ==
  /\ At(c, "retry", "enqueue")
  /\ job' = Added("retry-failed-post", call[c].ids, "waiting")
  /\ End(c)
  /\ UNCHANGED <<content, plan, row, born, live, scan, restarted, calls, apiCrashes>>

(* update with new targets: the status is read before the transaction and  *)
(* not again in it.  No job is touched.                                    *)
UpdateRead(c) ==
  /\ content \in {"DRAFT", "SCHEDULED", "FAILED"}
  /\ \E accts \in SUBSET Account \ {{}} : Start(c, "update", "write", {}, accts)
  /\ UNCHANGED <<content, plan, row, born, job, live, scan, restarted, apiCrashes>>

UpdateWrite(c) ==
  /\ At(c, "update", "write")
  /\ IF content = "GONE" THEN UNCHANGED <<row, born>> ELSE Retarget(call[c].accts)
  /\ End(c)
  /\ UNCHANGED <<content, plan, job, live, scan, restarted, calls, apiCrashes>>

(* deletePost reads the post and settles what to delete where.  whole: the *)
(* content itself goes too.  goes: what is to be deleted on the platforms. *)
DeleteRead(c) ==
  LET out(asked) == {i \in asked : row[i].st = "PUBLISHED" /\ row[i].ext}
      published  == content \in {"PUBLISHED", "PARTIALLY_PUBLISHED"}
  IN  /\ content \notin {"NONE", "GONE"} /\ call[c] = NoCall
      /\ Left /\ calls' = calls + 1
      /\ \E asked \in SUBSET Rows(row) :
         \E goes \in {{}} \cup (IF published THEN {out(asked)} ELSE {}) :
           call' = [call EXCEPT ![c] =
                      [NoCall EXCEPT !.op = "delete", !.step = "remote", !.ids = asked,
                                     !.goes = goes,
                                     !.whole = Rows(row) \ In({"DELETED"}) \subseteq asked]]
      /\ UNCHANGED <<content, plan, row, born, job, live, scan, restarted, apiCrashes>>

(* deletePublishedPlatformPosts: some deletions fail, one by one.  Only    *)
(* what was deleted there is marked when the request named no children.    *)
DeleteRemote(c) ==
  LET goes == call[c].goes
      asked == IF call[c].whole THEN {call[c].ids, goes} ELSE {call[c].ids}
  IN  /\ At(c, "delete", "remote")
      /\ \E failed \in SUBSET goes, local \in asked :
           /\ live' = Without(goes \ failed)
           /\ IF call[c].whole /\ failed = {} THEN Step(c, "remove")
              ELSE call' = [call EXCEPT ![c].step = "mark", ![c].ids = local \ failed]
      /\ UNCHANGED <<content, plan, row, born, job, scan, restarted, calls, apiCrashes>>

(* markPlatformPostsDeleted, then updateParentStatus.                      *)
DeleteMark(c) ==
  /\ At(c, "delete", "mark")
  /\ row' = Setting(call[c].ids, "DELETED")
  /\ content' = Derived(row')
  /\ End(c)
  /\ UNCHANGED <<plan, born, job, live, scan, restarted, calls, apiCrashes>>

(* The content post is deleted; its platform posts and schedule cascade.   *)
DeleteWrite(c) ==
  /\ At(c, "delete", "write")
  /\ content' = "GONE" /\ plan' = "none" /\ row' = [i \in Id |-> Gone(i)]
  /\ End(c)
  /\ UNCHANGED <<born, job, live, scan, restarted, calls, apiCrashes>>

(* cancelTikTokPublish: the platform withdraws the post, then the row and  *)
(* its parent follow.                                                      *)
CancelTikTokPublish(i) ==
  /\ row[i].ext /\ row[i].st # "DELETED" /\ Left /\ calls' = calls + 1
  /\ live' = Without({i})
  /\ row' = Setting({i}, "CANCELLED")
  /\ content' = Derived(row')
  /\ UNCHANGED <<plan, born, job, call, scan, restarted, apiCrashes>>

EndCall(c) == /\ call[c].step = "end" /\ End(c)
              /\ UNCHANGED <<content, plan, row, born, job, live, scan, restarted,
                             calls, apiCrashes>>
-----------------------------------------------------------------------------
\* Mutant of ScanRead: only what is queued is looked for.
ScanReadQueued ==
  /\ scan = {} /\ content = "SCHEDULED" /\ plan = "due"
  /\ In({"QUEUED"}) # {} /\ scan' = In({"QUEUED"})
  /\ UNCHANGED <<content, plan, row, born, job, live, call, restarted, calls, apiCrashes>>

(* scanScheduledPostsOnce: reads what is due, then adds the jobs.          *)
ScanRead ==
  /\ scan = {} /\ content = "SCHEDULED" /\ plan = "due"
  /\ In({"PENDING", "QUEUED"}) # {} /\ scan' = In({"PENDING", "QUEUED"})
  /\ UNCHANGED <<content, plan, row, born, job, live, call, restarted, calls, apiCrashes>>

ScanAdd ==
  /\ scan # {} /\ job' = Added("publish-post", scan, "waiting") /\ scan' = {}
  /\ UNCHANGED <<content, plan, row, born, live, call, restarted, calls, apiCrashes>>

(* sweepStuckJobs, once at every start of the API: the queued rows that    *)
(* are older than five minutes.                                            *)
SweepStuckJobs ==
  /\ restarted /\ restarted' = FALSE
  /\ \E old \in SUBSET In({"QUEUED"}) : job' = Added("publish-post", old, "waiting")
  /\ UNCHANGED <<content, plan, row, born, live, call, scan, calls, apiCrashes>>

(* The API dies; its requests end where they are.                          *)
CrashApi ==
  /\ apiCrashes < MaxCrashes /\ apiCrashes' = apiCrashes + 1
  /\ Left
  /\ call' = [c \in Caller |-> NoCall] /\ restarted' = TRUE
  /\ UNCHANGED <<content, plan, row, born, job, live, scan, calls>>

(* The scheduled time comes.                                               *)
Due ==
  /\ plan = "future" /\ plan' = "due"
  /\ job' = [j \in Queue \X Id |->
               IF job[j].st = "delayed" THEN [job[j] EXCEPT !.st = "waiting"] ELSE job[j]]
  /\ UNCHANGED <<content, row, born, live, call, scan, restarted, calls, apiCrashes>>
-----------------------------------------------------------------------------
Other(j) == <<IF j[1] = "publish-post" THEN "retry-failed-post" ELSE "publish-post", j[2]>>

To(j, s) == job' = [job EXCEPT ![j].st = s]

\* Mutant of Take: externalPostId is not looked at.
TakeWithoutCheck(j) ==
  /\ job[j].st = "waiting"
  /\ IF j[2] \in Rows(row) THEN row' = Setting({j[2]}, "PROCESSING") /\ To(j, "begun")
     ELSE To(j, "kept") /\ UNCHANGED row
  /\ UNCHANGED <<content, plan, born, live, call, scan, restarted, calls, apiCrashes>>

(* A worker takes the job.  Nothing to do when the other queue's job holds *)
(* the lock, the row is gone, or it has an externalPostId.                 *)
Take(j) ==
  LET i == j[2] IN
  /\ job[j].st = "waiting"
  /\ \/ /\ job[Other(j)].st \notin Held /\ i \in Rows(row)
        /\ ~row[i].ext /\ row[i].st # "PUBLISHED"
        /\ row' = Setting({i}, "PROCESSING") /\ To(j, "begun")
     \/ /\ job[Other(j)].st \in Held \/ i \notin Rows(row) \/ row[i].ext
           \/ row[i].st = "PUBLISHED"
        /\ To(j, "kept") /\ UNCHANGED row
  /\ UNCHANGED <<content, plan, born, live, call, scan, restarted, calls, apiCrashes>>

\* Mutant of LastTry: the attempt under way is not counted.
LastTryMiscounted(j) == job[j].tries >= (IF j[1] = "publish-post" THEN MaxTries ELSE 1)

(* A thrown error: BullMQ runs the job again while it has attempts left.   *)
LastTry(j) == job[j].tries + 1 >= (IF j[1] = "publish-post" THEN MaxTries ELSE 1)
Throw(j) == job' = [job EXCEPT ![j] = [st |-> IF LastTry(j) THEN "kept" ELSE "waiting",
                                       tries |-> @.tries + 1]]

TakeParent(j) ==
  /\ job[j].st = "begun"
  /\ IF content = "GONE" THEN Throw(j) /\ UNCHANGED content
     ELSE content' = "PROCESSING" /\ To(j, "calling")
  /\ UNCHANGED <<plan, row, born, live, call, scan, restarted, calls, apiCrashes>>

(* The platform publishes the post, or refuses it: for good, or for now.   *)
Publish(j) ==
  /\ job[j].st = "calling"
  /\ live' = [live EXCEPT ![row[j[2]].acct] = @ + 1] /\ To(j, "out")
  /\ UNCHANGED <<content, plan, row, born, call, scan, restarted, calls, apiCrashes>>

Refuse(j) ==
  /\ job[j].st = "calling"
  /\ \/ Throw(j) /\ row' = Setting({j[2]}, IF LastTry(j) THEN "FAILED" ELSE "QUEUED")
     \/ To(j, "kept") /\ row' = Setting({j[2]}, "FAILED")
  /\ content' = Derived(row')
  /\ UNCHANGED <<plan, born, live, call, scan, restarted, calls, apiCrashes>>

Record(j) ==
  LET i == j[2] IN
  /\ job[j].st = "out"
  /\ row' = [k \in Id |-> IF k = i /\ i \in Rows(row)
                          THEN [row[i] EXCEPT !.st = "PUBLISHED", !.ext = TRUE] ELSE row[k]]
  /\ IF i \in Rows(row) THEN To(j, "kept") ELSE Throw(j)
  /\ content' = Derived(row')
  /\ UNCHANGED <<plan, born, live, call, scan, restarted, calls, apiCrashes>>
-----------------------------------------------------------------------------
Proceed(c) ==
  \/ RemoveJobs(c) \/ PrepareForPublishing(c) \/ EnqueuePlatformPosts(c)
  \/ ScheduleWrite(c) \/ EnqueuePost(c) \/ RetryWrite(c) \/ EnqueueRetries(c)
  \/ UpdateWrite(c) \/ DeleteRemote(c) \/ DeleteMark(c) \/ DeleteWrite(c) \/ EndCall(c)

Ask(c) == Create(c) \/ Request(c) \/ RetryRead(c) \/ UpdateRead(c) \/ DeleteRead(c)

Work(j) == Take(j) \/ TakeParent(j) \/ Publish(j) \/ Refuse(j) \/ Record(j)

PostsNext ==
  \/ \E c \in Caller : Ask(c) \/ Proceed(c)
  \/ \E i \in Id : CancelTikTokPublish(i)
  \/ ScanRead \/ ScanAdd \/ SweepStuckJobs \/ CrashApi \/ Due
  \/ \E j \in Queue \X Id : Work(j)

(* Requests, the scanner's timer, the clock and the workers go on.         *)
PostsFairness ==
  /\ \A c \in Caller : WF_postsVars(Proceed(c))
  /\ WF_postsVars(ScanRead) /\ WF_postsVars(ScanAdd) /\ WF_postsVars(Due)
  /\ \A j \in Queue \X Id : WF_postsVars(Work(j))

PostsSpec == PostsInit /\ [][PostsNext]_postsVars /\ PostsFairness
-----------------------------------------------------------------------------
(* A scheduled post goes out, each of its platform posts: those that are   *)
(* due and have lost their jobs, to a crash of the API, to a refused       *)
(* request (removeScheduledJobs runs before the checks of publishNow and   *)
(* schedule) or to new targets (update enqueues nothing), are found by the *)
(* scanner and published or refused, when no other request comes.  The     *)
(* scanner looks at SCHEDULED posts only, and a worker that has a sibling  *)
(* moves the post on from there: so no sibling may have a job.             *)
Awaited == {i \in In({"PENDING", "QUEUED", "PROCESSING"}) : ~row[i].ext}

Lost ==
  /\ content = "SCHEDULED" /\ plan = "due"
  /\ Awaited \cap In({"PENDING", "QUEUED"}) # {}
  /\ \A j \in Queue \X Id : job[j].st \in {"none", "kept"}
  /\ scan = {} /\ ~restarted /\ \A c \in Caller : call[c] = NoCall

ScheduledGoesOut == Lost /\ ~Left ~> Awaited = {}

(* What has gone out once and was withdrawn or deleted since does not go   *)
(* out again: publishNow puts deleted and cancelled platform posts back in *)
(* the queue, and only the worker's look at externalPostId stops them.     *)
WithdrawnStaysAway ==
  [][\A j \in Queue \X Id :
       job[j].st = "calling" /\ job'[j].st = "out" => ~row[j[2]].ext]_postsVars

(* A queued platform post is on its way: a job of it waits or runs, or the *)
(* request that queued it is about to enqueue.                             *)
QueuedIsCarried ==
  \A i \in In({"QUEUED"}) :
    \/ \E q \in Queue : job[<<q, i>>].st \in Held \cup {"delayed", "waiting"}
    \/ \E c \in Caller : call[c].step = "enqueue"
=============================================================================
