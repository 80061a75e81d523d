---------------------------- MODULE PublishWorker ----------------------------
(***************************************************************************)
(* The publish-post processor, apps/worker/src/processors/publish-post.ts, *)
(* with BullMQ's delivery of its jobs and the failures around it.  The     *)
(* posts are the platform posts ("children") of ONE content post.  Each    *)
(* may have a job on the queue publish-post and one on retry-failed-post:  *)
(* both queues run this processor and both jobs use the same Redis lock.   *)
(*                                                                         *)
(* A worker is one slot of a worker process.  It takes a job and walks     *)
(* through the processor, one step per database write, remote call or lock *)
(* command, interleaved with the other workers.  Processes crash, BullMQ   *)
(* redelivers stalled jobs, the lock of a running worker can be lost (how, *)
(* JobLock shows), and any database or Redis command may fail.             *)
(***************************************************************************)
EXTENDS PostStatus, ErrorPolicy, FiniteSets

CONSTANTS Post,           \* the platform posts of the content post
          Kinds,          \* the queues in use
          Worker,         \* processor slots
          Nobody,         \* no owner, no job, a free lock
          Orphan,         \* a lock whose holder is gone
          MaxAttempts,    \* attempts of publish-post in QUEUE_SETTINGS
          PrepareErrors,  \* what token refresh, storage and thumbnail throw
          PublishErrors,  \* what adapter.publishPost throws
          AdapterErrors,  \* what adapterFactory.forWorkspace throws
          MultiStep,      \* posts whose platform may answer a call that took
                          \* effect with another error than a lost answer
          Fixtures,       \* posts of a fixture account with a real adapter
          Invalid,        \* posts that may fail adapter.validatePost
          LiveStalls,     \* may BullMQ call a job of a live worker stalled?
          MaxCrashes, MaxLapses, MaxFaults   \* bounds on the failures

ASSUME PublishWorkerAssumption ==
  /\ IsFiniteSet(Post) /\ Post # {}
  /\ Kinds \subseteq {"publish-post", "retry-failed-post"}
  /\ Nobody \notin Worker /\ Orphan \notin Worker /\ Nobody # Orphan
  /\ Nobody \notin Post \X Kinds
  /\ MaxAttempts \in Nat \ {0}
  /\ PrepareErrors \subseteq Errors /\ PublishErrors \subseteq Errors
  /\ AdapterErrors \subseteq Errors
  /\ MultiStep \subseteq Post /\ Fixtures \subseteq Post /\ Invalid \subseteq Post
  /\ LiveStalls \in BOOLEAN
  /\ MaxCrashes \in Nat /\ MaxLapses \in Nat /\ MaxFaults \in Nat

Job == Post \X Kinds

AttemptsOf(j) == IF j[2] = "publish-post" THEN MaxAttempts ELSE 1

VARIABLES
  \* Postgres
  status,     \* PlatformPost.status
  ext,        \* PlatformPost.externalPostId: which remote copy; 0 is null
  fence,      \* PlatformPost.publishFence
  connected,  \* SocialAccount.status = CONNECTED, the account of each post
  parent,     \* ContentPost.status
  bg,         \* BackgroundJob.status
  \* Redis
  lock,       \* the key publish-post:<platformPostId>
  jobState,   \* BullMQ state of each job
  made,       \* attemptsMade
  stalls,     \* times BullMQ found the job stalled
  owner,      \* the worker that may settle the job
  recon,      \* the reconcile-platform-post job an attempt of a job leaves
  \* the platforms
  remote,     \* copies of the post that exist there
  \* the workers
  pc, run,
  \* bookkeeping of this model
  lost,       \* remote copies whose identifier nobody kept
  crashes, lapses, faults

dbVars      == <<status, ext, fence, connected, parent>>
deliveries  == <<jobState, made, stalls, owner>>
failures    == <<crashes, lapses, faults>>
vars == <<dbVars, bg, lock, deliveries, recon, remote, pc, run, lost, failures>>

Results == {"none", "published", "already_published", "locked", "failed",
            "account_disconnected", "fixture", "validation", "rethrow"}

(* What an invocation of the processor keeps in its variables.             *)
Invocation(j, n) == [job |-> j, attempt |-> n, err |-> "none", result |-> "none",
                     seen |-> {}, copy |-> 0]

NoRun == Invocation(Nobody, 0)

Steps == {"idle", "lock", "load", "begin", "beginParent", "adapters", "prepare",
          "fence", "call", "commit", "reject", "catch", "after", "parentRead",
          "parentWrite", "release", "finish", "outer", "dead"}

ReconSteps == {"none", "waiting", "asked", "answered", "parentRead",
               "parentWrite", "finish", "done"}

TypeOK ==
  /\ status \in [Post -> PlatformPostStatuses]
  /\ ext \in [Post -> Nat] /\ fence \in [Post -> Nat] /\ remote \in [Post -> Nat]
  /\ connected \in [Post -> BOOLEAN]
  /\ parent \in PostStatuses
  /\ bg \in [Job -> {"none", "RUNNING", "COMPLETED", "FAILED", "DEAD"}]
  /\ lock \in [Post -> Worker \cup {Nobody, Orphan}]
  /\ jobState \in [Job -> {"none", "waiting", "active", "completed", "failed"}]
  /\ made \in [Job -> Nat] /\ stalls \in [Job -> Nat]
  /\ owner \in [Job -> Worker \cup {Nobody}]
  /\ recon \in [Job -> ReconSteps]
  /\ pc \in [Worker -> Steps]
  /\ run \in [Worker -> [job : Job \cup {Nobody}, attempt : Nat,
                         err : Errors \cup {"none"}, result : Results,
                         seen : SUBSET PlatformPostStatuses, copy : Nat]]
  /\ lost \in [Post -> Nat]
  /\ crashes \in Nat /\ lapses \in Nat /\ faults \in Nat

(* The API has queued every post: at once (publishNow) or for later, in    *)
(* which case the children are still PENDING and the jobs were delayed.    *)
Init ==
  /\ \E s \in {<<"QUEUED", "QUEUED">>, <<"PENDING", "SCHEDULED">>} :
       /\ status = [p \in Post |-> s[1]]
       /\ parent = s[2]
  /\ ext = [p \in Post |-> 0] /\ fence = [p \in Post |-> 0]
  /\ remote = [p \in Post |-> 0] /\ lost = [p \in Post |-> 0]
  /\ connected = [p \in Post |-> TRUE]
  /\ bg = [j \in Job |-> "none"]
  /\ lock = [p \in Post |-> Nobody]
  /\ jobState = [j \in Job |-> IF j[2] = "publish-post" THEN "waiting" ELSE "none"]
  /\ made = [j \in Job |-> 0] /\ stalls = [j \in Job |-> 0]
  /\ owner = [j \in Job |-> Nobody]
  /\ recon = [j \in Job |-> "none"]
  /\ pc = [w \in Worker |-> "idle"]
  /\ run = [w \in Worker |-> NoRun]
  /\ crashes = 0 /\ lapses = 0 /\ faults = 0
-----------------------------------------------------------------------------
(* Where a worker is.                                                      *)

PostOf(w) == run[w].job[1]

At(w, step) == pc[w] = step

Go(w, step) == pc' = [pc EXCEPT ![w] = step]

(* Leave for the step with a result, or with an error on its way up.       *)
GoWith(w, step, result) ==
  /\ Go(w, step)
  /\ run' = [run EXCEPT ![w].result = result]

Throw(w, step, e) ==
  /\ Go(w, step)
  /\ run' = [run EXCEPT ![w].err = e, ![w].result = "rethrow"]

Stop(w) ==
  /\ Go(w, "idle")
  /\ run' = [run EXCEPT ![w] = NoRun]

(* Between the acquisition of the lock and its release.                    *)
InSection(w) == pc[w] \notin {"idle", "lock", "finish", "outer", "dead"}

(* Inside the try block whose catch records the outcome of the attempt:    *)
(* the updateParentStatus that follows a commit or a failed validation is  *)
(* in it, the one of the catch block itself is not.                        *)
InInnerTry(w) ==
  \/ pc[w] \in {"prepare", "fence", "call", "commit"}
  \/ /\ pc[w] \in {"reject", "parentRead", "parentWrite"}
     /\ run[w].result \in {"published", "validation"}
-----------------------------------------------------------------------------
(* BullMQ hands the job to a free slot and the processor records that it   *)
(* runs.                                                                   *)
Take(w, j) ==
  /\ At(w, "idle") /\ jobState[j] = "waiting"
  /\ jobState' = [jobState EXCEPT ![j] = "active"]
  /\ owner' = [owner EXCEPT ![j] = w]
  /\ bg' = [bg EXCEPT ![j] = "RUNNING"]
  /\ Go(w, "lock")
  /\ run' = [run EXCEPT ![w] = Invocation(j, made[j] + 1)]
  /\ UNCHANGED <<dbVars, lock, made, stalls, recon, remote, lost, failures>>

(* withLock: the section runs only if the key did not exist.               *)
(* Mutant: it runs in any case (SET without NX).                           *)
AcquireWithoutNX(w) ==
  /\ At(w, "lock")
  /\ lock' = [lock EXCEPT ![PostOf(w)] = w]
  /\ Go(w, "load")
  /\ UNCHANGED <<dbVars, bg, deliveries, recon, remote, run, lost, failures>>

Acquire(w) ==
  /\ At(w, "lock")
  /\ \/ /\ lock[PostOf(w)] = Nobody
        /\ lock' = [lock EXCEPT ![PostOf(w)] = w]
        /\ Go(w, "load") /\ UNCHANGED run
     \/ /\ lock[PostOf(w)] # Nobody
        /\ GoWith(w, "finish", "locked") /\ UNCHANGED lock
  /\ UNCHANGED <<dbVars, bg, deliveries, recon, remote, lost, failures>>

(* publishPlatformPost loads the post with its account.                    *)
(* Mutant: the post is published whatever the row says.                    *)
LoadWithoutCheck(w) ==
  /\ At(w, "load")
  /\ IF connected[PostOf(w)]
       THEN Go(w, "begin") /\ UNCHANGED run
       ELSE GoWith(w, "reject", "account_disconnected")
  /\ UNCHANGED <<dbVars, bg, lock, deliveries, recon, remote, lost, failures>>

Load(w) ==
  /\ At(w, "load")
  /\ LET published == ext[PostOf(w)] # 0 \/ status[PostOf(w)] = "PUBLISHED"
     IN  \/ published /\ GoWith(w, "release", "already_published")
         \/ /\ ~published /\ ~connected[PostOf(w)]
            /\ GoWith(w, "reject", "account_disconnected")
         \/ /\ ~published /\ connected[PostOf(w)]
            /\ Go(w, "begin") /\ UNCHANGED run
  /\ UNCHANGED <<dbVars, bg, lock, deliveries, recon, remote, lost, failures>>

Begin(w) ==
  /\ At(w, "begin")
  /\ status' = [status EXCEPT ![PostOf(w)] = "PROCESSING"]
  /\ Go(w, "beginParent")
  /\ UNCHANGED <<ext, fence, connected, parent, bg, lock, deliveries, recon,
                 remote, run, lost, failures>>

BeginParent(w) ==
  /\ At(w, "beginParent")
  /\ parent' = "PROCESSING"
  /\ Go(w, "adapters")
  /\ UNCHANGED <<status, ext, fence, connected, bg, lock, deliveries, recon,
                 remote, run, lost, failures>>

(* adapterFactory.forWorkspace, which throws past the inner try, and the   *)
(* check for fixture accounts.                                             *)
GetAdapters(w) ==
  /\ At(w, "adapters")
  /\ \/ \E e \in AdapterErrors : Throw(w, "release", e)
     \/ PostOf(w) \in Fixtures /\ GoWith(w, "reject", "fixture")
     \/ PostOf(w) \notin Fixtures /\ Go(w, "prepare") /\ UNCHANGED run
  /\ UNCHANGED <<dbVars, bg, lock, deliveries, recon, remote, lost, failures>>

(* getFreshAccessToken, media, thumbnail, validatePost.  A refresh that    *)
(* succeeds marks the account CONNECTED; one that is refused as            *)
(* AUTH_INVALID, and an expired token nobody can refresh, disconnect it.   *)
Prepare(w) ==
  /\ At(w, "prepare")
  /\ \/ /\ Go(w, "fence")
        /\ \E c \in {connected[PostOf(w)], TRUE} :
             connected' = [connected EXCEPT ![PostOf(w)] = c]
        /\ UNCHANGED run
     \/ /\ PostOf(w) \in Invalid
        /\ GoWith(w, "reject", "validation")
        /\ UNCHANGED connected
     \/ \E e \in PrepareErrors :
          /\ Go(w, "catch")
          /\ run' = [run EXCEPT ![w].err = e]
          /\ \E c \in {connected[PostOf(w)] /\ e # "AUTH_INVALID",
                       connected[PostOf(w)] /\ e \notin {"AUTH_INVALID", "OTHER"}} :
               connected' = [connected EXCEPT ![PostOf(w)] = c]
  /\ UNCHANGED <<status, ext, fence, parent, bg, lock, deliveries, recon, remote,
                 lost, failures>>

Fence(w) ==
  /\ At(w, "fence")
  /\ fence' = [fence EXCEPT ![PostOf(w)] = @ + 1]
  /\ Go(w, "call")
  /\ UNCHANGED <<status, ext, connected, parent, bg, lock, deliveries, recon,
                 remote, run, lost, failures>>

(* Errors after which the platform may hold the post all the same: the     *)
(* answer was lost, or the platform answered with a 5xx or with something  *)
(* the adapter cannot read although it had acted.  Which adapters tell     *)
(* these apart from a refusal, and which do not, is in Adapters.           *)
MayHavePublished(p, e) == e = "NETWORK" \/ p \in MultiStep

(* adapter.publishPost.                                                    *)
Call(w) ==
  LET p == PostOf(w) IN
  /\ At(w, "call")
  /\ \/ /\ remote' = [remote EXCEPT ![p] = @ + 1]
        /\ Go(w, "commit")
        /\ run' = [run EXCEPT ![w].copy = remote[p] + 1]
        /\ UNCHANGED lost
     \/ \E e \in PublishErrors :
          /\ \/ UNCHANGED <<remote, lost>>
             \/ /\ MayHavePublished(p, e)
                /\ remote' = [remote EXCEPT ![p] = @ + 1]
                /\ lost' = [lost EXCEPT ![p] = @ + 1]
          /\ Go(w, "catch")
          /\ run' = [run EXCEPT ![w].err = e]
  /\ UNCHANGED <<dbVars, bg, lock, deliveries, recon, failures>>

(* The transaction that records the remote post.                           *)
Commit(w) ==
  /\ At(w, "commit")
  /\ status' = [status EXCEPT ![PostOf(w)] = "PUBLISHED"]
  /\ ext' = [ext EXCEPT ![PostOf(w)] = run[w].copy]
  /\ Go(w, "parentRead")
  /\ run' = [run EXCEPT ![w].result = "published", ![w].copy = 0]
  /\ UNCHANGED <<fence, connected, parent, bg, lock, deliveries, recon, remote,
                 lost, failures>>

(* markFailed for a post that is refused before the call.                  *)
Reject(w) ==
  /\ At(w, "reject")
  /\ status' = [status EXCEPT ![PostOf(w)] = "FAILED"]
  /\ connected' = [connected EXCEPT ![PostOf(w)] = @ /\ run[w].result # "fixture"]
  /\ Go(w, "parentRead")
  /\ UNCHANGED <<ext, fence, parent, bg, lock, deliveries, recon, remote, run,
                 lost, failures>>

Decision(w) == ActionOnError(run[w].err, run[w].attempt, AttemptsOf(run[w].job))

(* isRemoteUnknown.  (RemoteRequestError is thrown nowhere.)               *)
RemoteUnknown(w) == run[w].err = "NETWORK"

(* The inner catch records the outcome of the attempt ...                  *)
(* Mutant: an error that is not ambiguous is always retried.               *)
CatchAlwaysQueued(w) ==
  /\ At(w, "catch")
  /\ status' = [status EXCEPT ![PostOf(w)] =
                  IF RemoteUnknown(w) THEN "REMOTE_RESULT_UNKNOWN" ELSE "QUEUED"]
  /\ Go(w, "after")
  /\ run' = [run EXCEPT ![w].copy = 0]
  /\ UNCHANGED <<ext, fence, connected, parent, bg, lock, deliveries, recon,
                 remote, lost, failures>>

Catch(w) ==
  /\ At(w, "catch")
  /\ status' = [status EXCEPT ![PostOf(w)] =
                  IF RemoteUnknown(w) THEN "REMOTE_RESULT_UNKNOWN"
                  ELSE IF Decision(w) = "RETRY" THEN "QUEUED" ELSE "FAILED"]
  /\ Go(w, "after")
  /\ run' = [run EXCEPT ![w].copy = 0]
  /\ UNCHANGED <<ext, fence, connected, parent, bg, lock, deliveries, recon,
                 remote, lost, failures>>

(* ... enqueues a reconciliation (unless that job exists), disconnects the *)
(* account, notifies, and then either returns or lets the error pass.      *)
After(w) ==
  /\ At(w, "after")
  /\ recon' = IF RemoteUnknown(w) /\ recon[run[w].job] = "none"
                THEN [recon EXCEPT ![run[w].job] = "waiting"] ELSE recon
  /\ connected' = [connected EXCEPT ![PostOf(w)] =
                     @ /\ ~DisconnectsAccount(run[w].err)]
  /\ GoWith(w, "parentRead", IF Decision(w) = "RETRY" THEN "rethrow" ELSE "failed")
  /\ UNCHANGED <<status, ext, fence, parent, bg, lock, deliveries, remote, lost,
                 failures>>

(* updateParentStatus: read the children, then write what they add up to.  *)
ParentRead(w) ==
  /\ At(w, "parentRead")
  /\ run' = [run EXCEPT ![w].seen = {status[p] : p \in Post}]
  /\ Go(w, "parentWrite")
  /\ UNCHANGED <<dbVars, bg, lock, deliveries, recon, remote, lost, failures>>

(* Mutants: the child's status is copied; no sibling is looked at.         *)
ParentWriteCopied(w) ==
  /\ At(w, "parentWrite")
  /\ parent' = status[PostOf(w)]
  /\ run' = [run EXCEPT ![w].seen = {}]
  /\ Go(w, "release")
  /\ UNCHANGED <<status, ext, fence, connected, bg, lock, deliveries, recon,
                 remote, lost, failures>>

ParentWriteOwnChild(w) ==
  /\ At(w, "parentWrite")
  /\ parent' = DeriveContentPostStatus({status[PostOf(w)]})
  /\ run' = [run EXCEPT ![w].seen = {}]
  /\ Go(w, "release")
  /\ UNCHANGED <<status, ext, fence, connected, bg, lock, deliveries, recon,
                 remote, lost, failures>>

ParentWrite(w) ==
  /\ At(w, "parentWrite")
  /\ parent' = DeriveContentPostStatus(run[w].seen)
  /\ run' = [run EXCEPT ![w].seen = {}]
  /\ Go(w, "release")
  /\ UNCHANGED <<status, ext, fence, connected, bg, lock, deliveries, recon,
                 remote, lost, failures>>

(* withLock's finally.                                                     *)
Release(w) ==
  /\ At(w, "release")
  /\ lock' = [lock EXCEPT ![PostOf(w)] = IF @ = w THEN Nobody ELSE @]
  /\ Go(w, IF run[w].result = "rethrow" THEN "outer" ELSE "finish")
  /\ UNCHANGED <<dbVars, bg, deliveries, recon, remote, run, lost, failures>>
-----------------------------------------------------------------------------
(* BullMQ settles a job only for the worker it gave it to.                 *)
Owns(w) == owner[run[w].job] = w

Settle(w, state) ==
  LET j == run[w].job IN
  IF Owns(w) THEN /\ jobState' = [jobState EXCEPT ![j] = state]
                  /\ owner' = [owner EXCEPT ![j] = Nobody]
                  /\ made' = [made EXCEPT ![j] = @ + 1]
             ELSE UNCHANGED <<jobState, owner, made>>

(* The processor threw: the job waits for its next attempt if it has one.  *)
SettleThrown(w) ==
  Settle(w, IF made[run[w].job] + 1 < AttemptsOf(run[w].job) THEN "waiting"
                                                             ELSE "failed")

(* shouldMarkDead, the BackgroundJob record, and BullMQ's completion.      *)
Finish(w) ==
  /\ At(w, "finish")
  /\ bg' = [bg EXCEPT ![run[w].job] =
              IF run[w].result \in {"published", "already_published", "locked"}
                THEN "COMPLETED" ELSE "DEAD"]
  /\ Settle(w, "completed")
  /\ Stop(w)
  /\ UNCHANGED <<dbVars, lock, stalls, recon, remote, lost, failures>>

(* The outer catch: an error that may be retried goes back to BullMQ ...   *)
OuterCatch(w) ==
  /\ At(w, "outer")
  /\ \/ /\ Decision(w) = "RETRY"
        /\ bg' = [bg EXCEPT ![run[w].job] = "FAILED"]
        /\ SettleThrown(w) /\ Stop(w)
     \/ /\ Decision(w) # "RETRY"
        /\ bg' = [bg EXCEPT ![run[w].job] = "DEAD"]
        /\ Go(w, "dead") /\ UNCHANGED <<run, jobState, owner, made>>
  /\ UNCHANGED <<dbVars, lock, stalls, recon, remote, lost, failures>>

(* ... any other fails the post - the lock is no longer held - and ends    *)
(* the job with an UnrecoverableError.  Mutant: with the error itself.     *)
OuterDeadRetried(w) ==
  /\ At(w, "dead")
  /\ status' = [status EXCEPT ![PostOf(w)] = "FAILED"]
  /\ SettleThrown(w)
  /\ Stop(w)
  /\ UNCHANGED <<ext, fence, connected, parent, bg, lock, stalls, recon, remote,
                 lost, failures>>

OuterDead(w) ==
  /\ At(w, "dead")
  /\ status' = [status EXCEPT ![PostOf(w)] = "FAILED"]
  /\ Settle(w, "failed")
  /\ Stop(w)
  /\ UNCHANGED <<ext, fence, connected, parent, bg, lock, stalls, recon, remote,
                 lost, failures>>
-----------------------------------------------------------------------------
(* A remote copy that was made but not yet recorded is forgotten.          *)
ForgetCopy(w) ==
  lost' = IF At(w, "commit") THEN [lost EXCEPT ![PostOf(w)] = @ + 1] ELSE lost

(* The database, or Redis, refuses the worker's next command.              *)
Fault(w) ==
  /\ faults < MaxFaults /\ faults' = faults + 1
  /\ \/ /\ InInnerTry(w) /\ pc[w] # "call"
        /\ Go(w, "catch")
        /\ run' = [run EXCEPT ![w].err = "OTHER", ![w].seen = {}]
        /\ UNCHANGED <<jobState, owner, made, lock>>
     \/ /\ InSection(w) /\ ~InInnerTry(w) /\ pc[w] # "release"
        /\ Go(w, "release")
        /\ run' = [run EXCEPT ![w].err = "OTHER", ![w].result = "rethrow", ![w].seen = {}]
        /\ UNCHANGED <<jobState, owner, made, lock>>
     \/ /\ pc[w] \in {"lock", "finish"} /\ Throw(w, "outer", "OTHER")
        /\ UNCHANGED <<jobState, owner, made, lock>>
     \/ /\ At(w, "release")              \* withLock swallows this one
        /\ lock' = [lock EXCEPT ![PostOf(w)] = IF @ = w THEN Orphan ELSE @]
        /\ Go(w, IF run[w].result = "rethrow" THEN "outer" ELSE "finish")
        /\ UNCHANGED <<run, jobState, owner, made>>
     \/ /\ pc[w] \in {"outer", "dead"}   \* and nothing catches this one
        /\ SettleThrown(w) /\ Stop(w)
        /\ UNCHANGED lock
  /\ ForgetCopy(w)
  /\ UNCHANGED <<dbVars, bg, stalls, recon, remote, crashes, lapses>>

(* The worker process dies.                                                *)
Crash(w) ==
  /\ ~At(w, "idle")
  /\ crashes < MaxCrashes /\ crashes' = crashes + 1
  /\ ForgetCopy(w)
  /\ lock' = [p \in Post |-> IF lock[p] = w THEN Orphan ELSE lock[p]]
  /\ owner' = [j \in Job |-> IF owner[j] = w THEN Nobody ELSE owner[j]]
  /\ Stop(w)
  /\ UNCHANGED <<dbVars, bg, jobState, made, stalls, recon, remote, lapses, faults>>

(* BullMQ sees no sign of life from a job's owner and redelivers the job,  *)
(* once (maxStalledCount); then it fails it.  Mutants: it does so twice;   *)
(* without a limit.                                                        *)
StallUnlimited(j) ==
  /\ jobState[j] = "active"
  /\ owner[j] = Nobody \/ LiveStalls
  /\ jobState' = [jobState EXCEPT ![j] = "waiting"]
  /\ owner' = [owner EXCEPT ![j] = Nobody]
  /\ UNCHANGED <<dbVars, bg, lock, made, stalls, recon, remote, pc, run, lost, failures>>

StallTwice(j) ==
  /\ jobState[j] = "active"
  /\ owner[j] = Nobody \/ LiveStalls
  /\ jobState' = [jobState EXCEPT ![j] = IF stalls[j] <= 1 THEN "waiting" ELSE "failed"]
  /\ stalls' = [stalls EXCEPT ![j] = @ + 1]
  /\ owner' = [owner EXCEPT ![j] = Nobody]
  /\ UNCHANGED <<dbVars, bg, lock, made, recon, remote, pc, run, lost, failures>>

Stall(j) ==
  /\ jobState[j] = "active"
  /\ owner[j] = Nobody \/ LiveStalls
  /\ jobState' = [jobState EXCEPT ![j] = IF stalls[j] = 0 THEN "waiting" ELSE "failed"]
  /\ stalls' = [stalls EXCEPT ![j] = @ + 1]
  /\ owner' = [owner EXCEPT ![j] = Nobody]
  /\ UNCHANGED <<dbVars, bg, lock, made, recon, remote, pc, run, lost, failures>>

(* The key of a holder that is gone expires ...                            *)
Expire(p) ==
  /\ lock[p] = Orphan
  /\ lock' = [lock EXCEPT ![p] = Nobody]
  /\ UNCHANGED <<dbVars, bg, deliveries, recon, remote, pc, run, lost, failures>>

(* ... and so does, when its heartbeats fail, the key of one that runs.    *)
Lapse(p) ==
  /\ lock[p] \in Worker
  /\ lapses < MaxLapses /\ lapses' = lapses + 1
  /\ lock' = [lock EXCEPT ![p] = Nobody]
  /\ UNCHANGED <<dbVars, bg, deliveries, recon, remote, pc, run, lost, crashes, faults>>

(* The author has the failed posts tried again (retry of the posts API, a  *)
(* request at a time; PostsApi has it step by step): they are queued, each *)
(* with a job on the second queue unless that job exists already.          *)
Retry ==
  LET failed == {p \in Post : status[p] = "FAILED"} IN
  /\ "retry-failed-post" \in Kinds /\ failed # {}
  /\ status' = [p \in Post |-> IF p \in failed THEN "QUEUED" ELSE status[p]]
  /\ parent' = "QUEUED"
  /\ jobState' = [j \in Job |->
       IF j[1] \in failed /\ j[2] = "retry-failed-post" /\ jobState[j] = "none"
         THEN "waiting" ELSE jobState[j]]
  /\ UNCHANGED <<ext, fence, connected, bg, lock, made, stalls, owner, recon, remote,
                 pc, run, lost, failures>>
-----------------------------------------------------------------------------
Process(w) ==
  \/ Acquire(w) \/ Load(w) \/ Begin(w) \/ BeginParent(w) \/ GetAdapters(w)
  \/ Prepare(w) \/ Fence(w) \/ Call(w) \/ Commit(w) \/ Reject(w)
  \/ Catch(w) \/ After(w) \/ ParentRead(w) \/ ParentWrite(w) \/ Release(w)
  \/ Finish(w) \/ OuterCatch(w) \/ OuterDead(w)

Next ==
  \/ \E w \in Worker : \/ \E j \in Job : Take(w, j)
                       \/ Process(w) \/ Fault(w) \/ Crash(w)
  \/ \E j \in Job : Stall(j)
  \/ \E p \in Post : Expire(p) \/ Lapse(p)
  \/ Retry

Spec == Init /\ [][Next]_vars

(* Workers run on, somebody takes a waiting job, BullMQ's stalled check    *)
(* (every 30 s) finds the jobs of dead workers, and Redis expires keys.    *)
(* Nothing is assumed of the failures.                                     *)
Fairness ==
  /\ \A w \in Worker : WF_vars(Process(w))
  /\ \A j \in Job : /\ WF_vars(\E w \in Worker : Take(w, j))
                    /\ WF_vars(owner[j] = Nobody /\ Stall(j))
  /\ \A p \in Post : WF_vars(Expire(p))

FairSpec == Spec /\ Fairness
-----------------------------------------------------------------------------
(* Two invocations never work on the same post at once, whatever crashes,  *)
(* stalls and faults there are, as long as no running holder loses its     *)
(* lock: a redelivered job finds the lock taken.                           *)
OneAtATime ==
  lapses = 0 =>
    \A v, w \in Worker :
      InSection(v) /\ InSection(w) /\ PostOf(v) = PostOf(w) => v = w

(* externalPostId is the last defence against posting twice: once it is    *)
(* recorded, no retry, redelivery or second queue calls the platform for   *)
(* that post again, and the record never changes.                          *)
RecordedIsFinal ==
  [][\A p \in Post :
       lapses = 0 /\ ext[p] # 0 => ext'[p] = ext[p] /\ remote'[p] = remote[p]]_vars

(* Every copy on the platform is the recorded one, is about to be, or was  *)
(* lost by an event the code cannot see through: an ambiguous error, or a  *)
(* crash or a database error between the call and the commit.              *)
CopiesAreAccountedFor ==
  lapses = 0 =>
    \A p \in Post :
      remote[p] = lost[p] +
        IF ext[p] # 0 \/ \E w \in Worker : At(w, "commit") /\ PostOf(w) = p
          THEN 1 ELSE 0

(* A post is called for at most once per attempt of its jobs, plus once    *)
(* per job for the redelivery of a stalled one - whatever fails.           *)
CallsAreBounded ==
  \A p \in Post :
    fence[p] <= (IF "publish-post" \in Kinds THEN MaxAttempts + 1 ELSE 0) +
                (IF "retry-failed-post" \in Kinds THEN 2 ELSE 0)

(* No database or lock failed, and no job ran twice at a time.             *)
Orderly ==
  faults = 0 /\ lapses = 0 /\ ~LiveStalls /\ Kinds = {"publish-post"}

(* PUBLISHED is terminal, through crashes and redeliveries: what a second  *)
(* invocation does to the row it does before its Load, or not at all.  It  *)
(* takes a database that answers and an adapter factory that does not      *)
(* throw, for the outer catch writes to a row it has no lock for.          *)
PublishedIsTerminal ==
  [][\A p \in Post :
       faults = 0 /\ lapses = 0 /\ AdapterErrors = {} /\ status[p] = "PUBLISHED"
         => status'[p] = "PUBLISHED"]_vars

(* The content post never claims to be fully published too early, though   *)
(* its status is computed from a read that may be out of date.             *)
ParentNeverClaimsTooMuch ==
  Orderly /\ parent = "PUBLISHED" => \A p \in Post : status[p] = "PUBLISHED"

(* All jobs are over and all workers are idle.                             *)
Quiet ==
  /\ \A j \in Job : jobState[j] \notin {"waiting", "active"}
  /\ \A w \in Worker : At(w, "idle")

(* Without crashes and faults no post is left half-way when its jobs are   *)
(* over, and the job records agree with the posts.                         *)
NothingLeftHalfway ==
  Quiet /\ Orderly /\ crashes = 0 =>
    \A j \in Job : \/ status[j[1]] = "PUBLISHED" /\ bg[j] = "COMPLETED"
                   \/ status[j[1]] \in {"FAILED", "REMOTE_RESULT_UNKNOWN"} /\ bg[j] = "DEAD"

(* A job recorded DEAD is not tried again.                                 *)
DeadJobsRest ==
  Orderly /\ crashes = 0 =>
    \A j \in Job : bg[j] = "DEAD" => jobState[j] # "waiting"

(* Jobs and posts agree when both rest, and jobs do rest.                  *)
JobsAgreeWithPosts == NothingLeftHalfway /\ DeadJobsRest

(* Every job comes to an end, through any finite number of failures.       *)
EveryJobEnds ==
  \A j \in Job : jobState[j] = "waiting" ~> jobState[j] \in {"completed", "failed"}

(* Every post ends published, failed or known to be unknown.               *)
EveryPostSettles ==
  \A p \in Post :
    <>[](status[p] \in {"PUBLISHED", "FAILED", "REMOTE_RESULT_UNKNOWN"})

(* At most one copy of a post is ever put on its platform.                 *)
AtMostOneCopy == \A p \in Post : remote[p] <= 1

(* What the status of a post tells its author.                             *)
Told(s) == CASE s = "PUBLISHED" -> "published"
             [] s = "FAILED"    -> "failed"
             [] OTHER           -> "open"

Reported == [p \in Post |-> Told(status[p])]

Promise == INSTANCE PublishPromise WITH report <- Reported, copies <- remote

(* When no error is ambiguous, the workers keep the promise to the user.   *)
KeepsThePromise == Promise!Spec
=============================================================================
