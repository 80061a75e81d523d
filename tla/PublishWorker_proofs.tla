------------------------ MODULE PublishWorker_proofs ------------------------
(***************************************************************************)
(* Proofs about PublishWorker, for any number of posts, workers, attempts, *)
(* crashes, stalls and faults.  Two facts carry them: a worker in the      *)
(* section holds its post's lock (HoldersHold), and so what it has read of *)
(* externalPostId is still true when it calls the platform                 *)
(* (NotYetRecorded).  Both are about behaviours in which no running worker *)
(* has lost its lock (lapses = 0).                                         *)
(***************************************************************************)
EXTENDS PublishWorker, TLAPS

RunType == [job : Job \cup {Nobody}, attempt : Nat,
            err : Errors \cup {"none"}, result : Results,
            seen : SUBSET PlatformPostStatuses, copy : Nat]

BusyHaveJobs == \A w \in Worker : pc[w] # "idle" => run[w].job \in Job

WorkersTyped ==
  /\ pc \in [Worker -> Steps]
  /\ run \in [Worker -> RunType]
  /\ BusyHaveJobs

PostsTyped ==
  /\ status \in [Post -> PlatformPostStatuses]
  /\ ext \in [Post -> Nat] /\ fence \in [Post -> Nat] /\ remote \in [Post -> Nat]
  /\ lost \in [Post -> Nat]
  /\ connected \in [Post -> BOOLEAN]
  /\ parent \in PostStatuses
  /\ lock \in [Post -> Worker \cup {Nobody, Orphan}]
  /\ crashes \in Nat /\ lapses \in Nat /\ faults \in Nat

JobsTyped ==
  /\ bg \in [Job -> {"none", "RUNNING", "COMPLETED", "FAILED", "DEAD"}]
  /\ jobState \in [Job -> {"none", "waiting", "active", "completed", "failed"}]
  /\ made \in [Job -> Nat] /\ stalls \in [Job -> Nat]
  /\ owner \in [Job -> Worker \cup {Nobody}]
  /\ recon \in [Job -> ReconSteps]

TypeInv == WorkersTyped /\ PostsTyped /\ JobsTyped

(* Whatever statuses were read, the derived status is one.                 *)
LEMMA DeriveType ==
  \A present \in SUBSET PlatformPostStatuses :
    DeriveContentPostStatus(present) \in PostStatuses
<1> SUFFICES ASSUME NEW present \in SUBSET PlatformPostStatuses
             PROVE  DeriveContentPostStatus(present) \in PostStatuses
  OBVIOUS
<1> DEFINE active == present \ Withdrawn
<1>1. \/ active = {} \/ active = {"PUBLISHED"} \/ active = {"FAILED"}
      \/ active = Settled \/ ~(active \subseteq Settled)
  BY Zenon DEF Settled
<1> QED
  BY <1>1 DEF DeriveContentPostStatus, PostStatuses

(* A worker that is not idle works on a post.                              *)
LEMMA PostOfType ==
  ASSUME WorkersTyped, NEW w \in Worker, pc[w] # "idle"
  PROVE  PostOf(w) \in Post
<1>1. run[w].job \in Post \X Kinds
  BY DEF WorkersTyped, BusyHaveJobs, Job
<1> QED
  BY <1>1 DEF PostOf

LEMMA TypeNext == TypeInv /\ [Next]_vars => TypeInv'
<1> SUFFICES ASSUME TypeInv, [Next]_vars PROVE TypeInv'
  OBVIOUS
<1> USE PublishWorkerAssumption DEF TypeInv
<1>1. ASSUME NEW w \in Worker, NEW j \in Job, Take(w, j) PROVE TypeInv'
  <2>1. WorkersTyped'
    BY <1>1 DEF Take, WorkersTyped, BusyHaveJobs, At, Go, Steps, Invocation, RunType, Results, JobsTyped
  <2>2. PostsTyped'
    BY <1>1 DEF Take, PostsTyped, dbVars, failures
  <2>3. JobsTyped'
    BY <1>1 DEF Take, JobsTyped
  <2> QED
    BY <2>1, <2>2, <2>3
<1>2. ASSUME NEW w \in Worker, Acquire(w) PROVE TypeInv'
  <2>1. WorkersTyped'
    BY <1>2 DEF Acquire, WorkersTyped, BusyHaveJobs, At, Go, Steps, GoWith, RunType, Results
  <2>2. PostsTyped'
    BY <1>2 DEF Acquire, PostsTyped, WorkersTyped, BusyHaveJobs, At, PostOf, dbVars, failures
  <2>3. JobsTyped'
    BY <1>2 DEF Acquire, JobsTyped, deliveries
  <2> QED
    BY <2>1, <2>2, <2>3
<1>3. ASSUME NEW w \in Worker, Load(w) PROVE TypeInv'
  <2>1. WorkersTyped'
    BY <1>3 DEF Load, WorkersTyped, BusyHaveJobs, At, Go, Steps, GoWith, RunType, Results
  <2>2. PostsTyped'
    BY <1>3 DEF Load, PostsTyped, WorkersTyped, BusyHaveJobs, At, dbVars, failures
  <2>3. JobsTyped'
    BY <1>3 DEF Load, JobsTyped, deliveries
  <2> QED
    BY <2>1, <2>2, <2>3
<1>4. ASSUME NEW w \in Worker, Begin(w) PROVE TypeInv'
  <2>1. WorkersTyped'
    BY <1>4 DEF Begin, WorkersTyped, BusyHaveJobs, At, Go, Steps
  <2>2. PostsTyped'
    BY <1>4 DEF Begin, PostsTyped, WorkersTyped, BusyHaveJobs, At, PostOf, PlatformPostStatuses, failures
  <2>3. JobsTyped'
    BY <1>4 DEF Begin, JobsTyped, deliveries
  <2> QED
    BY <2>1, <2>2, <2>3
<1>5. ASSUME NEW w \in Worker, BeginParent(w) PROVE TypeInv'
  <2>1. WorkersTyped'
    BY <1>5 DEF BeginParent, WorkersTyped, BusyHaveJobs, At, Go, Steps
  <2>2. PostsTyped'
    BY <1>5 DEF BeginParent, PostsTyped, WorkersTyped, BusyHaveJobs, At, PostStatuses, failures
  <2>3. JobsTyped'
    BY <1>5 DEF BeginParent, JobsTyped, deliveries
  <2> QED
    BY <2>1, <2>2, <2>3
<1>6. ASSUME NEW w \in Worker, GetAdapters(w) PROVE TypeInv'
  <2>1. WorkersTyped'
    <3>1. ASSUME NEW e \in AdapterErrors, Throw(w, "release", e) PROVE WorkersTyped'
      <4>1. [run[w] EXCEPT !.err = e, !.result = "rethrow"] \in RunType
        BY DEF WorkersTyped, RunType, Results
      <4>2. run' = [run EXCEPT ![w] = [run[w] EXCEPT !.err = e, !.result = "rethrow"]]
        BY <3>1 DEF Throw, WorkersTyped
      <4>3. run[w].job \in Job
        BY <1>6 DEF GetAdapters, At, WorkersTyped, BusyHaveJobs
      <4> QED
        BY <3>1, <4>1, <4>2, <4>3 DEF Throw, WorkersTyped, BusyHaveJobs, Go, Steps, RunType
    <3>2. ASSUME GoWith(w, "reject", "fixture") PROVE WorkersTyped'
      BY <1>6, <3>2 DEF GetAdapters, GoWith, WorkersTyped, BusyHaveJobs, At, Go, Steps, RunType, Results
    <3> QED
      BY <1>6, <3>1, <3>2 DEF GetAdapters, WorkersTyped, BusyHaveJobs, At, Go, Steps
  <2>2. PostsTyped'
    BY <1>6 DEF GetAdapters, PostsTyped, WorkersTyped, BusyHaveJobs, At, dbVars, failures
  <2>3. JobsTyped'
    BY <1>6 DEF GetAdapters, JobsTyped, deliveries
  <2> QED
    BY <2>1, <2>2, <2>3
<1>7. ASSUME NEW w \in Worker, Prepare(w) PROVE TypeInv'
  <2>1. WorkersTyped'
    BY <1>7 DEF Prepare, WorkersTyped, BusyHaveJobs, At, Go, Steps, GoWith, RunType, Results
  <2>2. PostsTyped'
    <3>1. PostOf(w) \in Post
      BY <1>7, PostOfType DEF Prepare, At
    <3> QED
      BY <1>7, <3>1 DEF Prepare, PostsTyped, failures
  <2>3. JobsTyped'
    BY <1>7 DEF Prepare, JobsTyped, deliveries
  <2> QED
    BY <2>1, <2>2, <2>3
<1>8. ASSUME NEW w \in Worker, Fence(w) PROVE TypeInv'
  <2>1. WorkersTyped'
    BY <1>8 DEF Fence, WorkersTyped, BusyHaveJobs, At, Go, Steps
  <2>2. PostsTyped'
    <3>1. PostOf(w) \in Post
      BY <1>8, PostOfType DEF Fence, At
    <3> QED
      BY <1>8, <3>1 DEF Fence, PostsTyped, failures
  <2>3. JobsTyped'
    BY <1>8 DEF Fence, JobsTyped, deliveries
  <2> QED
    BY <2>1, <2>2, <2>3
<1>9. ASSUME NEW w \in Worker, Call(w) PROVE TypeInv'
  <2>1. WorkersTyped'
    <3>1. PostOf(w) \in Post
      BY <1>9, PostOfType DEF Call, At
    <3>2. remote[PostOf(w)] + 1 \in Nat
      BY <3>1 DEF PostsTyped
    <3>3. run' \in [Worker -> RunType] /\ \A v \in Worker : run'[v].job = run[v].job
      <4>1. CASE run' = [run EXCEPT ![w].copy = remote[PostOf(w)] + 1]
        BY <3>2, <4>1 DEF WorkersTyped, RunType
      <4>2. CASE \E e \in PublishErrors : run' = [run EXCEPT ![w].err = e]
        BY <4>2 DEF WorkersTyped, RunType
      <4> QED
        BY <1>9, <4>1, <4>2 DEF Call
    <3>4. \E s \in {"commit", "catch"} : pc' = [pc EXCEPT ![w] = s]
      BY <1>9 DEF Call, Go
    <3>5. pc[w] # "idle"
      BY <1>9 DEF Call, At
    <3> QED
      BY <3>3, <3>4, <3>5 DEF WorkersTyped, BusyHaveJobs, Steps
  <2>2. PostsTyped'
    BY <1>9 DEF Call, PostsTyped, WorkersTyped, BusyHaveJobs, At, PostOf, dbVars, failures
  <2>3. JobsTyped'
    BY <1>9 DEF Call, JobsTyped, deliveries
  <2> QED
    BY <2>1, <2>2, <2>3
<1>10. ASSUME NEW w \in Worker, Commit(w) PROVE TypeInv'
  <2>1. WorkersTyped'
    <3>1. [run[w] EXCEPT !.result = "published", !.copy = 0] \in RunType
      BY DEF WorkersTyped, RunType, Results
    <3>2. run'[w] = [run[w] EXCEPT !.result = "published", !.copy = 0]
      BY <1>10 DEF Commit, WorkersTyped
    <3> QED
      BY <1>10, <3>1, <3>2 DEF Commit, WorkersTyped, BusyHaveJobs, At, Go, Steps, RunType
  <2>2. PostsTyped'
    BY <1>10 DEF Commit, PostsTyped, WorkersTyped, BusyHaveJobs, At, RunType, PostOf, PlatformPostStatuses, failures
  <2>3. JobsTyped'
    BY <1>10 DEF Commit, JobsTyped, deliveries
  <2> QED
    BY <2>1, <2>2, <2>3
<1>11. ASSUME NEW w \in Worker, Reject(w) PROVE TypeInv'
  <2>1. WorkersTyped'
    BY <1>11 DEF Reject, WorkersTyped, BusyHaveJobs, At, Go, Steps
  <2>2. PostsTyped'
    BY <1>11 DEF Reject, PostsTyped, WorkersTyped, BusyHaveJobs, At, PostOf, PlatformPostStatuses, failures
  <2>3. JobsTyped'
    BY <1>11 DEF Reject, JobsTyped, deliveries
  <2> QED
    BY <2>1, <2>2, <2>3
<1>12. ASSUME NEW w \in Worker, Catch(w) PROVE TypeInv'
  <2>1. WorkersTyped'
    BY <1>12 DEF Catch, WorkersTyped, BusyHaveJobs, At, Go, Steps, RunType
  <2>2. PostsTyped'
    BY <1>12 DEF Catch, PostsTyped, WorkersTyped, BusyHaveJobs, At, PostOf, PlatformPostStatuses, failures
  <2>3. JobsTyped'
    BY <1>12 DEF Catch, JobsTyped, deliveries
  <2> QED
    BY <2>1, <2>2, <2>3
<1>13. ASSUME NEW w \in Worker, After(w) PROVE TypeInv'
  <2>1. WorkersTyped'
    BY <1>13 DEF After, WorkersTyped, BusyHaveJobs, At, Go, Steps, GoWith, RunType, Results
  <2>2. PostsTyped'
    BY <1>13 DEF After, PostsTyped, WorkersTyped, BusyHaveJobs, At, PostOf, failures
  <2>3. JobsTyped'
    BY <1>13 DEF After, JobsTyped, deliveries, WorkersTyped, BusyHaveJobs, At, ReconSteps
  <2> QED
    BY <2>1, <2>2, <2>3
<1>14. ASSUME NEW w \in Worker, ParentRead(w) PROVE TypeInv'
  <2>1. WorkersTyped'
    <3>1. {status[p] : p \in Post} \subseteq PlatformPostStatuses
      BY DEF PostsTyped
    <3> QED
      BY <1>14, <3>1 DEF ParentRead, WorkersTyped, BusyHaveJobs, At, Go, Steps, RunType
  <2>2. PostsTyped'
    BY <1>14 DEF ParentRead, PostsTyped, WorkersTyped, BusyHaveJobs, At, dbVars, failures
  <2>3. JobsTyped'
    BY <1>14 DEF ParentRead, JobsTyped, deliveries
  <2> QED
    BY <2>1, <2>2, <2>3
<1>15. ASSUME NEW w \in Worker, ParentWrite(w) PROVE TypeInv'
  <2>1. WorkersTyped'
    BY <1>15 DEF ParentWrite, WorkersTyped, BusyHaveJobs, At, Go, Steps, RunType
  <2>2. PostsTyped'
    BY <1>15, DeriveType DEF ParentWrite, PostsTyped, WorkersTyped, BusyHaveJobs, At, RunType, failures
  <2>3. JobsTyped'
    BY <1>15 DEF ParentWrite, JobsTyped, deliveries
  <2> QED
    BY <2>1, <2>2, <2>3
<1>16. ASSUME NEW w \in Worker, Release(w) PROVE TypeInv'
  <2>1. WorkersTyped'
    BY <1>16 DEF Release, WorkersTyped, BusyHaveJobs, At, Go, Steps
  <2>2. PostsTyped'
    BY <1>16 DEF Release, PostsTyped, WorkersTyped, BusyHaveJobs, At, PostOf, dbVars, failures
  <2>3. JobsTyped'
    BY <1>16 DEF Release, JobsTyped, deliveries
  <2> QED
    BY <2>1, <2>2, <2>3
<1>17. ASSUME NEW w \in Worker, Finish(w) PROVE TypeInv'
  <2>1. WorkersTyped'
    BY <1>17 DEF Finish, WorkersTyped, BusyHaveJobs, At, Go, Steps, Stop, NoRun, Invocation, RunType, Results
  <2>2. PostsTyped'
    BY <1>17 DEF Finish, PostsTyped, WorkersTyped, BusyHaveJobs, At, dbVars, failures
  <2>3. JobsTyped'
    BY <1>17 DEF Finish, JobsTyped, WorkersTyped, BusyHaveJobs, At, Settle, Owns
  <2> QED
    BY <2>1, <2>2, <2>3
<1>18. ASSUME NEW w \in Worker, OuterCatch(w) PROVE TypeInv'
  <2>1. WorkersTyped'
    BY <1>18 DEF OuterCatch, WorkersTyped, BusyHaveJobs, At, Go, Steps, Stop, NoRun, Invocation, RunType, Results
  <2>2. PostsTyped'
    BY <1>18 DEF OuterCatch, PostsTyped, WorkersTyped, BusyHaveJobs, At, dbVars, failures
  <2>3. JobsTyped'
    BY <1>18 DEF OuterCatch, JobsTyped, WorkersTyped, BusyHaveJobs, At, Settle, SettleThrown, Owns
  <2> QED
    BY <2>1, <2>2, <2>3
<1>19. ASSUME NEW w \in Worker, OuterDead(w) PROVE TypeInv'
  <2>1. WorkersTyped'
    BY <1>19 DEF OuterDead, WorkersTyped, BusyHaveJobs, At, Go, Steps, Stop, NoRun, Invocation, RunType, Results
  <2>2. PostsTyped'
    BY <1>19 DEF OuterDead, PostsTyped, WorkersTyped, BusyHaveJobs, At, PostOf, PlatformPostStatuses, failures
  <2>3. JobsTyped'
    BY <1>19 DEF OuterDead, JobsTyped, WorkersTyped, BusyHaveJobs, At, Settle, Owns
  <2> QED
    BY <2>1, <2>2, <2>3
<1>20. ASSUME NEW w \in Worker, Fault(w) PROVE TypeInv'
  <2>1. WorkersTyped'
    <3>1. pc[w] # "idle"
      BY <1>20 DEF Fault, InInnerTry, InSection, At
    <3>2. \/ Stop(w)
          \/ /\ \E s \in {"catch", "release", "outer", "finish"} : pc' = [pc EXCEPT ![w] = s]
             /\ \/ run' = [run EXCEPT ![w].err = "OTHER", ![w].seen = {}]
                \/ run' = [run EXCEPT ![w].err = "OTHER", ![w].result = "rethrow",
                                      ![w].seen = {}]
                \/ run' = [run EXCEPT ![w].err = "OTHER", ![w].result = "rethrow"]
                \/ run' = run
      BY <1>20 DEF Fault, Go, Throw
    <3>3. CASE Stop(w)
      BY <3>3 DEF Stop, Go, NoRun, Invocation, WorkersTyped, BusyHaveJobs, RunType,
                  Results, Steps
    <3>4. CASE ~Stop(w)
      <4>1. run' \in [Worker -> RunType]
        BY <3>2, <3>4 DEF WorkersTyped, RunType, Results, Errors
      <4>2. \A v \in Worker : run'[v].job = run[v].job
        BY <3>2, <3>4 DEF WorkersTyped, RunType
      <4> QED
        BY <3>1, <3>2, <3>4, <4>1, <4>2 DEF WorkersTyped, BusyHaveJobs, Steps
    <3> QED
      BY <3>3, <3>4
  <2>2. PostsTyped'
    <3>1. pc[w] # "idle"
      BY <1>20 DEF Fault, InInnerTry, InSection, At
    <3>2. PostOf(w) \in Post
      BY <3>1, PostOfType
    <3> QED
      BY <1>20, <3>2 DEF Fault, PostsTyped, ForgetCopy, dbVars
  <2>3. JobsTyped'
    BY <1>20 DEF Fault, JobsTyped, WorkersTyped, BusyHaveJobs, At, Settle, SettleThrown, Owns
  <2> QED
    BY <2>1, <2>2, <2>3
<1>21. ASSUME NEW w \in Worker, Crash(w) PROVE TypeInv'
  <2>1. WorkersTyped'
    BY <1>21 DEF Crash, WorkersTyped, BusyHaveJobs, At, Go, Steps, Stop, NoRun, Invocation, RunType, Results
  <2>2. PostsTyped'
    <3>1. PostOf(w) \in Post
      BY <1>21, PostOfType DEF Crash, At
    <3> QED
      BY <1>21, <3>1 DEF Crash, PostsTyped, ForgetCopy, dbVars
  <2>3. JobsTyped'
    BY <1>21 DEF Crash, JobsTyped
  <2> QED
    BY <2>1, <2>2, <2>3
<1>22. ASSUME NEW j \in Job, Stall(j) PROVE TypeInv'
  <2>1. WorkersTyped'
    BY <1>22 DEF Stall, WorkersTyped, BusyHaveJobs
  <2>2. PostsTyped'
    BY <1>22 DEF Stall, PostsTyped, dbVars, failures
  <2>3. JobsTyped'
    BY <1>22 DEF Stall, JobsTyped
  <2> QED
    BY <2>1, <2>2, <2>3
<1>23. ASSUME NEW p \in Post, Expire(p) PROVE TypeInv'
  <2>1. WorkersTyped'
    BY <1>23 DEF Expire, WorkersTyped, BusyHaveJobs
  <2>2. PostsTyped'
    BY <1>23 DEF Expire, PostsTyped, dbVars, failures
  <2>3. JobsTyped'
    BY <1>23 DEF Expire, JobsTyped, deliveries
  <2> QED
    BY <2>1, <2>2, <2>3
<1>24. ASSUME NEW p \in Post, Lapse(p) PROVE TypeInv'
  <2>1. WorkersTyped'
    BY <1>24 DEF Lapse, WorkersTyped, BusyHaveJobs
  <2>2. PostsTyped'
    BY <1>24 DEF Lapse, PostsTyped, dbVars
  <2>3. JobsTyped'
    BY <1>24 DEF Lapse, JobsTyped, deliveries
  <2> QED
    BY <2>1, <2>2, <2>3
<1>25. CASE UNCHANGED vars
  BY <1>25 DEF vars, dbVars, deliveries, failures, WorkersTyped, BusyHaveJobs,
                 PostsTyped, JobsTyped
<1>26. ASSUME Retry PROVE TypeInv'
  <2>1. WorkersTyped'
    BY <1>26 DEF Retry, WorkersTyped, BusyHaveJobs
  <2>2. PostsTyped'
    BY <1>26 DEF Retry, PostsTyped, PlatformPostStatuses, PostStatuses, failures
  <2>3. JobsTyped'
    BY <1>26 DEF Retry, JobsTyped
  <2> QED
    BY <2>1, <2>2, <2>3
<1> QED
  BY <1>1, <1>2, <1>3, <1>4, <1>5, <1>6, <1>7, <1>8, <1>9, <1>10, <1>11, <1>12, <1>13, <1>14, <1>15, <1>16, <1>17, <1>18, <1>19, <1>20, <1>21, <1>22, <1>23, <1>24, <1>25, <1>26 DEF Next, Process

-----------------------------------------------------------------------------
(* As long as no running worker lost its lock, the lock belongs to the     *)
(* worker in the section.                                                  *)
HoldersHold ==
  lapses = 0 => \A w \in Worker : InSection(w) => lock[PostOf(w)] = w

BeforeCommit ==
  {"begin", "beginParent", "adapters", "prepare", "fence", "call", "commit"}

(* What Load has seen is still true: nothing is recorded of the post.      *)
NotYetRecorded ==
  lapses = 0 => \A w \in Worker : pc[w] \in BeforeCommit => ext[PostOf(w)] = 0

(* The copy about to be recorded has a number.                             *)
CopyIsReal == \A w \in Worker : At(w, "commit") => run[w].copy # 0

PublishInv ==
  /\ TypeInv
  /\ HoldersHold
  /\ NotYetRecorded
  /\ CopyIsReal
  /\ CopiesAreAccountedFor

LEMMA InvInit == Init => PublishInv
<1> SUFFICES ASSUME Init PROVE PublishInv
  OBVIOUS
<1> USE PublishWorkerAssumption DEF Init
<1>1. TypeInv
  <2>1. WorkersTyped
    BY DEF WorkersTyped, BusyHaveJobs, NoRun, Invocation, RunType, Results, Steps
  <2>2. PostsTyped
    BY DEF PostsTyped, PlatformPostStatuses, PostStatuses
  <2>3. JobsTyped
    BY DEF JobsTyped, ReconSteps
  <2> QED
    BY <2>1, <2>2, <2>3 DEF TypeInv
<1>2. HoldersHold
  BY DEF HoldersHold, InSection
<1>3. NotYetRecorded
  BY DEF NotYetRecorded, BeforeCommit
<1>4. CopyIsReal
  BY DEF CopyIsReal, At
<1>5. CopiesAreAccountedFor
  BY DEF CopiesAreAccountedFor, At
<1> QED
  BY <1>1, <1>2, <1>3, <1>4, <1>5 DEF PublishInv

(* Walking on, or out of the section, with the job in hand.                *)
LEMMA Walk ==
  ASSUME HoldersHold, lock' = lock, lapses' = lapses,
         \A v \in Worker : InSection(v)' => InSection(v) /\ run'[v].job = run[v].job
  PROVE  HoldersHold'
  BY DEF HoldersHold, PostOf

(* The updates of an invocation's variables leave its job alone.           *)
LEMMA JobKept ==
  ASSUME run \in [Worker -> RunType], NEW w \in Worker, NEW x, NEW y,
         \/ run' = run
         \/ run' = [run EXCEPT ![w].result = x]
         \/ run' = [run EXCEPT ![w].err = x]
         \/ run' = [run EXCEPT ![w].copy = x]
         \/ run' = [run EXCEPT ![w].err = x, ![w].seen = y]
         \/ run' = [run EXCEPT ![w].err = x, ![w].result = y]
  PROVE  \A v \in Worker : run'[v].job = run[v].job
<1>1. CASE run' = run
  BY <1>1
<1>2. CASE run' = [run EXCEPT ![w].result = x]
  BY <1>2 DEF RunType
<1>3. CASE run' = [run EXCEPT ![w].err = x]
  BY <1>3 DEF RunType
<1>4. CASE run' = [run EXCEPT ![w].copy = x]
  BY <1>4 DEF RunType
<1>5. CASE run' = [run EXCEPT ![w].err = x, ![w].seen = y]
  BY <1>5 DEF RunType
<1>6. CASE run' = [run EXCEPT ![w].err = x, ![w].result = y]
  BY <1>6 DEF RunType
<1> QED
  BY <1>1, <1>2, <1>3, <1>4, <1>5, <1>6

LEMMA HoldersNext == PublishInv /\ [Next]_vars => HoldersHold'
<1> SUFFICES ASSUME PublishInv, [Next]_vars PROVE HoldersHold'
  OBVIOUS
<1> USE PublishWorkerAssumption DEF PublishInv, TypeInv
<1>1. ASSUME NEW w \in Worker, NEW j \in Job, Take(w, j) PROVE HoldersHold'
  <2>1. \A v \in Worker : InSection(v)' => InSection(v) /\ run'[v].job = run[v].job
    BY <1>1 DEF Take, At, Go, Invocation, WorkersTyped, InSection
  <2> QED
    BY <1>1, <2>1, Walk DEF Take, failures
<1>2. ASSUME NEW w \in Worker, Acquire(w) PROVE HoldersHold'
  <2>1. CASE lock[PostOf(w)] = Nobody
    BY <1>2, <2>1, PostOfType DEF Acquire, HoldersHold, WorkersTyped, PostsTyped, InSection,
                         PostOf, At, Go, GoWith, failures
  <2>2. CASE lock[PostOf(w)] # Nobody
    <3>1. \A v \in Worker : InSection(v)' => InSection(v) /\ run'[v].job = run[v].job
      BY <1>2, <2>2 DEF Acquire, WorkersTyped, InSection, At, Go, GoWith
    <3> QED
      BY <1>2, <2>2, <3>1, Walk DEF Acquire, failures
  <2> QED
    BY <2>1, <2>2
<1>3. ASSUME NEW w \in Worker, Load(w) PROVE HoldersHold'
  <2>1. \A v \in Worker : run'[v].job = run[v].job
    BY <1>3, JobKept DEF Load, GoWith, WorkersTyped
  <2>2. \A v \in Worker : InSection(v)' => InSection(v)
    BY <1>3 DEF Load, GoWith, WorkersTyped, InSection, At, Go
  <2> QED
    BY <1>3, <2>1, <2>2, Walk DEF Load, failures
<1>4. ASSUME NEW w \in Worker, Begin(w) PROVE HoldersHold'
  <2>1. \A v \in Worker : InSection(v)' => InSection(v) /\ run'[v].job = run[v].job
    BY <1>4 DEF Begin, At, Go, WorkersTyped, InSection
  <2> QED
    BY <1>4, <2>1, Walk DEF Begin, failures
<1>5. ASSUME NEW w \in Worker, BeginParent(w) PROVE HoldersHold'
  <2>1. \A v \in Worker : InSection(v)' => InSection(v) /\ run'[v].job = run[v].job
    BY <1>5 DEF BeginParent, At, Go, WorkersTyped, InSection
  <2> QED
    BY <1>5, <2>1, Walk DEF BeginParent, failures
<1>6. ASSUME NEW w \in Worker, GetAdapters(w) PROVE HoldersHold'
  <2>1. \A v \in Worker : run'[v].job = run[v].job
    BY <1>6, JobKept DEF GetAdapters, GoWith, Throw, WorkersTyped
  <2>2. \A v \in Worker : InSection(v)' => InSection(v)
    BY <1>6 DEF GetAdapters, GoWith, Throw, WorkersTyped, InSection, At, Go
  <2> QED
    BY <1>6, <2>1, <2>2, Walk DEF GetAdapters, failures
<1>7. ASSUME NEW w \in Worker, Prepare(w) PROVE HoldersHold'
  <2>1. \A v \in Worker : run'[v].job = run[v].job
    BY <1>7, JobKept DEF Prepare, GoWith, WorkersTyped
  <2>2. \A v \in Worker : InSection(v)' => InSection(v)
    BY <1>7 DEF Prepare, GoWith, WorkersTyped, InSection, At, Go
  <2> QED
    BY <1>7, <2>1, <2>2, Walk DEF Prepare, failures
<1>8. ASSUME NEW w \in Worker, Fence(w) PROVE HoldersHold'
  <2>1. \A v \in Worker : InSection(v)' => InSection(v) /\ run'[v].job = run[v].job
    BY <1>8 DEF Fence, At, Go, WorkersTyped, InSection
  <2> QED
    BY <1>8, <2>1, Walk DEF Fence, failures
<1>9. ASSUME NEW w \in Worker, Call(w) PROVE HoldersHold'
  <2>1. \A v \in Worker : run'[v].job = run[v].job
    BY <1>9, JobKept DEF Call, WorkersTyped
  <2>2. \A v \in Worker : InSection(v)' => InSection(v)
    BY <1>9 DEF Call, WorkersTyped, InSection, At, Go
  <2> QED
    BY <1>9, <2>1, <2>2, Walk DEF Call, failures
<1>10. ASSUME NEW w \in Worker, Commit(w) PROVE HoldersHold'
  <2>1. \A v \in Worker : InSection(v)' => InSection(v) /\ run'[v].job = run[v].job
    BY <1>10 DEF Commit, At, Go, WorkersTyped, InSection
  <2> QED
    BY <1>10, <2>1, Walk DEF Commit, failures
<1>11. ASSUME NEW w \in Worker, Reject(w) PROVE HoldersHold'
  <2>1. \A v \in Worker : InSection(v)' => InSection(v) /\ run'[v].job = run[v].job
    BY <1>11 DEF Reject, At, Go, WorkersTyped, InSection
  <2> QED
    BY <1>11, <2>1, Walk DEF Reject, failures
<1>12. ASSUME NEW w \in Worker, Catch(w) PROVE HoldersHold'
  <2>1. \A v \in Worker : InSection(v)' => InSection(v) /\ run'[v].job = run[v].job
    BY <1>12 DEF Catch, At, Go, WorkersTyped, InSection
  <2> QED
    BY <1>12, <2>1, Walk DEF Catch, failures
<1>13. ASSUME NEW w \in Worker, After(w) PROVE HoldersHold'
  <2>1. \A v \in Worker : InSection(v)' => InSection(v) /\ run'[v].job = run[v].job
    BY <1>13 DEF After, At, Go, GoWith, WorkersTyped, InSection
  <2> QED
    BY <1>13, <2>1, Walk DEF After, failures
<1>14. ASSUME NEW w \in Worker, ParentRead(w) PROVE HoldersHold'
  <2>1. \A v \in Worker : InSection(v)' => InSection(v) /\ run'[v].job = run[v].job
    BY <1>14 DEF ParentRead, At, Go, WorkersTyped, InSection
  <2> QED
    BY <1>14, <2>1, Walk DEF ParentRead, failures
<1>15. ASSUME NEW w \in Worker, ParentWrite(w) PROVE HoldersHold'
  <2>1. \A v \in Worker : InSection(v)' => InSection(v) /\ run'[v].job = run[v].job
    BY <1>15 DEF ParentWrite, At, Go, WorkersTyped, InSection
  <2> QED
    BY <1>15, <2>1, Walk DEF ParentWrite, failures
<1>16. ASSUME NEW w \in Worker, Release(w) PROVE HoldersHold'
  BY <1>16 DEF Release, HoldersHold, WorkersTyped, PostsTyped, InSection, PostOf, At, Go, failures
<1>17. ASSUME NEW w \in Worker, Finish(w) PROVE HoldersHold'
  <2>1. \A v \in Worker : InSection(v)' => InSection(v) /\ run'[v].job = run[v].job
    BY <1>17 DEF Finish, At, Go, Stop, NoRun, Invocation, WorkersTyped, InSection
  <2> QED
    BY <1>17, <2>1, Walk DEF Finish, failures
<1>18. ASSUME NEW w \in Worker, OuterCatch(w) PROVE HoldersHold'
  <2>1. \A v \in Worker : InSection(v)' => InSection(v) /\ run'[v].job = run[v].job
    BY <1>18 DEF OuterCatch, At, Go, Stop, NoRun, Invocation, WorkersTyped, InSection
  <2> QED
    BY <1>18, <2>1, Walk DEF OuterCatch, failures
<1>19. ASSUME NEW w \in Worker, OuterDead(w) PROVE HoldersHold'
  <2>1. \A v \in Worker : InSection(v)' => InSection(v) /\ run'[v].job = run[v].job
    BY <1>19 DEF OuterDead, At, Go, Stop, NoRun, Invocation, WorkersTyped, InSection
  <2> QED
    BY <1>19, <2>1, Walk DEF OuterDead, failures
<1>20. ASSUME NEW w \in Worker, Fault(w) PROVE HoldersHold'
  <2>1. ASSUME At(w, "release"),
               lock' = [lock EXCEPT ![PostOf(w)] = IF @ = w THEN Orphan ELSE @],
               Go(w, IF run[w].result = "rethrow" THEN "outer" ELSE "finish"),
               run' = run, lapses' = lapses
        PROVE  HoldersHold'
    BY <2>1 DEF HoldersHold, WorkersTyped, PostsTyped, InSection, PostOf, At, Go
  <2>2. ASSUME lock' = lock, lapses' = lapses, ~At(w, "idle"),
               \/ InSection(w)
               \/ pc'[w] \in {"idle", "outer"},
               \A v \in Worker \ {w} : pc'[v] = pc[v] /\ run'[v].job = run[v].job,
               pc'[w] = "idle" \/ run'[w].job = run[w].job
        PROVE  HoldersHold'
    <3>1. \A v \in Worker : InSection(v)' => InSection(v) /\ run'[v].job = run[v].job
      BY <2>2 DEF InSection
    <3> QED
      BY <2>2, <3>1, Walk
  <2>3. ASSUME InInnerTry(w), pc[w] # "call", Go(w, "catch"), lock' = lock, lapses' = lapses,
               run' = [run EXCEPT ![w].err = "OTHER", ![w].seen = {}]
        PROVE  HoldersHold'
    <3>1. \A v \in Worker : run'[v].job = run[v].job
      BY <2>3, JobKept DEF WorkersTyped
    <3>2. InSection(w)
      BY <2>3 DEF InSection, InInnerTry
    <3>3. \A v \in Worker \ {w} : pc'[v] = pc[v]
      BY <2>3 DEF Go, WorkersTyped
    <3> QED
      BY <2>2, <2>3, <3>1, <3>2, <3>3 DEF InSection, At
  <2>4. ASSUME InSection(w), Go(w, "release"), lock' = lock, lapses' = lapses,
               run' = [run EXCEPT ![w].err = "OTHER", ![w].result = "rethrow", ![w].seen = {}]
        PROVE  HoldersHold'
    <3>1. \A v \in Worker : run'[v].job = run[v].job
      BY <2>4 DEF WorkersTyped, RunType
    <3>3. \A v \in Worker \ {w} : pc'[v] = pc[v]
      BY <2>4 DEF Go, WorkersTyped
    <3> QED
      BY <2>2, <2>4, <3>1, <3>3 DEF InSection, At
  <2>5. ASSUME pc[w] \in {"lock", "finish"}, Throw(w, "outer", "OTHER"), lock' = lock,
               lapses' = lapses
        PROVE  HoldersHold'
    <3>1. \A v \in Worker : run'[v].job = run[v].job
      BY <2>5, JobKept DEF WorkersTyped, Throw
    <3>3. pc' = [pc EXCEPT ![w] = "outer"]
      BY <2>5 DEF Throw, Go
    <3> QED
      BY <2>2, <2>5, <3>1, <3>3 DEF At, WorkersTyped
  <2>6. ASSUME pc[w] \in {"outer", "dead"}, Stop(w), lock' = lock, lapses' = lapses
        PROVE  HoldersHold'
    BY <2>2, <2>6 DEF Stop, Go, At, WorkersTyped
  <2> QED
    BY <1>20, <2>1, <2>3, <2>4, <2>5, <2>6 DEF Fault
<1>21. ASSUME NEW w \in Worker, Crash(w) PROVE HoldersHold'
  <2>1. \A v \in Worker : InSection(v)' => v # w /\ InSection(v) /\ run'[v].job = run[v].job
    BY <1>21 DEF Crash, Stop, Go, WorkersTyped, InSection
  <2>2. \A v \in Worker : InSection(v)' => PostOf(v)' = PostOf(v) /\ PostOf(v) \in Post
    BY <2>1, PostOfType DEF PostOf, InSection
  <2> QED
    BY <1>21, <2>1, <2>2 DEF Crash, HoldersHold
<1>22. ASSUME NEW j \in Job, Stall(j) PROVE HoldersHold'
  <2>1. \A v \in Worker : InSection(v)' => InSection(v) /\ run'[v].job = run[v].job
    BY <1>22 DEF Stall, WorkersTyped, InSection
  <2> QED
    BY <1>22, <2>1, Walk DEF Stall, failures
<1>23. ASSUME NEW p \in Post, Expire(p) PROVE HoldersHold'
  BY <1>23 DEF Expire, HoldersHold, WorkersTyped, PostsTyped, InSection, PostOf, At, Go, failures
<1>24. ASSUME NEW p \in Post, Lapse(p) PROVE HoldersHold'
  BY <1>24 DEF Lapse, HoldersHold, WorkersTyped, PostsTyped, InSection, PostOf, At, Go
<1>25. CASE UNCHANGED vars
  BY <1>25 DEF vars, failures, HoldersHold, InSection, PostOf
<1>26. ASSUME Retry PROVE HoldersHold'
  BY <1>26 DEF Retry, HoldersHold, InSection, PostOf, failures
<1> QED
  BY <1>1, <1>2, <1>3, <1>4, <1>5, <1>6, <1>7, <1>8, <1>9, <1>10, <1>11, <1>12, <1>13, <1>14, <1>15, <1>16, <1>17, <1>18, <1>19, <1>20, <1>21, <1>22, <1>23, <1>24, <1>25, <1>26 DEF Next, Process

-----------------------------------------------------------------------------
RecordInv == NotYetRecorded /\ CopyIsReal /\ CopiesAreAccountedFor

(* A step that records nothing, posts nothing and brings nobody to or from *)
(* the commit.                                                             *)
LEMMA RecordUnchanged ==
  ASSUME RecordInv,
         ext' = ext, remote' = remote, lost' = lost, lapses' = lapses,
         \A v \in Worker :
           /\ pc'[v] \in BeforeCommit =>
                pc[v] \in BeforeCommit /\ run'[v].job = run[v].job
           /\ pc'[v] = "commit" <=> pc[v] = "commit"
           /\ pc[v] = "commit" => run'[v] = run[v]
  PROVE  RecordInv'
<1>1. NotYetRecorded'
  BY DEF RecordInv, NotYetRecorded, PostOf
<1>2. CopyIsReal'
  BY DEF RecordInv, CopyIsReal, At
<1>3. CopiesAreAccountedFor'
  BY DEF RecordInv, CopiesAreAccountedFor, At, PostOf
<1> QED
  BY <1>1, <1>2, <1>3 DEF RecordInv

(* Whoever is in the section is alone there with the post.                 *)
LEMMA Alone ==
  ASSUME HoldersHold, lapses = 0, NEW v \in Worker, NEW w \in Worker,
         InSection(v), InSection(w), PostOf(v) = PostOf(w)
  PROVE  v = w
  BY DEF HoldersHold

(* A worker leaves the section by accident, or for its catch block.  If it *)
(* was about to record a copy, that copy is lost.                          *)
LEMMA RecordDropped ==
  ASSUME TypeInv, HoldersHold, RecordInv, NEW w \in Worker, pc[w] # "idle",
         pc'[w] \notin BeforeCommit, ForgetCopy(w),
         \A v \in Worker \ {w} : pc'[v] = pc[v] /\ run'[v] = run[v],
         UNCHANGED <<ext, remote, lapses>>
  PROVE  RecordInv'
<1> DEFINE p == PostOf(w)
<1>1. p \in Post
  BY PostOfType DEF TypeInv
<1>2. NotYetRecorded'
  BY DEF RecordInv, NotYetRecorded, PostOf
<1>3. CopyIsReal'
  BY DEF RecordInv, CopyIsReal, At, BeforeCommit
<1>4. ASSUME lapses = 0, NEW q \in Post
      PROVE  remote'[q] = lost'[q] +
               IF ext'[q] # 0 \/ \E v \in Worker : At(v, "commit")' /\ PostOf(v)' = q
                 THEN 1 ELSE 0
  <2>0. ~At(w, "commit")'
    BY DEF At, BeforeCommit
  <2>1. CASE At(w, "commit") /\ q = p
    <3>1. remote[p] = lost[p] + 1 /\ ext[p] = 0
      BY <1>1, <1>4, <2>1 DEF RecordInv, CopiesAreAccountedFor, NotYetRecorded, At, BeforeCommit
    <3>2. lost'[p] = lost[p] + 1
      BY <1>1, <2>1 DEF ForgetCopy, TypeInv, PostsTyped
    <3>3. \A v \in Worker \ {w} : At(v, "commit") => PostOf(v) # p
      BY <1>4, <2>1, Alone DEF At, InSection
    <3>4. ~\E v \in Worker : At(v, "commit")' /\ PostOf(v)' = p
      BY <2>0, <3>3 DEF At, PostOf
    <3> QED
      BY <1>1, <2>1, <3>1, <3>2, <3>4 DEF TypeInv, PostsTyped
  <2>2. CASE ~(At(w, "commit") /\ q = p)
    <3>1. lost'[q] = lost[q]
      BY <1>1, <2>2 DEF ForgetCopy, TypeInv, PostsTyped
    <3>2. (\E v \in Worker : At(v, "commit")' /\ PostOf(v)' = q)
            <=> (\E v \in Worker : At(v, "commit") /\ PostOf(v) = q)
      BY <2>0, <2>2 DEF At, PostOf
    <3> QED
      BY <1>4, <3>1, <3>2 DEF RecordInv, CopiesAreAccountedFor
  <2> QED
    BY <2>1, <2>2
<1> QED
  BY <1>2, <1>3, <1>4 DEF RecordInv, CopiesAreAccountedFor

LEMMA RecordNext == PublishInv /\ [Next]_vars => RecordInv'
<1> SUFFICES ASSUME PublishInv, [Next]_vars PROVE RecordInv'
  OBVIOUS
<1> USE PublishWorkerAssumption DEF TypeInv
<1>0. RecordInv /\ TypeInv /\ HoldersHold
  BY DEF PublishInv, RecordInv
<1>1. ASSUME NEW w \in Worker, NEW j \in Job, Take(w, j) PROVE RecordInv'
  <2>1. \A v \in Worker :
          /\ pc'[v] \in BeforeCommit =>
               pc[v] \in BeforeCommit /\ run'[v].job = run[v].job
          /\ pc'[v] = "commit" <=> pc[v] = "commit"
          /\ pc[v] = "commit" => run'[v] = run[v]
    BY <1>0, <1>1 DEF Take, At, Go, Invocation, WorkersTyped, BeforeCommit
  <2> QED
    BY <1>0, <1>1, <2>1, RecordUnchanged DEF Take, dbVars, failures
<1>2. ASSUME NEW w \in Worker, Acquire(w) PROVE RecordInv'
  <2>1. \A v \in Worker :
          /\ pc'[v] \in BeforeCommit =>
               pc[v] \in BeforeCommit /\ run'[v].job = run[v].job
          /\ pc'[v] = "commit" <=> pc[v] = "commit"
          /\ pc[v] = "commit" => run'[v] = run[v]
    BY <1>0, <1>2 DEF Acquire, At, Go, GoWith, WorkersTyped, BeforeCommit
  <2> QED
    BY <1>0, <1>2, <2>1, RecordUnchanged DEF Acquire, dbVars, failures
<1>3. ASSUME NEW w \in Worker, Load(w) PROVE RecordInv'
  <2>1. \A v \in Worker : run'[v].job = run[v].job /\ run'[v].copy = run[v].copy
    <3>1. CASE run' = run
      BY <3>1
    <3>2. ASSUME NEW r, run' = [run EXCEPT ![w].result = r]
          PROVE  \A v \in Worker : run'[v].job = run[v].job /\ run'[v].copy = run[v].copy
      BY <1>0, <3>2 DEF WorkersTyped, RunType
    <3> QED
      BY <1>3, <3>1, <3>2 DEF Load, GoWith
  <2>2. \A v \in Worker : pc'[v] = "commit" <=> pc[v] = "commit"
    BY <1>0, <1>3 DEF Load, GoWith, At, Go, WorkersTyped
  <2>3. UNCHANGED <<ext, remote, lost, lapses>>
    BY <1>3 DEF Load, dbVars, failures
  <2>4. \A v \in Worker :
          pc'[v] \in BeforeCommit => pc[v] \in BeforeCommit \/ (v = w /\ ext[PostOf(w)] = 0)
    <3>1. ASSUME NEW step, pc' = [pc EXCEPT ![w] = step], step \notin BeforeCommit
          PROVE  \A v \in Worker : pc'[v] \in BeforeCommit => pc[v] \in BeforeCommit
      BY <1>0, <3>1 DEF WorkersTyped
    <3>2. CASE ext[PostOf(w)] # 0 \/ status[PostOf(w)] = "PUBLISHED" \/ ~connected[PostOf(w)]
      <4>1. pc' = [pc EXCEPT ![w] = "release"] \/ pc' = [pc EXCEPT ![w] = "reject"]
        BY <1>3, <3>2 DEF Load, GoWith, Go
      <4>2. "release" \notin BeforeCommit /\ "reject" \notin BeforeCommit
        BY DEF BeforeCommit
      <4> QED
        BY <3>1, <4>1, <4>2
    <3>3. CASE ext[PostOf(w)] = 0
      <4>1. \A v \in Worker \ {w} : pc'[v] = pc[v]
        BY <1>0, <1>3 DEF Load, GoWith, Go, WorkersTyped
      <4> QED
        BY <3>3, <4>1
    <3> QED
      BY <3>2, <3>3
  <2>5. NotYetRecorded'
    BY <1>0, <2>1, <2>3, <2>4 DEF RecordInv, NotYetRecorded, PostOf
  <2>6. CopyIsReal'
    BY <1>0, <2>1, <2>2 DEF RecordInv, CopyIsReal, At
  <2>7. CopiesAreAccountedFor'
    BY <1>0, <2>1, <2>2, <2>3 DEF RecordInv, CopiesAreAccountedFor, At, PostOf
  <2> QED
    BY <2>5, <2>6, <2>7 DEF RecordInv
<1>4. ASSUME NEW w \in Worker, Begin(w) PROVE RecordInv'
  <2>1. \A v \in Worker :
          /\ pc'[v] \in BeforeCommit =>
               pc[v] \in BeforeCommit /\ run'[v].job = run[v].job
          /\ pc'[v] = "commit" <=> pc[v] = "commit"
          /\ pc[v] = "commit" => run'[v] = run[v]
    BY <1>0, <1>4 DEF Begin, At, Go, WorkersTyped, BeforeCommit
  <2> QED
    BY <1>0, <1>4, <2>1, RecordUnchanged DEF Begin, dbVars, failures
<1>5. ASSUME NEW w \in Worker, BeginParent(w) PROVE RecordInv'
  <2>1. \A v \in Worker :
          /\ pc'[v] \in BeforeCommit =>
               pc[v] \in BeforeCommit /\ run'[v].job = run[v].job
          /\ pc'[v] = "commit" <=> pc[v] = "commit"
          /\ pc[v] = "commit" => run'[v] = run[v]
    BY <1>0, <1>5 DEF BeginParent, At, Go, WorkersTyped, BeforeCommit
  <2> QED
    BY <1>0, <1>5, <2>1, RecordUnchanged DEF BeginParent, dbVars, failures
<1>6. ASSUME NEW w \in Worker, GetAdapters(w) PROVE RecordInv'
  <2>1. \A v \in Worker :
          /\ pc'[v] \in BeforeCommit =>
               pc[v] \in BeforeCommit /\ run'[v].job = run[v].job
          /\ pc'[v] = "commit" <=> pc[v] = "commit"
          /\ pc[v] = "commit" => run'[v] = run[v]
    BY <1>0, <1>6 DEF GetAdapters, At, Go, Throw, GoWith, WorkersTyped, BeforeCommit
  <2> QED
    BY <1>0, <1>6, <2>1, RecordUnchanged DEF GetAdapters, dbVars, failures
<1>7. ASSUME NEW w \in Worker, Prepare(w) PROVE RecordInv'
  <2>1. \A v \in Worker :
          /\ pc'[v] \in BeforeCommit =>
               pc[v] \in BeforeCommit /\ run'[v].job = run[v].job
          /\ pc'[v] = "commit" <=> pc[v] = "commit"
          /\ pc[v] = "commit" => run'[v] = run[v]
    BY <1>0, <1>7 DEF Prepare, At, Go, GoWith, WorkersTyped, BeforeCommit
  <2> QED
    BY <1>0, <1>7, <2>1, RecordUnchanged DEF Prepare, dbVars, failures
<1>8. ASSUME NEW w \in Worker, Fence(w) PROVE RecordInv'
  <2>1. \A v \in Worker :
          /\ pc'[v] \in BeforeCommit =>
               pc[v] \in BeforeCommit /\ run'[v].job = run[v].job
          /\ pc'[v] = "commit" <=> pc[v] = "commit"
          /\ pc[v] = "commit" => run'[v] = run[v]
    BY <1>0, <1>8 DEF Fence, At, Go, WorkersTyped, BeforeCommit
  <2> QED
    BY <1>0, <1>8, <2>1, RecordUnchanged DEF Fence, dbVars, failures
<1>9. ASSUME NEW w \in Worker, Call(w) PROVE RecordInv'
  <2> DEFINE p == PostOf(w)
  <2>1. p \in Post /\ InSection(w) /\ pc[w] \in BeforeCommit
    BY <1>0, <1>9, PostOfType DEF Call, At, InSection, BeforeCommit
  <2>2. ext' = ext /\ lapses' = lapses
    BY <1>9 DEF Call, dbVars, failures
  <2>3. \A v \in Worker : run'[v].job = run[v].job
    BY <1>0, <1>9, JobKept DEF Call, WorkersTyped
  <2>4. \A v \in Worker \ {w} : pc'[v] = pc[v] /\ run'[v] = run[v]
    BY <1>0, <1>9 DEF Call, Go, WorkersTyped
  <2>5. NotYetRecorded'
    BY <1>0, <2>1, <2>2, <2>3, <2>4 DEF RecordInv, NotYetRecorded, PostOf
  <2>6. lapses = 0 => ext[p] = 0
    BY <1>0, <2>1 DEF RecordInv, NotYetRecorded
  <2>7. lapses = 0 => ~\E v \in Worker : At(v, "commit") /\ PostOf(v) = p
    BY <1>0, <1>9, <2>1, Alone DEF Call, At, InSection
  <2>8. CASE /\ remote' = [remote EXCEPT ![p] = @ + 1]
             /\ Go(w, "commit")
             /\ run' = [run EXCEPT ![w].copy = remote[p] + 1]
             /\ UNCHANGED lost
    <3>1. CopyIsReal'
      <4>1. run'[w].copy = remote[p] + 1
        BY <2>8, <1>0 DEF WorkersTyped, RunType
      <4>2. run'[w].copy # 0
        BY <4>1, <2>1, <1>0 DEF PostsTyped
      <4> QED
        BY <1>0, <2>4, <4>2 DEF RecordInv, CopyIsReal, At
    <3>2. At(w, "commit")' /\ PostOf(w)' = p
      BY <1>0, <2>3, <2>8 DEF At, Go, WorkersTyped, PostOf
    <3>3. ASSUME lapses = 0, NEW q \in Post
          PROVE  remote'[q] = lost'[q] +
                   IF ext'[q] # 0 \/ \E v \in Worker : At(v, "commit")' /\ PostOf(v)' = q
                     THEN 1 ELSE 0
      <4>1. CASE q = p
        <5>1. remote[p] = lost[p]
          BY <1>0, <2>1, <2>6, <2>7, <3>3 DEF RecordInv, CopiesAreAccountedFor, PostsTyped
        <5> QED
          BY <1>0, <2>1, <2>8, <3>2, <4>1, <5>1 DEF PostsTyped
      <4>2. CASE q # p
        <5>1. (\E v \in Worker : At(v, "commit")' /\ PostOf(v)' = q)
                <=> (\E v \in Worker : At(v, "commit") /\ PostOf(v) = q)
          BY <1>9, <2>3, <2>4, <3>2, <4>2 DEF At, PostOf, Call
        <5> QED
          BY <1>0, <2>2, <2>8, <3>3, <4>2, <5>1
             DEF RecordInv, CopiesAreAccountedFor, PostsTyped
      <4> QED
        BY <4>1, <4>2
    <3>4. CopiesAreAccountedFor'
      BY <2>2, <3>3 DEF CopiesAreAccountedFor
    <3> QED
      BY <2>5, <3>1, <3>4 DEF RecordInv
  <2>9. ASSUME NEW e \in PublishErrors,
               \/ UNCHANGED <<remote, lost>>
               \/ /\ remote' = [remote EXCEPT ![p] = @ + 1]
                  /\ lost' = [lost EXCEPT ![p] = @ + 1],
               Go(w, "catch"), run' = [run EXCEPT ![w].err = e]
        PROVE  RecordInv'
    <3>1. \A v \in Worker : pc'[v] = "commit" <=> pc[v] = "commit"
      BY <1>0, <1>9, <2>9 DEF Go, Call, At, WorkersTyped
    <3>2. \A v \in Worker : pc[v] = "commit" => run'[v] = run[v]
      BY <1>9, <2>4 DEF Call, At
    <3>3. CopyIsReal'
      BY <1>0, <3>1, <3>2 DEF RecordInv, CopyIsReal, At
    <3>4. ASSUME lapses = 0, NEW q \in Post
          PROVE  remote'[q] = lost'[q] +
                   IF ext'[q] # 0 \/ \E v \in Worker : At(v, "commit")' /\ PostOf(v)' = q
                     THEN 1 ELSE 0
      <4>1. (\E v \in Worker : At(v, "commit")' /\ PostOf(v)' = q)
              <=> (\E v \in Worker : At(v, "commit") /\ PostOf(v) = q)
        BY <2>3, <3>1 DEF At, PostOf
      <4>2. remote[q] = lost[q] +
              IF ext'[q] # 0 \/ \E v \in Worker : At(v, "commit")' /\ PostOf(v)' = q
                THEN 1 ELSE 0
        BY <1>0, <2>2, <3>4, <4>1 DEF RecordInv, CopiesAreAccountedFor
      <4>3. \/ remote'[q] = remote[q] /\ lost'[q] = lost[q]
            \/ remote'[q] = remote[q] + 1 /\ lost'[q] = lost[q] + 1
        BY <1>0, <2>1, <2>9 DEF PostsTyped
      <4> QED
        BY <1>0, <4>2, <4>3 DEF PostsTyped
    <3>5. CopiesAreAccountedFor'
      BY <2>2, <3>4 DEF CopiesAreAccountedFor
    <3> QED
      BY <2>5, <3>3, <3>5 DEF RecordInv
  <2> QED
    BY <1>9, <2>8, <2>9 DEF Call
<1>10. ASSUME NEW w \in Worker, Commit(w) PROVE RecordInv'
  <2> DEFINE p == PostOf(w)
  <2>1. p \in Post /\ InSection(w) /\ pc[w] \in BeforeCommit
    BY <1>0, <1>10, PostOfType DEF Commit, At, InSection, BeforeCommit
  <2>2. ext' = [ext EXCEPT ![p] = run[w].copy] /\ UNCHANGED <<remote, lost, lapses>>
    BY <1>10 DEF Commit, failures
  <2>3. run[w].copy # 0
    BY <1>0, <1>10 DEF RecordInv, CopyIsReal, Commit
  <2>4. \A v \in Worker \ {w} : pc'[v] = pc[v] /\ run'[v] = run[v]
    BY <1>0, <1>10 DEF Commit, Go, WorkersTyped
  <2>5. pc'[w] = "parentRead"
    BY <1>0, <1>10 DEF Commit, Go, WorkersTyped
  <2>6. lapses = 0 => \A v \in Worker \ {w} : pc[v] \in BeforeCommit => PostOf(v) # p
    BY <1>0, <2>1, Alone DEF InSection, BeforeCommit
  <2>7. NotYetRecorded'
    <3>1. ASSUME lapses = 0, NEW v \in Worker, pc'[v] \in BeforeCommit
          PROVE  ext'[PostOf(v)'] = 0
      <4>1. v # w /\ PostOf(v)' = PostOf(v) /\ pc[v] \in BeforeCommit
        BY <2>4, <2>5, <3>1 DEF BeforeCommit, PostOf
      <4> QED
        BY <1>0, <2>2, <2>6, <3>1, <4>1 DEF RecordInv, NotYetRecorded, PostsTyped
    <3> QED
      BY <2>2, <3>1 DEF NotYetRecorded, PostOf
  <2>8. CopyIsReal'
    BY <1>0, <2>4, <2>5 DEF RecordInv, CopyIsReal, At
  <2>9. ASSUME lapses = 0, NEW q \in Post
        PROVE  remote'[q] = lost'[q] +
                 IF ext'[q] # 0 \/ \E v \in Worker : At(v, "commit")' /\ PostOf(v)' = q
                   THEN 1 ELSE 0
    <3>1. CASE q = p
      <4>1. remote[p] = lost[p] + 1
        BY <1>0, <1>10, <2>1, <2>9 DEF RecordInv, CopiesAreAccountedFor, Commit
      <4>2. ext'[p] # 0
        BY <1>0, <2>1, <2>2, <2>3 DEF PostsTyped
      <4> QED
        BY <2>2, <3>1, <4>1, <4>2
    <3>2. CASE q # p
      <4>1. (\E v \in Worker : At(v, "commit")' /\ PostOf(v)' = q)
              <=> (\E v \in Worker : At(v, "commit") /\ PostOf(v) = q)
        BY <2>4, <2>5, <3>2 DEF At, PostOf
      <4>2. ext'[q] = ext[q]
        BY <1>0, <2>2, <3>2 DEF PostsTyped
      <4> QED
        BY <1>0, <2>2, <2>9, <4>1, <4>2 DEF RecordInv, CopiesAreAccountedFor
    <3> QED
      BY <3>1, <3>2
  <2> QED
    BY <2>2, <2>7, <2>8, <2>9 DEF RecordInv, CopiesAreAccountedFor
<1>11. ASSUME NEW w \in Worker, Reject(w) PROVE RecordInv'
  <2>1. \A v \in Worker :
          /\ pc'[v] \in BeforeCommit =>
               pc[v] \in BeforeCommit /\ run'[v].job = run[v].job
          /\ pc'[v] = "commit" <=> pc[v] = "commit"
          /\ pc[v] = "commit" => run'[v] = run[v]
    BY <1>0, <1>11 DEF Reject, At, Go, WorkersTyped, BeforeCommit
  <2> QED
    BY <1>0, <1>11, <2>1, RecordUnchanged DEF Reject, dbVars, failures
<1>12. ASSUME NEW w \in Worker, Catch(w) PROVE RecordInv'
  <2>1. \A v \in Worker :
          /\ pc'[v] \in BeforeCommit =>
               pc[v] \in BeforeCommit /\ run'[v].job = run[v].job
          /\ pc'[v] = "commit" <=> pc[v] = "commit"
          /\ pc[v] = "commit" => run'[v] = run[v]
    BY <1>0, <1>12 DEF Catch, At, Go, WorkersTyped, BeforeCommit
  <2> QED
    BY <1>0, <1>12, <2>1, RecordUnchanged DEF Catch, dbVars, failures
<1>13. ASSUME NEW w \in Worker, After(w) PROVE RecordInv'
  <2>1. \A v \in Worker :
          /\ pc'[v] \in BeforeCommit =>
               pc[v] \in BeforeCommit /\ run'[v].job = run[v].job
          /\ pc'[v] = "commit" <=> pc[v] = "commit"
          /\ pc[v] = "commit" => run'[v] = run[v]
    BY <1>0, <1>13 DEF After, At, Go, GoWith, WorkersTyped, BeforeCommit
  <2> QED
    BY <1>0, <1>13, <2>1, RecordUnchanged DEF After, dbVars, failures
<1>14. ASSUME NEW w \in Worker, ParentRead(w) PROVE RecordInv'
  <2>1. \A v \in Worker :
          /\ pc'[v] \in BeforeCommit =>
               pc[v] \in BeforeCommit /\ run'[v].job = run[v].job
          /\ pc'[v] = "commit" <=> pc[v] = "commit"
          /\ pc[v] = "commit" => run'[v] = run[v]
    BY <1>0, <1>14 DEF ParentRead, At, Go, WorkersTyped, BeforeCommit
  <2> QED
    BY <1>0, <1>14, <2>1, RecordUnchanged DEF ParentRead, dbVars, failures
<1>15. ASSUME NEW w \in Worker, ParentWrite(w) PROVE RecordInv'
  <2>1. \A v \in Worker :
          /\ pc'[v] \in BeforeCommit =>
               pc[v] \in BeforeCommit /\ run'[v].job = run[v].job
          /\ pc'[v] = "commit" <=> pc[v] = "commit"
          /\ pc[v] = "commit" => run'[v] = run[v]
    BY <1>0, <1>15 DEF ParentWrite, At, Go, WorkersTyped, BeforeCommit
  <2> QED
    BY <1>0, <1>15, <2>1, RecordUnchanged DEF ParentWrite, dbVars, failures
<1>16. ASSUME NEW w \in Worker, Release(w) PROVE RecordInv'
  <2>1. \A v \in Worker :
          /\ pc'[v] \in BeforeCommit =>
               pc[v] \in BeforeCommit /\ run'[v].job = run[v].job
          /\ pc'[v] = "commit" <=> pc[v] = "commit"
          /\ pc[v] = "commit" => run'[v] = run[v]
    BY <1>0, <1>16 DEF Release, At, Go, WorkersTyped, BeforeCommit
  <2> QED
    BY <1>0, <1>16, <2>1, RecordUnchanged DEF Release, dbVars, failures
<1>17. ASSUME NEW w \in Worker, Finish(w) PROVE RecordInv'
  <2>1. \A v \in Worker :
          /\ pc'[v] \in BeforeCommit =>
               pc[v] \in BeforeCommit /\ run'[v].job = run[v].job
          /\ pc'[v] = "commit" <=> pc[v] = "commit"
          /\ pc[v] = "commit" => run'[v] = run[v]
    BY <1>0, <1>17 DEF Finish, At, Go, Stop, NoRun, Invocation, WorkersTyped, BeforeCommit
  <2> QED
    BY <1>0, <1>17, <2>1, RecordUnchanged DEF Finish, dbVars, failures
<1>18. ASSUME NEW w \in Worker, OuterCatch(w) PROVE RecordInv'
  <2>1. \A v \in Worker :
          /\ pc'[v] \in BeforeCommit =>
               pc[v] \in BeforeCommit /\ run'[v].job = run[v].job
          /\ pc'[v] = "commit" <=> pc[v] = "commit"
          /\ pc[v] = "commit" => run'[v] = run[v]
    BY <1>0, <1>18 DEF OuterCatch, At, Go, Stop, NoRun, Invocation, WorkersTyped, BeforeCommit
  <2> QED
    BY <1>0, <1>18, <2>1, RecordUnchanged DEF OuterCatch, dbVars, failures
<1>19. ASSUME NEW w \in Worker, OuterDead(w) PROVE RecordInv'
  <2>1. \A v \in Worker :
          /\ pc'[v] \in BeforeCommit =>
               pc[v] \in BeforeCommit /\ run'[v].job = run[v].job
          /\ pc'[v] = "commit" <=> pc[v] = "commit"
          /\ pc[v] = "commit" => run'[v] = run[v]
    BY <1>0, <1>19 DEF OuterDead, At, Go, Stop, NoRun, Invocation, WorkersTyped, BeforeCommit
  <2> QED
    BY <1>0, <1>19, <2>1, RecordUnchanged DEF OuterDead, dbVars, failures
<1>20. ASSUME NEW w \in Worker, Fault(w) PROVE RecordInv'
  <2>1. pc[w] # "idle"
    BY <1>20 DEF Fault, InInnerTry, InSection, At
  <2>2. pc'[w] \in {"catch", "release", "outer", "finish", "idle"}
    BY <1>0, <1>20 DEF Fault, Throw, Stop, Go, WorkersTyped
  <2>3. \A v \in Worker \ {w} : pc'[v] = pc[v] /\ run'[v] = run[v]
    BY <1>0, <1>20 DEF Fault, Throw, Stop, Go, WorkersTyped
  <2>4. ForgetCopy(w) /\ UNCHANGED <<ext, remote, lapses>>
    BY <1>20 DEF Fault, dbVars
  <2> QED
    BY <1>0, <2>1, <2>2, <2>3, <2>4, RecordDropped DEF BeforeCommit
<1>21. ASSUME NEW w \in Worker, Crash(w) PROVE RecordInv'
  <2>1. /\ pc[w] # "idle" /\ pc'[w] = "idle"
        /\ \A v \in Worker \ {w} : pc'[v] = pc[v] /\ run'[v] = run[v]
    BY <1>0, <1>21 DEF Crash, Stop, Go, At, WorkersTyped
  <2>2. ForgetCopy(w) /\ UNCHANGED <<ext, remote, lapses>>
    BY <1>21 DEF Crash, dbVars
  <2> QED
    BY <1>0, <2>1, <2>2, RecordDropped DEF BeforeCommit
<1>22. ASSUME NEW j \in Job, Stall(j) PROVE RecordInv'
  <2>1. \A v \in Worker :
          /\ pc'[v] \in BeforeCommit =>
               pc[v] \in BeforeCommit /\ run'[v].job = run[v].job
          /\ pc'[v] = "commit" <=> pc[v] = "commit"
          /\ pc[v] = "commit" => run'[v] = run[v]
    BY <1>0, <1>22 DEF Stall, WorkersTyped, BeforeCommit
  <2> QED
    BY <1>0, <1>22, <2>1, RecordUnchanged DEF Stall, dbVars, failures
<1>23. ASSUME NEW p \in Post, Expire(p) PROVE RecordInv'
  <2>1. \A v \in Worker :
          /\ pc'[v] \in BeforeCommit =>
               pc[v] \in BeforeCommit /\ run'[v].job = run[v].job
          /\ pc'[v] = "commit" <=> pc[v] = "commit"
          /\ pc[v] = "commit" => run'[v] = run[v]
    BY <1>0, <1>23 DEF Expire, WorkersTyped, BeforeCommit
  <2> QED
    BY <1>0, <1>23, <2>1, RecordUnchanged DEF Expire, dbVars, failures
<1>24. ASSUME NEW p \in Post, Lapse(p) PROVE RecordInv'
  <2>1. lapses' # 0 /\ UNCHANGED <<pc, run>>
    BY <1>0, <1>24 DEF Lapse, PostsTyped
  <2> QED
    BY <1>0, <2>1 DEF RecordInv, NotYetRecorded, CopyIsReal, CopiesAreAccountedFor, At
<1>25. CASE UNCHANGED vars
  BY <1>0, <1>25, RecordUnchanged DEF vars, dbVars, failures
<1>26. ASSUME Retry PROVE RecordInv'
  BY <1>0, <1>26, RecordUnchanged DEF Retry, failures
<1> QED
  BY <1>1, <1>2, <1>3, <1>4, <1>5, <1>6, <1>7, <1>8, <1>9, <1>10, <1>11, <1>12, <1>13, <1>14, <1>15, <1>16, <1>17, <1>18, <1>19, <1>20, <1>21, <1>22, <1>23, <1>24, <1>25, <1>26 DEF Next, Process

-----------------------------------------------------------------------------
LEMMA InvNext == PublishInv /\ [Next]_vars => PublishInv'
  BY TypeNext, HoldersNext, RecordNext DEF PublishInv, RecordInv

(* PublishInv holds in every behaviour of the publish workers.             *)
THEOREM PublishInvariant == Spec => []PublishInv
  BY InvInit, InvNext, PTL DEF Spec

(* The processor, BullMQ and the failures store nothing outside its type.  *)
THEOREM TypeCorrect == Spec => []TypeOK
<1>1. PublishInv => TypeOK
  BY DEF PublishInv, TypeInv, WorkersTyped, PostsTyped, JobsTyped, RunType, TypeOK
<1> QED
  BY <1>1, PublishInvariant, PTL

(* publishPlatformPost never runs twice at a time for a post, through any  *)
(* crashes, redeliveries and faults, while no running worker loses its     *)
(* lock.                                                                   *)
THEOREM OneWorkerAtATime == Spec => []OneAtATime
<1>1. PublishInv => OneAtATime
  BY Alone DEF PublishInv, OneAtATime
<1> QED
  BY <1>1, PublishInvariant, PTL

(* Every copy on a platform is the recorded externalPostId, is about to be *)
(* recorded, or was lost by an ambiguous error, a crash or a fault.        *)
THEOREM CopiesAccounted == Spec => []CopiesAreAccountedFor
<1>1. PublishInv => CopiesAreAccountedFor
  BY DEF PublishInv
<1> QED
  BY <1>1, PublishInvariant, PTL

(* Nobody is at the commit of, or about to call for, a recorded post.      *)
LEMMA RecordedStep ==
  ASSUME PublishInv, [Next]_vars, lapses = 0, NEW p \in Post, ext[p] # 0
  PROVE  ext'[p] = ext[p] /\ remote'[p] = remote[p]
<1>1. ASSUME NEW w \in Worker, pc[w] \in BeforeCommit
      PROVE  PostOf(w) \in Post /\ PostOf(w) # p
  BY <1>1, PostOfType DEF PublishInv, TypeInv, NotYetRecorded, BeforeCommit
<1>2. ASSUME NEW w \in Worker, Call(w)
      PROVE  ext' = ext /\ remote'[p] = remote[p]
  <2>1. PostOf(w) \in Post /\ PostOf(w) # p
    BY <1>1, <1>2 DEF Call, At, BeforeCommit
  <2> QED
    BY <1>2, <2>1 DEF Call, dbVars, PublishInv, TypeInv, PostsTyped
<1>3. ASSUME NEW w \in Worker, Commit(w)
      PROVE  ext'[p] = ext[p] /\ remote' = remote
  <2>1. PostOf(w) \in Post /\ PostOf(w) # p
    BY <1>1, <1>3 DEF Commit, At, BeforeCommit
  <2> QED
    BY <1>3, <2>1 DEF Commit, PublishInv, TypeInv, PostsTyped
<1>4. ASSUME NEW w \in Worker,
             \/ \E j \in Job : Take(w, j)
             \/ Acquire(w) \/ Load(w) \/ Begin(w) \/ BeginParent(w) \/ GetAdapters(w)
             \/ Prepare(w) \/ Fence(w) \/ Reject(w) \/ Catch(w) \/ After(w)
      PROVE  ext' = ext /\ remote' = remote
  BY <1>4 DEF Take, Acquire, Load, Begin, BeginParent, GetAdapters, Prepare, Fence,
              Reject, Catch, After, dbVars
<1>5. ASSUME NEW w \in Worker,
             \/ ParentRead(w) \/ ParentWrite(w) \/ Release(w) \/ Finish(w)
             \/ OuterCatch(w) \/ OuterDead(w) \/ Fault(w) \/ Crash(w)
      PROVE  ext' = ext /\ remote' = remote
  BY <1>5 DEF ParentRead, ParentWrite, Release, Finish, OuterCatch, OuterDead,
              Fault, Crash, dbVars
<1>6. ASSUME (\E j \in Job : Stall(j)) \/ (\E q \in Post : Expire(q) \/ Lapse(q)) \/ Retry
      PROVE  ext' = ext /\ remote' = remote
  BY <1>6 DEF Stall, Expire, Lapse, Retry, dbVars
<1>7. CASE UNCHANGED vars
  BY <1>7 DEF vars, dbVars
<1> QED
  BY <1>2, <1>3, <1>4, <1>5, <1>6, <1>7 DEF Next, Process

(* externalPostId is the last defence: once it is recorded the post is not *)
(* called for again and the record stays, whatever job runs when.          *)
THEOREM RecordedForGood == Spec => RecordedIsFinal
<1>1. PublishInv /\ [Next]_vars =>
        [\A p \in Post :
           lapses = 0 /\ ext[p] # 0 => ext'[p] = ext[p] /\ remote'[p] = remote[p]]_vars
  BY RecordedStep
<1> QED
  BY <1>1, PublishInvariant, PTL DEF Spec, RecordedIsFinal
=============================================================================
