----------------------- MODULE Reconciliation_proofs -----------------------
(***************************************************************************)
(* Reconciliation beside any number of publish workers: the types, and     *)
(* that it repairs what it is there to repair.  While no answer was lost a *)
(* post has no reconciliation job and its row tells what is on the         *)
(* platform; from the lost answer on, the publish worker leaves the row    *)
(* alone, and what the reconciliation job knows of the platform stays      *)
(* true, for nobody publishes the post again.                              *)
(***************************************************************************)
EXTENDS Reconciliation, PublishJobs_proofs

(* A reconcile job that is not over has an attempt left.                   *)
TriesRemain == \A j \in Job : recon[j] # "done" => tries[j] < MaxTries

(* One job for each post, with one attempt.                                *)
Single == Tidy /\ MaxAttempts = 1

JobOf(p) == <<p, "publish-post">>

InDoubt(p) == status[p] = "REMOTE_RESULT_UNKNOWN"
RowIsRight(p) == status[p] = "PUBLISHED" <=> remote[p] > 0

(* Nothing has come of the post so far.                                    *)
Unheard(p) ==
  remote[p] = 0 /\ recon[JobOf(p)] = "none" /\ status[p] \notin {"PUBLISHED", "REMOTE_RESULT_UNKNOWN"}

(* What the stage of the reconciliation says of the row.                   *)
Reconciled(p) ==
  LET step == recon[JobOf(p)] IN
  /\ step = "none" => RowIsRight(p) /\ ~InDoubt(p)
  /\ step = "waiting" => RowIsRight(p) \/ InDoubt(p)
  /\ step \in {"asked", "answered"} => InDoubt(p)
  /\ step = "answered" => found[JobOf(p)].copy = remote[p]
  /\ step \in {"parentRead", "parentWrite"} => RowIsRight(p)
  /\ step = "finish" => RowIsRight(p) \/ (InDoubt(p) /\ attempts[p] > 0)
  /\ step = "done" => RowIsRight(p) \/ (InDoubt(p) /\ (attempts[p] > 0 \/ tries[JobOf(p)] = MaxTries))

PostFits(p) ==
  /\ recon[JobOf(p)] # "none" => Reconciled(p)
  /\ jobState[JobOf(p)] = "waiting" => Unheard(p)
  /\ jobState[JobOf(p)] \notin {"waiting", "active"} => Reconciled(p)

Untold == {"lock", "load", "begin", "beginParent", "adapters", "prepare", "fence", "call",
           "reject", "outer", "dead"}
Leaving == {"parentRead", "parentWrite", "release", "finish"}

(* What the stage of the worker says of it.                                *)
WorkerFits(w) ==
  LET p == PostOf(w)
      e == run[w].err
  IN  /\ run[w].attempt > 0
      /\ pc[w] \in Untold => Unheard(p)
      /\ pc[w] \in {"commit", "catch", "after"} => recon[JobOf(p)] = "none"
      /\ pc[w] = "commit" => remote[p] > 0
      /\ pc[w] = "catch" => /\ status[p] \notin {"PUBLISHED", "REMOTE_RESULT_UNKNOWN"}
                            /\ remote[p] > 0 => e = "NETWORK"
      /\ pc[w] = "after" => IF e = "NETWORK" THEN InDoubt(p) ELSE Unheard(p)
      /\ pc[w] \in Leaving => Reconciled(p)
      /\ pc[w] \in Leaving /\ run[w].result = "rethrow" => Unheard(p)

RepairsFit ==
  Calm => /\ \A j \in Job : jobState[j] = "active" => owner[j] # Nobody
          /\ \A p \in Post \ MultiStep : PostFits(p)
          /\ \A w \in Worker : pc[w] # "idle" /\ PostOf(w) \notin MultiStep => WorkerFits(w)

RepairInv ==
  /\ TypeInv /\ ReconTypeOK /\ TriesRemain
  /\ Tidy => AllOwn
  /\ Single => RepairsFit
-----------------------------------------------------------------------------
(* The publish workers only ever create a reconcile job.                   *)
LEMMA WorkersOnlyAskFor ==
  ASSUME TypeInv, [Next]_vars, NEW j \in Job
  PROVE  recon'[j] = recon[j] \/ (recon[j] = "none" /\ recon'[j] = "waiting")
<1>1. recon \in [Job -> ReconSteps]
      BY DEF TypeInv, JobsTyped
<1>2. ASSUME NEW w \in Worker, After(w)
      PROVE  recon'[j] = recon[j] \/ (recon[j] = "none" /\ recon'[j] = "waiting")
      BY <1>1, <1>2 DEF After
<1>3. ASSUME NEW w \in Worker, Process(w), ~After(w)
      PROVE  recon' = recon
      BY <1>3 DEF Process, Acquire, Load, Begin, BeginParent, GetAdapters, Prepare, Fence,
         Call, Commit,
                  Reject, Catch, ParentRead, ParentWrite, Release, Finish, OuterCatch, OuterDead
<1>4. ASSUME NEW w \in Worker, (\E i \in Job : Take(w, i)) \/ Fault(w) \/ Crash(w)
      PROVE  recon' = recon
      BY <1>4 DEF Take, Fault, Crash
<1>5. CASE (\E i \in Job : Stall(i)) \/ (\E p \in Post : Expire(p) \/ Lapse(p)) \/ Retry \/ UNCHANGED vars
      BY <1>5 DEF Stall, Expire, Lapse, Retry, vars
<1> QED BY <1>2, <1>3, <1>4, <1>5 DEF Next

(* A step of a reconcile job leaves the workers and the other posts alone. *)
LEMMA ReconTouches ==
  ASSUME TypeInv, ReconTypeOK, NEW j \in Job, Reconcile(j) \/ ReconThrow(j)
  PROVE  /\ UNCHANGED <<deliveries, remote, pc, run, failures>>
         /\ recon[j] \notin {"none", "done"} /\ recon'[j] \notin {"none"}
         /\ \A i \in Job \ {j} : recon'[i] = recon[i] /\ tries'[i] = tries[i] /\ found'[i] = found[i]
         /\ \A p \in Post \ {j[1]} : status'[p] = status[p] /\ attempts'[p] = attempts[p]
<1>1. /\ recon \in [Job -> ReconSteps] /\ status \in [Post -> PlatformPostStatuses]
      /\ attempts \in [Post -> Nat] /\ tries \in [Job -> 0..MaxTries]
      /\ \E T : found \in [Job -> T]
      BY DEF TypeInv, JobsTyped, PostsTyped, ReconTypeOK
<1>2. UNCHANGED <<deliveries, remote, pc, run, failures>>
      BY DEF Reconcile, ReconRead, ReconNothing, ReconAnswer, ReconRecord, ReconParentRead,
             ReconParentWrite, ReconFinish, ReconThrow, Untouched, failures, deliveries
<1>3. /\ recon[j] \notin {"none", "done"}
      /\ \E s \in ReconSteps \ {"none"} : recon' = [recon EXCEPT ![j] = s]
      BY DEF Reconcile, ReconRead, ReconNothing, ReconAnswer, ReconRecord, ReconParentRead,
             ReconParentWrite, ReconFinish, ReconThrow, ReconGo, ReconSteps
<1>4. \A i \in Job \ {j} : tries'[i] = tries[i] /\ found'[i] = found[i]
      BY <1>1 DEF Reconcile, ReconRead, ReconNothing, ReconAnswer, ReconRecord, ReconParentRead,
                  ReconParentWrite, ReconFinish, ReconThrow
<1>5. \A p \in Post \ {j[1]} : status'[p] = status[p] /\ attempts'[p] = attempts[p]
      BY <1>1 DEF Reconcile, ReconRead, ReconNothing, ReconAnswer, ReconRecord, ReconParentRead,
                  ReconParentWrite, ReconFinish, ReconThrow
<1> QED BY <1>1, <1>2, <1>3, <1>4, <1>5

Findings == [base : Nat, copy : Nat, seen : SUBSET PlatformPostStatuses]

(* The types, through the steps of a reconcile job.                        *)
LEMMA ReconTypesKept ==
  ASSUME TypeInv, ReconTypeOK, TriesRemain, NEW j \in Job, Reconcile(j) \/ ReconThrow(j)
  PROVE  TypeInv' /\ ReconTypeOK' /\ TriesRemain'
<1> DEFINE p == j[1]
<1>1. /\ recon \in [Job -> ReconSteps] /\ status \in [Post -> PlatformPostStatuses]
      /\ ext \in [Post -> Nat] /\ remote \in [Post -> Nat] /\ connected \in [Post -> BOOLEAN]
      /\ parent \in PostStatuses
      /\ attempts \in [Post -> Nat] /\ tries \in [Job -> 0..MaxTries] /\ manual \in [Post -> BOOLEAN]
      /\ found \in [Job -> Findings] /\ throws \in 0..MaxThrows /\ p \in Post
      /\ found[j] \in Findings
      BY DEF TypeInv, JobsTyped, PostsTyped, ReconTypeOK, Findings, Job
<1>2. NoFinding \in Findings
      BY DEF NoFinding, Findings
<1>3. \A x \in Nat : [found[j] EXCEPT !.base = x] \in Findings /\ [found[j] EXCEPT !.copy = x] \in Findings
      BY <1>1 DEF Findings
<1>4. [found[j] EXCEPT !.seen = {status[q] : q \in Post}] \in Findings
      BY <1>1 DEF Findings
<1>5. found' \in [Job -> Findings]
  <2>1. \/ found' = found
        \/ found' = [found EXCEPT ![j] = NoFinding]
        \/ found' = [found EXCEPT ![j] = [found[j] EXCEPT !.base = attempts[p]]]
        \/ found' = [found EXCEPT ![j] = [found[j] EXCEPT !.copy = remote[p]]]
        \/ found' = [found EXCEPT ![j] = [found[j] EXCEPT !.seen = {status[q] : q \in Post}]]
        BY <1>1 DEF Reconcile, ReconRead, ReconNothing, ReconAnswer, ReconRecord,
           ReconParentRead,
                    ReconParentWrite, ReconFinish, ReconThrow
  <2>2. \E g \in Findings : found' = found \/ found' = [found EXCEPT ![j] = g]
        BY <1>1, <1>2, <1>3, <1>4, <2>1
  <2> QED BY <1>1, <2>2
<1>6. recon' \in [Job -> ReconSteps]
      BY <1>1 DEF Reconcile, ReconRead, ReconNothing, ReconAnswer, ReconRecord, ReconParentRead,
                  ReconParentWrite, ReconFinish, ReconThrow, ReconGo, ReconSteps
<1>7. status' \in [Post -> PlatformPostStatuses]
      BY <1>1 DEF Reconcile, ReconRead, ReconNothing, ReconAnswer, ReconRecord, ReconParentRead,
                  ReconParentWrite, ReconFinish, ReconThrow, PlatformPostStatuses
<1>8. ext' \in [Post -> Nat]
      BY <1>1 DEF Reconcile, ReconRead, ReconNothing, ReconAnswer, ReconRecord, ReconParentRead,
                  ReconParentWrite, ReconFinish, ReconThrow, Findings
<1>9. connected' \in [Post -> BOOLEAN]
  <2>1. \E c \in BOOLEAN : connected' = connected \/ connected' = [connected EXCEPT ![p] = c]
    <3>1. CASE ReconThrow(j)
      <4>1. PICK c \in {connected[p], recon[j] # "asked" /\ connected[p]} :
              connected' = [connected EXCEPT ![p] = c]
            BY <3>1 DEF ReconThrow
      <4>2. connected[p] \in BOOLEAN /\ (recon[j] # "asked" /\ connected[p]) \in BOOLEAN
            BY <1>1
      <4>3. c \in BOOLEAN
            BY <4>1, <4>2
      <4> QED BY <4>1, <4>3
    <3>2. CASE Reconcile(j)
      <4>1. connected' = connected \/ AskWithFreshToken(p)
            BY <3>2 DEF Reconcile, ReconRead, ReconNothing, ReconAnswer, ReconRecord,
               ReconParentRead,
                        ReconParentWrite, ReconFinish
      <4>2. AskWithFreshToken(p) => \E c \in BOOLEAN : connected' = [connected EXCEPT ![p] = c]
            BY <1>1 DEF AskWithFreshToken
      <4> QED BY <4>1, <4>2
    <3> QED BY <3>1, <3>2
  <2> QED BY <1>1, <2>1
<1>10. parent' \in PostStatuses
  <2>1. parent' = parent \/ parent' = DeriveContentPostStatus(found[j].seen)
        BY DEF Reconcile, ReconRead, ReconNothing, ReconAnswer, ReconRecord, ReconParentRead,
               ReconParentWrite, ReconFinish, ReconThrow
  <2> QED BY <1>1, <2>1, DeriveType DEF Findings
<1>11. TypeInv'
  <2>1. UNCHANGED <<bg, lock, deliveries, remote, pc, run, lost, failures, fence>>
        BY DEF Reconcile, ReconRead, ReconNothing, ReconAnswer, ReconRecord, ReconParentRead,
               ReconParentWrite, ReconFinish, ReconThrow, Untouched, failures, deliveries
  <2> QED BY <1>6, <1>7, <1>8, <1>9, <1>10, <2>1
             DEF TypeInv, JobsTyped, PostsTyped, WorkersTyped, BusyHaveJobs, deliveries, failures
<1>12. attempts' \in [Post -> Nat] /\ manual' \in [Post -> BOOLEAN]
  <2>1. \E n \in Nat : attempts' = attempts \/ attempts' = [attempts EXCEPT ![p] = n]
    <3>1. found[j].base + 1 \in Nat /\ attempts[p] + 1 \in Nat
          BY <1>1 DEF Findings
    <3>2. \/ attempts' = attempts
          \/ attempts' = [attempts EXCEPT ![p] = found[j].base + 1]
          \/ attempts' = [attempts EXCEPT ![p] = attempts[p] + 1]
          BY DEF Reconcile, ReconRead, ReconNothing, ReconAnswer, ReconRecord, ReconParentRead,
                 ReconParentWrite, ReconFinish, ReconThrow
    <3> QED BY <3>1, <3>2
  <2>2. \E b \in BOOLEAN : manual' = manual \/ manual' = [manual EXCEPT ![p] = b]
    <3>1. (found[j].base + 1 >= ReviewAfter) \in BOOLEAN
          OBVIOUS
    <3> QED BY <3>1 DEF Reconcile, ReconRead, ReconNothing, ReconAnswer, ReconRecord,
               ReconParentRead,
                        ReconParentWrite, ReconFinish, ReconThrow
  <2> QED BY <1>1, <2>1, <2>2
<1>13. /\ tries' \in [Job -> 0..MaxTries] /\ throws' \in 0..MaxThrows
       /\ recon'[j] # "done" => tries'[j] < MaxTries
  <2>1. CASE ReconThrow(j)
    <3>1. tries[j] < MaxTries /\ tries[j] \in Nat /\ MaxTries \in Nat
          BY <1>1, <2>1, ReconciliationAssumption DEF ReconThrow, TriesRemain
    <3> QED BY <1>1, <2>1, <3>1, ReconciliationAssumption DEF ReconThrow, ReconGo
  <2>2. CASE Reconcile(j)
    <3>1. UNCHANGED <<tries, throws>> /\ recon[j] # "done"
          BY <2>2 DEF Reconcile, ReconRead, ReconNothing, ReconAnswer, ReconRecord,
             ReconParentRead,
                      ReconParentWrite, ReconFinish, Untouched
    <3> QED BY <1>1, <3>1 DEF TriesRemain
  <2> QED BY <2>1, <2>2
<1>14. TriesRemain'
  <2>1. \A i \in Job \ {j} : recon'[i] = recon[i] /\ tries'[i] = tries[i]
        BY ReconTouches
  <2> QED BY <1>13, <2>1 DEF TriesRemain
<1> QED BY <1>5, <1>11, <1>12, <1>13, <1>14 DEF ReconTypeOK, Findings

(* The other posts' part of the state stays as it is.                      *)
LEMMA LeftAlone ==
  ASSUME NEW p, status'[p] = status[p], remote'[p] = remote[p], recon'[JobOf(p)] = recon[JobOf(p)],
         found'[JobOf(p)] = found[JobOf(p)], attempts'[p] = attempts[p],
         tries'[JobOf(p)] = tries[JobOf(p)]
  PROVE  (Unheard(p) => Unheard(p)') /\ (Reconciled(p) => Reconciled(p)')
BY DEF Unheard, Reconciled, RowIsRight, InDoubt, JobOf

(* Of a post that has a reconcile job, no worker is on its way any more.   *)
LEMMA OnlyLeaving ==
  ASSUME TypeInv, NEW w \in Worker, pc[w] # "idle", WorkerFits(w), recon[JobOf(PostOf(w))] # "none"
  PROVE  pc[w] \in Leaving /\ run[w].result # "rethrow"
BY DEF TypeInv, WorkersTyped, Steps, WorkerFits, Untold, Leaving, Unheard

(* A step of a reconcile job takes the post from one stage to the next.    *)
LEMMA StageByStage ==
  ASSUME TypeInv, ReconTypeOK, TriesRemain, NEW p \in Post, JobOf(p) \in Job,
         Reconciled(p), Reconcile(JobOf(p)) \/ ReconThrow(JobOf(p))
  PROVE  Reconciled(p)'
<1> DEFINE j == JobOf(p)
<1>0. j[1] = p
      BY DEF JobOf
<1>1. /\ recon \in [Job -> ReconSteps] /\ status \in [Post -> PlatformPostStatuses]
      /\ remote \in [Post -> Nat] /\ attempts \in [Post -> Nat] /\ tries \in [Job -> 0..MaxTries]
      /\ found \in [Job -> Findings] /\ found[j] \in Findings /\ remote[p] \in Nat /\ attempts[p] \in Nat
      BY DEF TypeInv, JobsTyped, PostsTyped, ReconTypeOK, Findings
<1>2. remote' = remote
      BY ReconTouches
<1>3. CASE ReconRead(j)
  <2>1. recon[j] = "waiting" /\ status' = status /\ UNCHANGED attempts
        BY <1>3 DEF ReconRead
  <2>2. \/ ~InDoubt(p) /\ recon'[j] = "finish"
        \/ InDoubt(p) /\ attempts[p] >= ReviewAfter /\ recon'[j] = "finish"
        \/ InDoubt(p) /\ recon'[j] = "asked"
        BY <1>0, <1>1, <1>3 DEF ReconRead, ReconGo, InDoubt
  <2>3. attempts[p] >= ReviewAfter => attempts[p] > 0
        BY <1>1, ReconciliationAssumption
  <2> HIDE DEF j
  <2> QED BY <1>2, <2>1, <2>2, <2>3 DEF Reconciled, RowIsRight, InDoubt, j
<1>4. CASE ReconNothing(j)
  <2>1. recon[j] = "asked" /\ recon'[j] = "finish" /\ status' = status
        BY <1>1, <1>4 DEF ReconNothing, ReconGo
  <2>2. attempts'[p] > 0
    <3>1. attempts'[p] = found[j].base + 1
          BY <1>0, <1>1, <1>4 DEF ReconNothing
    <3> QED BY <1>1, <3>1 DEF Findings
  <2> HIDE DEF j
  <2> QED BY <1>2, <2>1, <2>2 DEF Reconciled, RowIsRight, InDoubt, j
<1>5. CASE ReconAnswer(j)
  <2>1. recon[j] = "asked" /\ recon'[j] = "answered" /\ status' = status
        BY <1>1, <1>5 DEF ReconAnswer, ReconGo
  <2>2. found'[j].copy = remote[p]
        BY <1>0, <1>1, <1>5 DEF ReconAnswer, Findings
  <2> HIDE DEF j
  <2> QED BY <1>2, <2>1, <2>2 DEF Reconciled, RowIsRight, InDoubt, j
<1>6. CASE ReconRecord(j)
  <2>1. recon[j] = "answered" /\ recon'[j] = "parentRead"
        BY <1>1, <1>6 DEF ReconRecord, ReconGo
  <2>2. status'[p] = IF found[j].copy # 0 THEN "PUBLISHED" ELSE "FAILED"
        BY <1>0, <1>1, <1>6 DEF ReconRecord
  <2>3. found[j].copy = remote[p]
        BY <2>1 DEF Reconciled
  <2>4. RowIsRight(p)'
        BY <1>1, <1>2, <2>2, <2>3 DEF RowIsRight
  <2> HIDE DEF j
  <2> QED BY <2>1, <2>4 DEF Reconciled, j
<1>7. CASE ReconParentRead(j)
  <2>1. recon[j] = "parentRead" /\ recon'[j] = "parentWrite" /\ status' = status
        BY <1>1, <1>7 DEF ReconParentRead, ReconGo
  <2> HIDE DEF j
  <2> QED BY <1>2, <2>1 DEF Reconciled, RowIsRight, j
<1>8. CASE ReconParentWrite(j)
  <2>1. recon[j] = "parentWrite" /\ recon'[j] = "finish" /\ status' = status
        BY <1>1, <1>8 DEF ReconParentWrite, ReconGo
  <2> HIDE DEF j
  <2> QED BY <1>2, <2>1 DEF Reconciled, RowIsRight, j
<1>9. CASE ReconFinish(j)
  <2>1. recon[j] = "finish" /\ recon'[j] = "done" /\ status' = status /\ attempts' = attempts
        BY <1>1, <1>9 DEF ReconFinish, ReconGo
  <2> HIDE DEF j
  <2> QED BY <1>2, <2>1 DEF Reconciled, RowIsRight, InDoubt, j
<1>10. CASE ReconThrow(j)
  <2>1. /\ recon[j] \notin {"none", "waiting", "done"} /\ status' = status /\ attempts' = attempts
        /\ tries'[j] = tries[j] + 1
        /\ recon'[j] = IF tries[j] + 1 < MaxTries THEN "waiting" ELSE "done"
        BY <1>1, <1>10 DEF ReconThrow, ReconGo
  <2>2. tries[j] < MaxTries /\ tries[j] \in Nat /\ MaxTries \in Nat
        BY <1>1, <2>1, ReconciliationAssumption DEF TriesRemain
  <2>3. recon'[j] = "done" => tries'[j] = MaxTries
        BY <2>1, <2>2
  <2>4. recon[j] \in {"asked", "answered", "parentRead", "parentWrite", "finish"}
        BY <1>1, <2>1 DEF ReconSteps
  <2>5. RowIsRight(p) \/ InDoubt(p)
        BY <2>4 DEF Reconciled
  <2>6. (RowIsRight(p) <=> RowIsRight(p)') /\ (InDoubt(p) <=> InDoubt(p)')
        BY <1>2, <2>1 DEF RowIsRight, InDoubt
  <2>7. recon'[j] \in {"waiting", "done"}
        BY <2>1
  <2> HIDE DEF j
  <2> QED BY <2>3, <2>5, <2>6, <2>7 DEF Reconciled, j
<1> QED BY <1>3, <1>4, <1>5, <1>6, <1>7, <1>8, <1>9, <1>10 DEF Reconcile

(* A step of the reconciliation processor keeps what is true of the        *)
(* repairs.                                                                *)
LEMMA ReconKeepsFits ==
  ASSUME TypeInv, ReconTypeOK, TriesRemain, Single, RepairsFit,
         NEW j \in Job, Reconcile(j) \/ ReconThrow(j)
  PROVE  RepairsFit'
<1> DEFINE q == j[1]
<1>1. q \in Post /\ j = JobOf(q)
      BY DEF Job, JobOf, Single, Tidy
<1>2. /\ UNCHANGED <<deliveries, remote, pc, run, failures>>
      /\ recon[j] \notin {"none", "done"} /\ recon'[j] # "none"
      /\ \A i \in Job \ {j} : recon'[i] = recon[i] /\ tries'[i] = tries[i] /\ found'[i] = found[i]
      /\ \A p \in Post \ {q} : status'[p] = status[p] /\ attempts'[p] = attempts[p]
      BY ReconTouches
<1> SUFFICES ASSUME Calm'
             PROVE  /\ \A i \in Job : jobState'[i] = "active" => owner'[i] # Nobody
                    /\ \A p \in Post \ MultiStep : PostFits(p)'
                    /\ \A w \in Worker : pc'[w] # "idle" /\ PostOf(w)' \notin MultiStep => WorkerFits(w)'
    BY DEF RepairsFit
<1>3. Calm
      BY <1>2 DEF Calm, Smooth, failures
<1>4. ASSUME NEW p \in Post \ {q}
      PROVE  (Unheard(p) => Unheard(p)') /\ (Reconciled(p) => Reconciled(p)')
             /\ recon'[JobOf(p)] = recon[JobOf(p)]
  <2>1. JobOf(p) \in Job \ {j}
        BY <1>1 DEF JobOf, Job, Single, Tidy
  <2> QED BY <1>2, <2>1, LeftAlone
<1>5. q \notin MultiStep => Reconciled(q) /\ Reconciled(q)'
  <2>1. q \notin MultiStep => Reconciled(q)
        BY <1>1, <1>2, <1>3 DEF RepairsFit, PostFits
  <2> QED BY <1>1, <2>1, StageByStage
<1>6. ASSUME NEW p \in Post \ MultiStep
      PROVE  PostFits(p)'
  <2>1. PostFits(p)
        BY <1>3 DEF RepairsFit
  <2>2. CASE p = q
    <3>1. jobState'[JobOf(q)] # "waiting"
          BY <1>1, <1>2, <2>1, <2>2 DEF PostFits, Unheard, deliveries
    <3> QED BY <1>5, <2>2, <3>1 DEF PostFits
  <2>3. CASE p # q
        BY <1>2, <1>4, <2>1, <2>3 DEF PostFits, deliveries, JobOf
  <2> QED BY <2>2, <2>3
<1>7. ASSUME NEW w \in Worker, pc[w] # "idle", PostOf(w) \notin MultiStep
      PROVE  WorkerFits(w)'
  <2>1. WorkerFits(w) /\ PostOf(w) \in Post /\ PostOf(w)' = PostOf(w)
        BY <1>2, <1>3, <1>7, PostOfType DEF RepairsFit, TypeInv, PostOf
  <2>2. CASE PostOf(w) = q
    <3>1. pc[w] \in Leaving /\ run[w].result # "rethrow"
          BY <1>1, <1>2, <1>7, <2>1, <2>2, OnlyLeaving
    <3>2. pc'[w] = pc[w] /\ run'[w] = run[w]
          BY <1>2
    <3> QED BY <1>5, <1>7, <2>1, <2>2, <3>1, <3>2 DEF WorkerFits, Leaving, Untold
  <2>3. CASE PostOf(w) # q
    <3>1. PICK p \in Post \ {q} : p = PostOf(w)
          BY <2>1, <2>3
    <3>2. (Unheard(p) => Unheard(p)') /\ (Reconciled(p) => Reconciled(p)')
          /\ recon'[JobOf(p)] = recon[JobOf(p)]
          BY <1>4
    <3>3. status'[p] = status[p] /\ remote' = remote /\ pc' = pc /\ run' = run
          BY <1>2
    <3> QED BY <2>1, <3>1, <3>2, <3>3 DEF WorkerFits, InDoubt, JobOf
  <2> QED BY <2>2, <2>3
<1> QED BY <1>2, <1>3, <1>6, <1>7 DEF RepairsFit, deliveries, PostOf

(* What a step of a worker leaves of the other posts.                      *)
LEMMA WorkersStayAtTheirPost ==
  ASSUME Tidy, TypeInv, NEW w \in Worker, Process(w), UNCHANGED reconVars,
         NEW p \in Post, p # PostOf(w)
  PROVE  /\ (Unheard(p) => Unheard(p)') /\ (Reconciled(p) => Reconciled(p)')
         /\ status'[p] = status[p] /\ remote'[p] = remote[p]
         /\ recon'[JobOf(p)] = recon[JobOf(p)] /\ jobState'[JobOf(p)] = jobState[JobOf(p)]
<1>1. /\ pc \in [Worker -> Steps] /\ run \in [Worker -> RunType] /\ remote \in [Post -> Nat]
      /\ recon \in [Job -> ReconSteps]
      /\ jobState \in [Job -> {"none", "waiting", "active", "completed", "failed"}]
      BY DEF TypeInv, WorkersTyped, PostsTyped, JobsTyped
<1>2. pc[w] # "idle"
      BY OnwardSteps, EndSteps DEF Process, Onward, Ends
<1>3. run[w].job \in Job /\ run[w].job # JobOf(p) /\ JobOf(p) \in Job
      BY <1>2 DEF TypeInv, WorkersTyped, BusyHaveJobs, PostOf, JobOf, Job, Tidy
<1>4. status'[p] = status[p]
      BY OnwardSteps, EndSteps DEF Process, Onward, Ends
<1>5. remote'[p] = remote[p]
  <2>1. CASE Call(w)
        BY <1>1, <2>1 DEF Call
  <2>2. CASE ~Call(w)
        BY <2>2 DEF Process, Acquire, Load, Begin, BeginParent, GetAdapters, Prepare, Fence,
           Commit,
                    Reject, Catch, After, ParentRead, ParentWrite, Release, Finish, OuterCatch, OuterDead
  <2> QED BY <2>1, <2>2
<1>6. recon'[JobOf(p)] = recon[JobOf(p)]
  <2>1. CASE After(w)
        BY <1>1, <1>3, <2>1 DEF After
  <2>2. CASE ~After(w)
        BY <2>2 DEF Process, Acquire, Load, Begin, BeginParent, GetAdapters, Prepare, Fence,
           Call, Commit,
                    Reject, Catch, ParentRead, ParentWrite, Release, Finish, OuterCatch, OuterDead
  <2> QED BY <2>1, <2>2
<1>7. jobState'[JobOf(p)] = jobState[JobOf(p)]
  <2>1. (\E s : Settle(w, s)) \/ jobState' = jobState
        BY DEF Process, Acquire, Load, Begin, BeginParent, GetAdapters, Prepare, Fence, Call,
           Commit,
               Reject, Catch, After, ParentRead, ParentWrite, Release, Finish, OuterCatch, OuterDead,
               SettleThrown, deliveries
  <2> QED BY <1>1, <1>3, <2>1 DEF Settle
<1> QED BY <1>4, <1>5, <1>6, <1>7, LeftAlone DEF reconVars

(* With one attempt there is no next one.                                  *)
LEMMA NeverAgain ==
  ASSUME TypeInv, Single, NEW w \in Worker, pc[w] # "idle", run[w].attempt > 0
  PROVE  Decision(w) # "RETRY"
<1>1. AttemptsOf(run[w].job) = 1 /\ run[w].attempt \in Nat
      BY DEF AttemptsOf, Single, TypeInv, WorkersTyped, RunType
<1> QED BY <1>1 DEF Decision, ActionOnError

(* Before anything came of the post, nothing does but by the call.         *)
LEMMA StillUnheard ==
  ASSUME TypeInv, NEW w \in Worker, NEW p \in Post, p = PostOf(w), PostOf(w)' = p,
         WorkerFits(w), pc[w] \in Untold, run'[w].attempt = run[w].attempt,
         pc'[w] \in Untold \cup Leaving \cup {"catch"},
         remote' = remote, recon' = recon, status'[p] \in {status[p], "PROCESSING", "FAILED"}
  PROVE  WorkerFits(w)' /\ Unheard(p)'
<1>1. Unheard(p)
      BY DEF WorkerFits
<1>2. Unheard(p)'
      BY <1>1 DEF Unheard, JobOf
<1>3. Reconciled(p)'
      BY <1>2 DEF Unheard, Reconciled, RowIsRight, InDoubt
<1> QED BY <1>2, <1>3 DEF WorkerFits, Unheard, Untold, Leaving

(* So does a step of a publish worker, about the post it publishes.        *)
LEMMA WalkingFits ==
  ASSUME TypeInv, Single, NEW w \in Worker, Onward(w), Process(w), UNCHANGED reconVars,
         NEW p \in Post, p = PostOf(w), p \notin MultiStep, WorkerFits(w),
         recon[JobOf(p)] # "none" => Reconciled(p)
  PROVE  WorkerFits(w)' /\ (recon'[JobOf(p)] # "none" => Reconciled(p)')
<1>1. /\ pc \in [Worker -> Steps] /\ run \in [Worker -> RunType]
      /\ status \in [Post -> PlatformPostStatuses] /\ remote \in [Post -> Nat]
      /\ recon \in [Job -> ReconSteps] /\ pc[w] # "idle" /\ pc'[w] # "idle"
      BY DEF TypeInv, WorkersTyped, PostsTyped, JobsTyped, Onward
<1>2. /\ PostOf(w)' = p /\ run'[w].attempt = run[w].attempt /\ run[w].attempt > 0
      BY DEF Onward, PostOf, WorkerFits
<1>3. run[w].job = JobOf(p) /\ JobOf(p) \in Job
      BY <1>1 DEF TypeInv, WorkersTyped, BusyHaveJobs, PostOf, JobOf, Job, Single, Tidy
<1>4. Decision(w) # "RETRY"
      BY <1>1, <1>2, NeverAgain
<1>5. ASSUME pc[w] \in Untold, pc'[w] \in Untold \cup Leaving \cup {"catch"},
             remote' = remote, recon' = recon, status'[p] \in {status[p], "PROCESSING", "FAILED"}
      PROVE  WorkerFits(w)' /\ (recon'[JobOf(p)] # "none" => Reconciled(p)')
      BY <1>2, <1>5, StillUnheard DEF Unheard
<1>6. CASE Acquire(w) \/ Load(w) \/ BeginParent(w) \/ GetAdapters(w) \/ Prepare(w) \/ Fence(w)
           \/ OuterCatch(w)
  <2>1. /\ pc[w] \in Untold /\ pc'[w] \in Untold \cup Leaving \cup {"catch"}
        BY <1>1, <1>4, <1>6 DEF Acquire, Load, BeginParent, GetAdapters, Prepare, Fence,
           OuterCatch, At, Go,
                           GoWith, Throw, Untold, Leaving
  <2>2. UNCHANGED <<remote, recon, status>>
        BY <1>6 DEF Acquire, Load, BeginParent, GetAdapters, Prepare, Fence, OuterCatch, dbVars
  <2> QED BY <1>5, <2>1, <2>2
<1>7. CASE Begin(w) \/ Reject(w)
  <2>1. /\ pc[w] \in Untold /\ pc'[w] \in Untold \cup Leaving
        /\ status'[p] \in {"PROCESSING", "FAILED"} /\ UNCHANGED <<remote, recon>>
        BY <1>1, <1>7 DEF Begin, Reject, At, Go, Untold, Leaving
  <2> QED BY <1>5, <2>1
<1>8. CASE Call(w)
  <2>1. pc[w] = "call" /\ recon' = recon /\ status' = status
        BY <1>8 DEF Call, At, dbVars
  <2>2. Unheard(p)
        BY <2>1 DEF WorkerFits, Untold
  <2>3. ASSUME remote' = [remote EXCEPT ![p] = @ + 1], Go(w, "commit")
        PROVE  WorkerFits(w)' /\ recon'[JobOf(p)] = "none"
    <3>1. pc'[w] = "commit" /\ remote'[p] > 0 /\ recon'[JobOf(p)] = "none"
          BY <1>1, <2>1, <2>2, <2>3 DEF Go, Unheard
    <3> QED BY <1>2, <3>1 DEF WorkerFits, Untold, Leaving
  <2>4. ASSUME NEW e \in PublishErrors, MayHavePublished(p, e), Go(w, "catch"),
               run' = [run EXCEPT ![w].err = e]
        PROVE  WorkerFits(w)' /\ recon'[JobOf(p)] = "none"
    <3>1. pc'[w] = "catch" /\ run'[w].err = "NETWORK" /\ recon'[JobOf(p)] = "none"
          BY <1>1, <2>1, <2>2, <2>4 DEF Go, Unheard, MayHavePublished, RunType
    <3>2. status'[p] \notin {"PUBLISHED", "REMOTE_RESULT_UNKNOWN"}
          BY <2>1, <2>2 DEF Unheard
    <3> QED BY <1>2, <3>1, <3>2 DEF WorkerFits, Untold, Leaving
  <2>5. ASSUME Go(w, "catch"), UNCHANGED remote
        PROVE  WorkerFits(w)' /\ (recon'[JobOf(p)] # "none" => Reconciled(p)')
    <3>1. pc[w] \in Untold /\ pc'[w] = "catch"
          BY <1>1, <2>1, <2>5 DEF Go, Untold
    <3> QED BY <1>5, <2>1, <2>5, <3>1
  <2> QED BY <1>8, <2>3, <2>4, <2>5 DEF Call
<1>9. CASE Commit(w)
  <2>1. /\ pc[w] = "commit" /\ pc'[w] = "parentRead" /\ status'[p] = "PUBLISHED" /\ run'[w].result = "published"
        /\ UNCHANGED <<remote, recon>>
        BY <1>1, <1>9 DEF Commit, At, Go, RunType
  <2>2. recon[JobOf(p)] = "none" /\ remote[p] > 0
        BY <2>1 DEF WorkerFits
  <2>3. Reconciled(p)'
        BY <2>1, <2>2 DEF Reconciled, RowIsRight, InDoubt, JobOf
  <2> QED BY <1>2, <2>1, <2>3 DEF WorkerFits, Untold, Leaving
<1>10. CASE Catch(w)
  <2>1. /\ pc[w] = "catch" /\ pc'[w] = "after" /\ run'[w].err = run[w].err /\ UNCHANGED <<remote, recon>>
        /\ status'[p] = IF run[w].err = "NETWORK" THEN "REMOTE_RESULT_UNKNOWN" ELSE "FAILED"
        BY <1>1, <1>4, <1>10 DEF Catch, At, Go, RunType, RemoteUnknown
  <2>2. recon[JobOf(p)] = "none" /\ (remote[p] > 0 => run[w].err = "NETWORK") /\ remote[p] \in Nat
        BY <1>1, <2>1 DEF WorkerFits
  <2>3. IF run'[w].err = "NETWORK" THEN InDoubt(p)' ELSE Unheard(p)'
        BY <2>1, <2>2 DEF InDoubt, Unheard, JobOf
  <2> QED BY <1>2, <2>1, <2>2, <2>3 DEF WorkerFits, Untold, Leaving
<1>11. CASE After(w)
  <2>1. /\ pc[w] = "after" /\ pc'[w] = "parentRead" /\ run'[w].result = "failed" /\ UNCHANGED <<remote, status>>
        BY <1>1, <1>4, <1>11 DEF After, At, Go, GoWith, RunType
  <2>2. recon[JobOf(p)] = "none"
        BY <2>1 DEF WorkerFits
  <2>3. recon'[JobOf(p)] = IF run[w].err = "NETWORK" THEN "waiting" ELSE "none"
        BY <1>1, <1>3, <1>11, <2>2 DEF After, RemoteUnknown
  <2>4. IF run[w].err = "NETWORK" THEN InDoubt(p)' ELSE Unheard(p) /\ UNCHANGED <<status, remote>>
        BY <2>1 DEF WorkerFits, InDoubt
  <2>5. Reconciled(p)'
        BY <2>3, <2>4 DEF Reconciled, RowIsRight, InDoubt, Unheard
  <2> QED BY <1>2, <2>1, <2>5 DEF WorkerFits, Untold, Leaving
<1>12. CASE ParentRead(w) \/ ParentWrite(w) \/ Release(w)
  <2>1. /\ pc[w] \in Leaving /\ run'[w].result = run[w].result /\ UNCHANGED <<status, remote, recon>>
        /\ pc'[w] \in Leaving \/ (pc'[w] = "outer" /\ run[w].result = "rethrow")
        BY <1>1, <1>12 DEF ParentRead, ParentWrite, Release, At, Go, Leaving, dbVars, RunType
  <2>2. (Unheard(p) => Unheard(p)') /\ (Reconciled(p) => Reconciled(p)')
        BY <2>1, LeftAlone DEF reconVars
  <2>3. Reconciled(p)' /\ (run[w].result = "rethrow" => Unheard(p)')
        BY <2>1, <2>2 DEF WorkerFits
  <2> QED BY <1>2, <2>1, <2>3 DEF WorkerFits, Untold, Leaving
<1>13. ~Finish(w) /\ ~OuterDead(w)
      BY EndSteps DEF Onward, Ends
<1> QED BY <1>6, <1>7, <1>8, <1>9, <1>10, <1>11, <1>12, <1>13 DEF Process

(* A worker that gives its job back has said what became of the post.      *)
LEMMA EndingFits ==
  ASSUME TypeInv, Single, AllOwn, NEW w \in Worker, Finish(w) \/ OuterDead(w), UNCHANGED reconVars,
         NEW p \in Post, p = PostOf(w), WorkerFits(w)
  PROVE  PostFits(p)'
<1>1. /\ pc \in [Worker -> Steps] /\ recon \in [Job -> ReconSteps] /\ status \in [Post -> PlatformPostStatuses]
      /\ jobState \in [Job -> {"none", "waiting", "active", "completed", "failed"}]
      BY DEF TypeInv, WorkersTyped, PostsTyped, JobsTyped
<1>2. pc[w] \in {"finish", "dead"}
      BY DEF Finish, OuterDead, At
<1>3. run[w].job = JobOf(p) /\ JobOf(p) \in Job /\ owner[JobOf(p)] = w
      BY <1>2 DEF TypeInv, WorkersTyped, BusyHaveJobs, PostOf, JobOf, Job, Single, Tidy,
         AllOwn, OwnsJob
<1>4. /\ jobState'[JobOf(p)] \in {"completed", "failed"}
      BY <1>1, <1>3 DEF Finish, OuterDead, Settle, Owns
<1>5. Reconciled(p)'
  <2>1. CASE Finish(w)
    <3>1. Reconciled(p)
          BY <2>1 DEF Finish, At, WorkerFits, Leaving
    <3>2. UNCHANGED <<status, remote, recon>>
          BY <2>1 DEF Finish, dbVars
    <3> QED BY <3>1, <3>2, LeftAlone DEF reconVars
  <2>2. CASE OuterDead(w)
    <3>1. Unheard(p)
          BY <2>2 DEF OuterDead, At, WorkerFits, Untold
    <3>2. status'[p] = "FAILED" /\ UNCHANGED <<remote, recon>>
          BY <1>1, <2>2 DEF OuterDead
    <3> QED BY <3>1, <3>2 DEF Unheard, Reconciled, RowIsRight, InDoubt, JobOf
  <2> QED BY <2>1, <2>2
<1> QED BY <1>4, <1>5 DEF PostFits

(* Whoever is given a job finds its post as it was.                        *)
LEMMA TakingFits ==
  ASSUME TypeInv, Single, AllOwn, Calm, RepairsFit, NEW w \in Worker, NEW j \in Job, Take(w, j),
         UNCHANGED reconVars
  PROVE  /\ \A i \in Job : jobState'[i] = "active" => owner'[i] # Nobody
         /\ \A p \in Post \ MultiStep : PostFits(p)'
         /\ \A v \in Worker : pc'[v] # "idle" /\ PostOf(v)' \notin MultiStep => WorkerFits(v)'
<1>1. /\ pc \in [Worker -> Steps] /\ run \in [Worker -> RunType] /\ made \in [Job -> Nat]
      /\ jobState \in [Job -> {"none", "waiting", "active", "completed", "failed"}]
      /\ owner \in [Job -> Worker \cup {Nobody}]
      BY DEF TypeInv, WorkersTyped, JobsTyped
<1>2. /\ UNCHANGED <<status, remote, recon>> /\ jobState[j] = "waiting" /\ jobState'[j] = "active"
      /\ owner'[j] = w /\ pc'[w] = "lock" /\ run'[w] = Invocation(j, made[j] + 1)
      /\ \A i \in Job \ {j} : jobState'[i] = jobState[i] /\ owner'[i] = owner[i]
      /\ \A v \in Worker \ {w} : pc'[v] = pc[v] /\ run'[v] = run[v]
      BY <1>1 DEF Take, Go, dbVars
<1>3. PICK q \in Post : j = JobOf(q) /\ j[1] = q
      BY DEF Job, JobOf, Single, Tidy
<1>4. ASSUME NEW p \in Post
      PROVE  (Unheard(p) <=> Unheard(p)') /\ (Reconciled(p) <=> Reconciled(p)')
      BY <1>2 DEF Unheard, Reconciled, RowIsRight, InDoubt, reconVars
<1>5. ASSUME NEW p \in Post \ MultiStep
      PROVE  PostFits(p)'
  <2>1. PostFits(p)
        BY DEF RepairsFit
  <2>2. CASE p = q
        BY <1>2, <1>3, <1>4, <2>1, <2>2 DEF PostFits
  <2>3. CASE p # q
    <3>1. JobOf(p) \in Job \ {j}
          BY <1>3, <2>3 DEF JobOf, Job, Single, Tidy
    <3> QED BY <1>2, <1>4, <2>1, <3>1 DEF PostFits
  <2> QED BY <2>2, <2>3
<1>6. ASSUME NEW v \in Worker, pc'[v] # "idle", PostOf(v)' \notin MultiStep
      PROVE  WorkerFits(v)'
  <2>1. CASE v = w
    <3>1. PostOf(w)' = q /\ run'[w].attempt > 0
          BY <1>1, <1>2, <1>3 DEF PostOf, Invocation
    <3>2. Unheard(q)
          BY <1>2, <1>3, <1>6, <2>1, <3>1 DEF RepairsFit, PostFits
    <3>3. Unheard(q)'
          BY <1>4, <3>2
    <3> QED BY <1>2, <2>1, <3>1, <3>3 DEF WorkerFits, Leaving
  <2>2. CASE v # w
    <3>1. pc'[v] = pc[v] /\ run'[v] = run[v]
          BY <1>2, <2>2
    <3>2. WorkerFits(v) /\ PostOf(v) \in Post /\ PostOf(v)' = PostOf(v)
          BY <1>6, <3>1, PostOfType DEF RepairsFit, TypeInv, PostOf
    <3>3. PICK p \in Post : p = PostOf(v)
          BY <3>2
    <3> QED BY <1>2, <1>4, <3>1, <3>2, <3>3 DEF WorkerFits, InDoubt
  <2> QED BY <2>1, <2>2
<1>7. \A i \in Job : jobState'[i] = "active" => owner'[i] # Nobody
      BY <1>2, PublishWorkerAssumption DEF RepairsFit
<1> QED BY <1>5, <1>6, <1>7

(* A step of a worker is about its own post.                               *)
LEMMA WorkingFits ==
  ASSUME TypeInv, Single, AllOwn, Calm, RepairsFit, NEW w \in Worker, Process(w), UNCHANGED reconVars
  PROVE  /\ \A i \in Job : jobState'[i] = "active" => owner'[i] # Nobody
         /\ \A p \in Post \ MultiStep : PostFits(p)'
         /\ \A v \in Worker : pc'[v] # "idle" /\ PostOf(v)' \notin MultiStep => WorkerFits(v)'
<1>1. /\ pc \in [Worker -> Steps] /\ run \in [Worker -> RunType]
      /\ jobState \in [Job -> {"none", "waiting", "active", "completed", "failed"}]
      /\ owner \in [Job -> Worker \cup {Nobody}]
      BY DEF TypeInv, WorkersTyped, JobsTyped
<1>2. Onward(w) \/ (Finish(w) \/ OuterDead(w) \/ (OuterCatch(w) /\ Decision(w) = "RETRY"))
      BY OnwardSteps DEF Process
<1>3. Onward(w) \/ Ends(w)
      BY <1>2, EndSteps
<1>4. /\ pc[w] # "idle"
      /\ \A v \in Worker \ {w} : pc'[v] = pc[v] /\ run'[v] = run[v]
      BY <1>3 DEF Onward, Ends
<1>5. PICK q \in Post : q = PostOf(w)
      BY <1>4, PostOfType DEF TypeInv
<1>6. run[w].job = JobOf(q) /\ JobOf(q) \in Job /\ owner[JobOf(q)] = w /\ jobState[JobOf(q)] = "active"
      BY <1>4, <1>5 DEF TypeInv, WorkersTyped, BusyHaveJobs, PostOf, JobOf, Job, Single, Tidy,
         AllOwn, OwnsJob
<1>7. ASSUME NEW p \in Post \ {q}
      PROVE  /\ (Unheard(p) => Unheard(p)') /\ (Reconciled(p) => Reconciled(p)')
             /\ status'[p] = status[p] /\ remote'[p] = remote[p]
             /\ recon'[JobOf(p)] = recon[JobOf(p)] /\ jobState'[JobOf(p)] = jobState[JobOf(p)]
      BY <1>5, WorkersStayAtTheirPost DEF Single
<1>8. ASSUME q \notin MultiStep
      PROVE  PostFits(q)' /\ (pc'[w] # "idle" => WorkerFits(w)')
  <2>1. WorkerFits(w) /\ PostFits(q)
        BY <1>4, <1>5, <1>8 DEF RepairsFit
  <2>2. CASE Onward(w)
    <3>1. recon[JobOf(q)] # "none" => Reconciled(q)
          BY <2>1 DEF PostFits
    <3>2. WorkerFits(w)' /\ (recon'[JobOf(q)] # "none" => Reconciled(q)')
          BY <1>5, <1>8, <2>1, <2>2, <3>1, WalkingFits
    <3>3. jobState'[JobOf(q)] = "active"
          BY <1>6, <2>2 DEF Onward, deliveries
    <3> QED BY <3>2, <3>3 DEF PostFits
  <2>3. CASE OuterCatch(w) /\ Decision(w) = "RETRY"
        BY <1>4, <2>1, <2>3, NeverAgain DEF WorkerFits
  <2>4. CASE Finish(w) \/ OuterDead(w)
    <3>1. PostFits(q)'
          BY <1>5, <2>1, <2>4, EndingFits
    <3>2. pc'[w] = "idle"
          BY <2>4, EndSteps DEF Ends
    <3> QED BY <3>1, <3>2
  <2> QED BY <1>2, <2>2, <2>3, <2>4
<1>9. ASSUME NEW p \in Post \ MultiStep
      PROVE  PostFits(p)'
  <2>1. CASE p = q
        BY <1>8, <2>1
  <2>2. CASE p # q
    <3>1. PostFits(p)
          BY DEF RepairsFit
    <3> QED BY <1>7, <2>2, <3>1 DEF PostFits
  <2> QED BY <2>1, <2>2
<1>10. ASSUME NEW v \in Worker \ {w}, pc'[v] # "idle", PostOf(v)' \notin MultiStep
       PROVE  WorkerFits(v)'
  <2>1. pc'[v] = pc[v] /\ run'[v] = run[v] /\ PostOf(v)' = PostOf(v)
        BY <1>4 DEF PostOf
  <2>2. PostOf(v) # PostOf(w) /\ PostOf(v) \in Post /\ WorkerFits(v)
        BY <1>4, <1>10, <2>1, OwnPosts DEF RepairsFit, Single
  <2>3. PICK p \in Post \ {q} : p = PostOf(v)
        BY <1>5, <2>2
  <2>4. /\ (Unheard(p) => Unheard(p)') /\ (Reconciled(p) => Reconciled(p)')
        /\ status'[p] = status[p] /\ remote'[p] = remote[p]
        /\ recon'[JobOf(p)] = recon[JobOf(p)]
        BY <1>7
  <2> QED BY <2>1, <2>2, <2>3, <2>4 DEF WorkerFits, InDoubt
<1>11. PostOf(w)' = PostOf(w) \/ pc'[w] = "idle"
       BY <1>3 DEF Onward, Ends, PostOf
<1>12. ASSUME NEW i \in Job, jobState'[i] = "active"
       PROVE  owner'[i] # Nobody
  <2>1. CASE Onward(w)
        BY <1>12, <2>1 DEF Onward, deliveries, RepairsFit
  <2>2. CASE Ends(w)
    <3>1. CASE owner[i] # w
          BY <1>12, <2>2, <3>1 DEF Ends, RepairsFit
    <3>2. CASE owner[i] = w
      <4>1. UNCHANGED <<jobState, owner>> \/ (\E s : Settle(w, s) /\ s \in {"waiting", "completed", "failed"})
            BY <1>2, <1>4, <2>2 DEF Onward, Ends, Finish, OuterCatch, OuterDead, SettleThrown
      <4>2. ASSUME NEW s \in {"waiting", "completed", "failed"}, Settle(w, s), i = JobOf(q)
            PROVE  FALSE
            BY <1>1, <1>6, <1>12, <4>2 DEF Settle, Owns
      <4>3. ASSUME i # JobOf(q)
            PROVE  jobState'[i] = jobState[i] /\ owner'[i] = owner[i]
            BY <1>1, <1>6, <4>1, <4>3 DEF Settle
      <4> QED BY <1>12, <4>1, <4>2, <4>3 DEF RepairsFit
    <3> QED BY <3>1, <3>2
  <2> QED BY <1>3, <2>1, <2>2
<1> QED BY <1>5, <1>8, <1>9, <1>10, <1>11, <1>12

(* Whatever the workers do.                                                *)
LEMMA WorkersKeepFits ==
  ASSUME TypeInv, Single, AllOwn, RepairsFit, [Next]_vars, UNCHANGED reconVars
  PROVE  RepairsFit'
<1> SUFFICES ASSUME Calm'
             PROVE  /\ \A i \in Job : jobState'[i] = "active" => owner'[i] # Nobody
                    /\ \A p \in Post \ MultiStep : PostFits(p)'
                    /\ \A w \in Worker : pc'[w] # "idle" /\ PostOf(w)' \notin MultiStep => WorkerFits(w)'
    BY DEF RepairsFit
<1>1. /\ Calm
      /\ \A w \in Worker : ~Fault(w) /\ ~Crash(w)
      /\ \A p \in Post : ~Lapse(p)
      BY SmoothBefore DEF Calm
<1>2. ~Retry
      BY DEF Retry, Single, Tidy
<1>3. \A j \in Job : ~Stall(j)
      BY <1>1 DEF Stall, RepairsFit, Single, Tidy
<1>4. CASE (\E p \in Post : Expire(p)) \/ UNCHANGED vars
  <2>1. UNCHANGED <<status, remote, recon, pc, run, jobState, owner>>
        BY <1>4 DEF Expire, vars, dbVars, deliveries
  <2>2. \A p \in Post : /\ (Unheard(p) <=> Unheard(p)') /\ (Reconciled(p) <=> Reconciled(p)')
                        /\ (InDoubt(p) <=> InDoubt(p)')
        BY <2>1 DEF Unheard, Reconciled, RowIsRight, InDoubt, reconVars
  <2>3. \A p \in Post \ MultiStep : PostFits(p)'
        BY <1>1, <2>1, <2>2 DEF RepairsFit, PostFits
  <2>4. ASSUME NEW w \in Worker, pc'[w] # "idle", PostOf(w)' \notin MultiStep
        PROVE  WorkerFits(w)'
    <3>1. WorkerFits(w) /\ PostOf(w) \in Post /\ PostOf(w)' = PostOf(w)
          BY <1>1, <2>1, <2>4, PostOfType DEF RepairsFit, TypeInv, PostOf
    <3>2. PICK p \in Post : p = PostOf(w)
          BY <3>1
    <3> QED BY <2>1, <2>2, <3>1, <3>2 DEF WorkerFits
  <2> QED BY <1>1, <2>1, <2>3, <2>4 DEF RepairsFit
<1>5. ASSUME NEW w \in Worker, NEW j \in Job, Take(w, j)
      PROVE  /\ \A i \in Job : jobState'[i] = "active" => owner'[i] # Nobody
             /\ \A p \in Post \ MultiStep : PostFits(p)'
             /\ \A v \in Worker : pc'[v] # "idle" /\ PostOf(v)' \notin MultiStep => WorkerFits(v)'
      BY <1>1, <1>5, TakingFits
<1>6. ASSUME NEW w \in Worker, Process(w)
      PROVE  /\ \A i \in Job : jobState'[i] = "active" => owner'[i] # Nobody
             /\ \A p \in Post \ MultiStep : PostFits(p)'
             /\ \A v \in Worker : pc'[v] # "idle" /\ PostOf(v)' \notin MultiStep => WorkerFits(v)'
      BY <1>1, <1>6, WorkingFits
<1> QED BY <1>1, <1>2, <1>3, <1>4, <1>5, <1>6 DEF Next
-----------------------------------------------------------------------------
(* It holds when the posts are queued ...                                  *)
LEMMA RepairInvInit == ReconInit => RepairInv
<1> SUFFICES ASSUME ReconInit PROVE RepairInv
    OBVIOUS
<1>1. Init /\ TypeInv
      BY InvInit DEF ReconInit, PublishInv
<1>2. NoFinding \in Findings
      BY DEF NoFinding, Findings
<1>3. ReconTypeOK /\ TriesRemain
      BY <1>2, ReconciliationAssumption DEF ReconInit, ReconTypeOK, TriesRemain, Findings
<1>4. Tidy => AllOwn
      BY <1>1 DEF Init, AllOwn, OwnsJob
<1>5. Single => RepairsFit
  <2> SUFFICES ASSUME Single PROVE RepairsFit
      OBVIOUS
  <2>1. \A p \in Post : /\ JobOf(p) \in Job /\ jobState[JobOf(p)] = "waiting"
                        /\ Unheard(p) /\ recon[JobOf(p)] = "none"
        BY <1>1 DEF Init, JobOf, Job, Single, Tidy, Unheard
  <2>2. \A p \in Post : PostFits(p)
        BY <2>1 DEF PostFits
  <2>3. (\A w \in Worker : pc[w] = "idle") /\ \A j \in Job : jobState[j] # "active"
        BY <1>1 DEF Init
  <2> QED BY <2>2, <2>3 DEF RepairsFit
<1> QED BY <1>1, <1>3, <1>4, <1>5 DEF RepairInv

(* ... and every step keeps it.                                            *)
LEMMA RepairInvStep == RepairInv /\ [ReconNext]_allVars => RepairInv'
<1> SUFFICES ASSUME RepairInv, [ReconNext]_allVars PROVE RepairInv'
    OBVIOUS
<1>1. CASE [Next]_vars /\ UNCHANGED reconVars
  <2>1. TypeInv'
        BY <1>1, TypeNext DEF RepairInv
  <2>2. ReconTypeOK'
        BY <1>1 DEF RepairInv, ReconTypeOK, reconVars
  <2>3. TriesRemain'
    <3>1. ASSUME NEW j \in Job, recon'[j] # "done"
          PROVE  tries'[j] < MaxTries
      <4>1. recon[j] # "done"
            BY <1>1, <3>1, WorkersOnlyAskFor DEF RepairInv
      <4> QED BY <1>1, <4>1 DEF RepairInv, TriesRemain, reconVars
    <3> QED BY <3>1 DEF TriesRemain
  <2>4. Tidy => AllOwn'
        BY <1>1, OwnNext DEF RepairInv
  <2>5. Single => RepairsFit'
        BY <1>1, WorkersKeepFits DEF RepairInv, Single
  <2> QED BY <2>1, <2>2, <2>3, <2>4, <2>5 DEF RepairInv, Single, Tidy
<1>2. ASSUME NEW j \in Job, Reconcile(j) \/ ReconThrow(j)
      PROVE  RepairInv'
  <2>1. TypeInv' /\ ReconTypeOK' /\ TriesRemain'
        BY <1>2, ReconTypesKept DEF RepairInv
  <2>2. UNCHANGED <<deliveries, pc, run>>
        BY <1>2, ReconTouches DEF RepairInv
  <2>3. Tidy => AllOwn'
        BY <2>2 DEF RepairInv, AllOwn, OwnsJob, deliveries
  <2>4. Single => RepairsFit'
        BY <1>2, ReconKeepsFits DEF RepairInv
  <2> QED BY <2>1, <2>3, <2>4 DEF RepairInv, Single, Tidy
<1> QED BY <1>1, <1>2 DEF ReconNext, allVars

(* Hence it holds throughout.                                              *)
LEMMA RepairInvHolds == ReconSpec => []RepairInv
BY RepairInvInit, RepairInvStep, PTL DEF ReconSpec

(* Nothing the processor keeps of a job leaves its type, and no job is     *)
(* tried more often than it may be.                                        *)
THEOREM ReconTypesHold == ReconSpec => []ReconTypeOK
<1>1. RepairInv => ReconTypeOK
      BY DEF RepairInv
<1> QED BY <1>1, RepairInvHolds, PTL

(* When a publish job is not tried again and nothing but the processor     *)
(* itself fails, the processor settles every answer that was lost: in the  *)
(* end the row says PUBLISHED if and only if the post is on its platform,  *)
(* or it is still in doubt and somebody asked in vain.  For any number of  *)
(* posts and workers, whatever answers and tries the processor is given.   *)
THEOREM RepairsHold == ReconSpec => []ReconciliationRepairs
<1>1. RepairInv => ReconciliationRepairs
  <2> SUFFICES ASSUME RepairInv, ReconQuiet, Orderly, crashes = 0, MaxAttempts = 1,
                      NEW p \in Supported \ MultiStep
               PROVE  \/ status[p] = "PUBLISHED" <=> remote[p] > 0
                      \/ /\ status[p] = "REMOTE_RESULT_UNKNOWN"
                         /\ attempts[p] > 0 \/ \E j \in Job : j[1] = p /\ tries[j] = MaxTries
      BY DEF ReconciliationRepairs
  <2>1. Single /\ Calm /\ p \in Post \ MultiStep
        BY ReconciliationAssumption DEF Orderly, Single, Tidy, Calm, Smooth
  <2>2. JobOf(p) \in Job /\ JobOf(p)[1] = p
        BY <2>1 DEF JobOf, Job, Single, Tidy
  <2>3. PostFits(p) /\ jobState[JobOf(p)] \notin {"waiting", "active"}
        BY <2>1, <2>2 DEF RepairInv, RepairsFit, ReconQuiet, Quiet
  <2>4. Reconciled(p) /\ recon[JobOf(p)] \in {"none", "done"}
        BY <2>2, <2>3 DEF PostFits, ReconQuiet
  <2> QED BY <2>2, <2>4 DEF Reconciled, RowIsRight, InDoubt
<1> QED BY <1>1, RepairInvHolds, PTL
=============================================================================
