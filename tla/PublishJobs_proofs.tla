------------------------- MODULE PublishJobs_proofs -------------------------
(***************************************************************************)
(* What holds of the jobs, for any number of posts, workers and attempts.  *)
(*                                                                         *)
(* Whatever fails: every call is one of a delivery, and the deliveries of  *)
(* a job are bounded.                                                      *)
(*                                                                         *)
(* When no job runs twice at a time (Orderly): each post has one worker,   *)
(* which owns its job; what that worker found or wrote about the post      *)
(* stays true until it stops; and so a content post that says PUBLISHED    *)
(* is, and a job that is over agrees with its post.                        *)
(***************************************************************************)
EXTENDS PublishWorker_proofs, FiniteSetTheorems

(* The deliveries of a job so far: those that were settled, those that     *)
(* stalled, and the one under way.                                         *)
Takes(j) == made[j] + stalls[j] + IF jobState[j] = "active" THEN 1 ELSE 0

Budget(j) ==
  /\ jobState[j] # "active" => owner[j] = Nobody
  /\ jobState[j] = "none" => made[j] = 0 /\ stalls[j] = 0
  /\ jobState[j] \in {"waiting", "active"} => made[j] < AttemptsOf(j) /\ stalls[j] <= 1
  /\ Takes(j) <= AttemptsOf(j) + 1

Budgets == \A j \in Job : Budget(j)

(* A worker that gives its job back leaves the number of deliveries alone. *)
LEMMA SettleInBudget ==
  ASSUME TypeInv, Budgets, NEW w \in Worker, run[w].job \in Job, UNCHANGED stalls,
         \/ Settle(w, "completed") \/ Settle(w, "failed") \/ SettleThrown(w)
         \/ UNCHANGED <<jobState, owner, made>>
  PROVE  \A j \in Job : Budget(j)' /\ Takes(j)' = Takes(j)
<1>1. /\ jobState \in [Job -> {"none", "waiting", "active", "completed", "failed"}]
      /\ made \in [Job -> Nat] /\ stalls \in [Job -> Nat] /\ owner \in [Job -> Worker \cup {Nobody}]
  BY DEF TypeInv, JobsTyped
<1>2. SUFFICES ASSUME NEW j \in Job PROVE Budget(j)' /\ Takes(j)' = Takes(j)
  OBVIOUS
<1>3. Budget(j) /\ AttemptsOf(j) \in Nat
  BY PublishWorkerAssumption DEF Budgets, AttemptsOf
<1>4. CASE jobState'[j] = jobState[j] /\ owner'[j] = owner[j] /\ made'[j] = made[j]
  BY <1>3, <1>4 DEF Budget, Takes
<1>5. CASE /\ j = run[w].job /\ owner[j] = w
           /\ made'[j] = made[j] + 1 /\ owner'[j] = Nobody
           /\ jobState'[j] \in {"completed", "failed", "waiting"}
           /\ jobState'[j] = "waiting" => made[j] + 1 < AttemptsOf(j)
  <2>1. jobState[j] = "active"
    BY <1>3, <1>5, PublishWorkerAssumption DEF Budget
  <2>2. Takes(j)' = Takes(j)
    BY <1>1, <1>5, <2>1 DEF Takes
  <2> QED
    BY <1>1, <1>3, <1>5, <2>1, <2>2 DEF Budget
<1> QED
  BY <1>1, <1>4, <1>5 DEF Settle, SettleThrown, Owns

(* A delivery counts one; no other step takes one back.                    *)
LEMMA DeliveriesCount ==
  ASSUME TypeInv, Budgets, [Next]_vars
  PROVE  /\ Budgets'
         /\ \A j \in Job : Takes(j)' >= Takes(j)
         /\ \A w \in Worker, j \in Job : Take(w, j) => Takes(j)' = Takes(j) + 1
<1>1. /\ jobState \in [Job -> {"none", "waiting", "active", "completed", "failed"}]
      /\ made \in [Job -> Nat] /\ stalls \in [Job -> Nat] /\ owner \in [Job -> Worker \cup {Nobody}]
      /\ \A j \in Job : Takes(j) \in Nat /\ AttemptsOf(j) \in Nat \ {0}
  BY PublishWorkerAssumption DEF TypeInv, JobsTyped, Takes, AttemptsOf
<1>2. ASSUME NEW w \in Worker, NEW j \in Job, Take(w, j)
      PROVE  /\ Budgets' /\ Takes(j)' = Takes(j) + 1
             /\ \A k \in Job : Takes(k)' >= Takes(k)
  <2>1. /\ jobState[j] = "waiting" /\ jobState'[j] = "active" /\ UNCHANGED <<made, stalls>>
        /\ \A k \in Job \ {j} : jobState'[k] = jobState[k] /\ owner'[k] = owner[k]
    BY <1>1, <1>2 DEF Take
  <2>2. Takes(j)' = Takes(j) + 1 /\ \A k \in Job \ {j} : Takes(k)' = Takes(k)
    BY <1>1, <2>1 DEF Takes
  <2>3. Budget(j)'
    BY <1>1, <2>1, <2>2 DEF Budgets, Budget, Takes
  <2>4. \A k \in Job \ {j} : Budget(k)'
    BY <2>1, <2>2 DEF Budgets, Budget
  <2> QED
    BY <1>1, <2>2, <2>3, <2>4 DEF Budgets
<1>3. ASSUME NEW w \in Worker, Process(w) \/ Fault(w)
      PROVE  Budgets' /\ \A j \in Job : Takes(j)' >= Takes(j)
  <2>1. pc[w] # "idle" /\ UNCHANGED stalls
    BY <1>3 DEF Process, Acquire, Load, Begin, BeginParent, GetAdapters, Prepare, Fence, Call, Commit,
           Reject, Catch, After, ParentRead, ParentWrite, Release, Finish, OuterCatch, OuterDead,
           Fault, InInnerTry, InSection, At, deliveries
  <2>2. \/ Settle(w, "completed") \/ Settle(w, "failed") \/ SettleThrown(w)
        \/ UNCHANGED <<jobState, owner, made>>
    BY <1>3 DEF Process, Acquire, Load, Begin, BeginParent, GetAdapters, Prepare, Fence, Call, Commit,
           Reject, Catch, After, ParentRead, ParentWrite, Release, Finish, OuterCatch, OuterDead,
           Fault, deliveries
  <2>3. run[w].job \in Job
    BY <2>1 DEF TypeInv, WorkersTyped, BusyHaveJobs
  <2> QED
    BY <1>1, <2>1, <2>2, <2>3, SettleInBudget DEF Budgets
<1>4. ASSUME NEW w \in Worker, Crash(w)
      PROVE  Budgets' /\ \A j \in Job : Takes(j)' >= Takes(j)
  <2>1. /\ UNCHANGED <<jobState, made, stalls>>
        /\ \A j \in Job : owner[j] = Nobody => owner'[j] = Nobody
    BY <1>1, <1>4 DEF Crash
  <2> QED
    BY <1>1, <2>1 DEF Budgets, Budget, Takes
<1>5. ASSUME NEW j \in Job, Stall(j)
      PROVE  Budgets' /\ \A k \in Job : Takes(k)' >= Takes(k)
  <2>1. /\ jobState[j] = "active" /\ made' = made /\ stalls'[j] = stalls[j] + 1 /\ owner'[j] = Nobody
        /\ jobState'[j] = IF stalls[j] = 0 THEN "waiting" ELSE "failed"
        /\ \A k \in Job \ {j} : /\ jobState'[k] = jobState[k] /\ owner'[k] = owner[k]
                                /\ stalls'[k] = stalls[k]
    BY <1>1, <1>5 DEF Stall
  <2>2. \A k \in Job : Takes(k)' = Takes(k)
    BY <1>1, <2>1 DEF Takes
  <2>3. Budget(j)'
    BY <1>1, <2>1, <2>2 DEF Budgets, Budget
  <2>4. \A k \in Job \ {j} : Budget(k)'
    BY <2>1, <2>2 DEF Budgets, Budget
  <2> QED
    BY <1>1, <2>2, <2>3, <2>4 DEF Budgets
<1>6. ASSUME Retry PROVE Budgets' /\ \A k \in Job : Takes(k)' >= Takes(k)
  <2>1. /\ UNCHANGED <<made, stalls, owner>>
        /\ \A k \in Job : \/ jobState'[k] = jobState[k]
                          \/ jobState[k] = "none" /\ jobState'[k] = "waiting"
    BY <1>6 DEF Retry
  <2> QED
    BY <1>1, <2>1 DEF Budgets, Budget, Takes
<1>7. CASE (\E p \in Post : Expire(p) \/ Lapse(p)) \/ UNCHANGED vars
  <2>1. UNCHANGED deliveries
    BY <1>7 DEF Expire, Lapse, vars
  <2>2. \A j \in Job : Takes(j)' = Takes(j)
    BY <2>1 DEF deliveries, Takes
  <2>3. \A w \in Worker, j \in Job : ~Take(w, j)
    BY <1>1, <2>1 DEF Take, deliveries
  <2>4. Budgets'
    BY <2>1, <2>2 DEF deliveries, Budgets, Budget
  <2> QED
    BY <1>1, <2>2, <2>3, <2>4
<1> QED
  BY <1>2, <1>3, <1>4, <1>5, <1>6, <1>7 DEF Next

(* The workers that may yet call for a post.                               *)
BeforeCall == {"lock", "load", "begin", "beginParent", "adapters", "prepare", "fence"}

Ahead(p) == {w \in Worker : pc[w] \in BeforeCall /\ PostOf(w) = p}

TakesOf(p, kind) == IF kind \in Kinds THEN Takes(<<p, kind>>) ELSE 0

(* Every call, made or to come, is one of a delivery.                      *)
CallBudget ==
  \A p \in Post : /\ IsFiniteSet(Ahead(p))
                  /\ fence[p] + Cardinality(Ahead(p)) <=
                       TakesOf(p, "publish-post") + TakesOf(p, "retry-failed-post")

(* Who is before the call has been before it; one steps out with the call. *)
LEMMA AheadSteps ==
  ASSUME TypeInv, [Next]_vars, \A w \in Worker, j \in Job : ~Take(w, j), NEW p \in Post
  PROVE  \/ fence'[p] = fence[p] /\ Ahead(p)' \subseteq Ahead(p)
         \/ /\ fence'[p] = fence[p] + 1
            /\ \E w \in Ahead(p) : Ahead(p)' \subseteq Ahead(p) \ {w}
<1>1. /\ pc \in [Worker -> Steps] /\ run \in [Worker -> RunType] /\ fence \in [Post -> Nat]
      /\ \A w \in Worker : pc[w] # "idle" => PostOf(w) \in Post
  BY PostOfType DEF TypeInv, WorkersTyped, PostsTyped
<1>2. ASSUME NEW w \in Worker, \A v \in Worker \ {w} : pc'[v] = pc[v] /\ run'[v] = run[v],
             pc'[w] \in BeforeCall => pc[w] \in BeforeCall /\ PostOf(w)' = PostOf(w)
      PROVE  Ahead(p)' \subseteq Ahead(p)
  BY <1>2 DEF Ahead, PostOf
<1>3. ASSUME NEW w \in Worker, Fence(w)
      PROVE  \/ fence'[p] = fence[p] /\ Ahead(p)' \subseteq Ahead(p)
             \/ /\ fence'[p] = fence[p] + 1
                /\ \E v \in Ahead(p) : Ahead(p)' \subseteq Ahead(p) \ {v}
  <2>1. /\ pc[w] = "fence" /\ pc'[w] = "call" /\ run' = run
        /\ \A v \in Worker \ {w} : pc'[v] = pc[v]
    BY <1>1, <1>3 DEF Fence, At, Go
  <2>2. Ahead(p)' \subseteq Ahead(p) /\ w \notin Ahead(p)'
    BY <2>1 DEF Ahead, PostOf, BeforeCall
  <2>3. CASE PostOf(w) = p
    <3>1. fence'[p] = fence[p] + 1
      BY <1>1, <1>3, <2>3 DEF Fence
    <3>2. w \in Ahead(p)
      BY <2>1, <2>3 DEF Ahead, BeforeCall
    <3> QED
      BY <2>2, <3>1, <3>2
  <2>4. CASE PostOf(w) # p
    BY <1>1, <1>3, <2>2, <2>4 DEF Fence
  <2> QED
    BY <2>3, <2>4
<1>4. ASSUME NEW w \in Worker,
             \/ Acquire(w) \/ Load(w) \/ Begin(w) \/ BeginParent(w) \/ GetAdapters(w) \/ Prepare(w)
      PROVE  fence'[p] = fence[p] /\ Ahead(p)' \subseteq Ahead(p)
  <2>1. fence' = fence /\ pc[w] \in BeforeCall
    BY <1>4 DEF Acquire, Load, Begin, BeginParent, GetAdapters, Prepare, At, BeforeCall, dbVars
  <2>2. \A v \in Worker \ {w} : pc'[v] = pc[v]
    BY <1>1, <1>4 DEF Acquire, Load, Begin, BeginParent, GetAdapters, Prepare, Go, GoWith, Throw
  <2>3. \/ run' = run \/ (\E r : run' = [run EXCEPT ![w].result = r])
        \/ (\E e : run' = [run EXCEPT ![w].err = e])
        \/ \E e, r : run' = [run EXCEPT ![w].err = e, ![w].result = r]
    BY <1>4 DEF Acquire, Load, Begin, BeginParent, GetAdapters, Prepare, GoWith, Throw
  <2>4. run'[w].job = run[w].job /\ \A v \in Worker \ {w} : run'[v] = run[v]
    BY <1>1, <2>3 DEF RunType
  <2> QED
    BY <1>2, <2>1, <2>2, <2>4 DEF PostOf
<1>5. ASSUME NEW w \in Worker,
             \/ Call(w) \/ Commit(w) \/ Reject(w) \/ Catch(w) \/ After(w)
             \/ ParentRead(w) \/ ParentWrite(w) \/ Release(w)
             \/ Finish(w) \/ OuterCatch(w) \/ OuterDead(w) \/ Fault(w) \/ Crash(w)
      PROVE  fence'[p] = fence[p] /\ Ahead(p)' \subseteq Ahead(p)
  <2>1. fence' = fence
    BY <1>5 DEF Call, Commit, Reject, Catch, After, ParentRead, ParentWrite, Release, Finish,
           OuterCatch, OuterDead, Fault, Crash, dbVars
  <2>2. pc'[w] \notin BeforeCall /\ \A v \in Worker \ {w} : pc'[v] = pc[v]
    BY <1>1, <1>5 DEF Call, Commit, Reject, Catch, After, ParentRead, ParentWrite, Release, Finish,
           OuterCatch, OuterDead, Fault, Crash, Go, GoWith, Throw, Stop, BeforeCall
  <2>3. \/ run' = run \/ (\E r : run' = [run EXCEPT ![w] = r])
        \/ (\E r : run' = [run EXCEPT ![w].result = r]) \/ (\E r : run' = [run EXCEPT ![w].seen = r])
        \/ (\E r : run' = [run EXCEPT ![w].err = r]) \/ (\E r : run' = [run EXCEPT ![w].copy = r])
        \/ (\E r, s : run' = [run EXCEPT ![w].result = r, ![w].copy = s])
        \/ (\E r, s : run' = [run EXCEPT ![w].err = r, ![w].result = s])
        \/ (\E r, s : run' = [run EXCEPT ![w].err = r, ![w].seen = s])
        \/ (\E r, s, t : run' = [run EXCEPT ![w].err = r, ![w].result = s, ![w].seen = t])
    BY ZenonT(40), <1>5 DEF Call, Commit, Reject, Catch, After, ParentRead, ParentWrite, Release, Finish,
           OuterCatch, OuterDead, Fault, Crash, Stop, GoWith, Throw
  <2>4. \A v \in Worker \ {w} : run'[v] = run[v]
    BY <1>1, <2>3
  <2> QED
    BY <1>2, <2>1, <2>2, <2>4
<1>6. CASE \/ \E j \in Job : Stall(j)
           \/ \E q \in Post : Expire(q) \/ Lapse(q)
           \/ Retry \/ UNCHANGED vars
  <2>1. UNCHANGED <<pc, run, fence>>
    BY <1>6 DEF Stall, Expire, Lapse, Retry, vars, dbVars
  <2> QED
    BY <2>1 DEF Ahead, PostOf
<1> QED
  BY <1>3, <1>4, <1>5, <1>6 DEF Next, Process

LEMMA CallBudgetNext ==
  TypeInv /\ Budgets /\ CallBudget /\ [Next]_vars => CallBudget'
<1> SUFFICES ASSUME TypeInv, Budgets, CallBudget, [Next]_vars, NEW p \in Post
             PROVE  /\ IsFiniteSet(Ahead(p)')
                    /\ fence'[p] + Cardinality(Ahead(p)') <=
                         TakesOf(p, "publish-post")' + TakesOf(p, "retry-failed-post")'
  BY DEF CallBudget
<1> DEFINE Sum == TakesOf(p, "publish-post") + TakesOf(p, "retry-failed-post")
<1>1. /\ IsFiniteSet(Ahead(p)) /\ fence[p] + Cardinality(Ahead(p)) <= Sum
      /\ fence[p] \in Nat /\ Cardinality(Ahead(p)) \in Nat
  BY FS_CardinalityType DEF CallBudget, TypeInv, PostsTyped
<1>2. \A j \in Job : /\ Takes(j) \in Nat /\ Takes(j)' \in Nat /\ Takes(j)' >= Takes(j)
  <2>1. TypeInv'
    BY TypeNext
  <2> QED
    BY <2>1, DeliveriesCount DEF TypeInv, JobsTyped, Takes
<1>3. /\ TakesOf(p, "publish-post") \in Nat /\ TakesOf(p, "retry-failed-post") \in Nat
      /\ TakesOf(p, "publish-post")' \in Nat /\ TakesOf(p, "retry-failed-post")' \in Nat
      /\ TakesOf(p, "publish-post")' >= TakesOf(p, "publish-post")
      /\ TakesOf(p, "retry-failed-post")' >= TakesOf(p, "retry-failed-post")
  BY <1>2 DEF TakesOf, Job
<1>4. CASE \A w \in Worker, j \in Job : ~Take(w, j)
  <2>1. CASE fence'[p] = fence[p] /\ Ahead(p)' \subseteq Ahead(p)
    <3>1. IsFiniteSet(Ahead(p)') /\ Cardinality(Ahead(p)') <= Cardinality(Ahead(p))
      BY <1>1, <2>1, FS_Subset
    <3>2. Cardinality(Ahead(p)') \in Nat
      BY <3>1, FS_CardinalityType
    <3> QED
      BY <1>1, <1>3, <2>1, <3>1, <3>2
  <2>2. ASSUME NEW w \in Ahead(p), Ahead(p)' \subseteq Ahead(p) \ {w}, fence'[p] = fence[p] + 1
        PROVE  /\ IsFiniteSet(Ahead(p)')
               /\ fence'[p] + Cardinality(Ahead(p)') <=
                    TakesOf(p, "publish-post")' + TakesOf(p, "retry-failed-post")'
    <3>1. IsFiniteSet(Ahead(p) \ {w}) /\ Cardinality(Ahead(p) \ {w}) = Cardinality(Ahead(p)) - 1
      BY <1>1, <2>2, FS_RemoveElement
    <3>2. IsFiniteSet(Ahead(p)') /\ Cardinality(Ahead(p)') <= Cardinality(Ahead(p) \ {w})
      BY <2>2, <3>1, FS_Subset
    <3>3. Cardinality(Ahead(p)') \in Nat
      BY <3>2, FS_CardinalityType
    <3> QED
      BY <1>1, <1>3, <2>2, <3>1, <3>2, <3>3
  <2> QED
    BY <1>4, <2>1, <2>2, AheadSteps
<1>5. ASSUME NEW w \in Worker, NEW j \in Job, Take(w, j)
      PROVE  /\ IsFiniteSet(Ahead(p)')
             /\ fence'[p] + Cardinality(Ahead(p)') <=
                  TakesOf(p, "publish-post")' + TakesOf(p, "retry-failed-post")'
  <2>1. /\ pc[w] = "idle" /\ run'[w].job = j /\ fence' = fence
        /\ \A v \in Worker \ {w} : pc'[v] = pc[v] /\ run'[v] = run[v]
    BY <1>5 DEF Take, At, Go, Invocation, dbVars, TypeInv, WorkersTyped
  <2>2. CASE j[1] # p
    <3>1. Ahead(p)' \subseteq Ahead(p)
      BY <2>1, <2>2 DEF Ahead, PostOf
    <3>2. IsFiniteSet(Ahead(p)') /\ Cardinality(Ahead(p)') <= Cardinality(Ahead(p))
      BY <1>1, <3>1, FS_Subset
    <3>3. Cardinality(Ahead(p)') \in Nat
      BY <3>2, FS_CardinalityType
    <3> QED
      BY <1>1, <1>3, <2>1, <3>2, <3>3
  <2>3. CASE j[1] = p
    <3>1. Ahead(p)' \subseteq Ahead(p) \cup {w} /\ w \notin Ahead(p)
      BY <2>1 DEF Ahead, PostOf, BeforeCall
    <3>2. /\ IsFiniteSet(Ahead(p) \cup {w})
          /\ Cardinality(Ahead(p) \cup {w}) = Cardinality(Ahead(p)) + 1
      BY <1>1, <3>1, FS_AddElement
    <3>3. IsFiniteSet(Ahead(p)') /\ Cardinality(Ahead(p)') <= Cardinality(Ahead(p) \cup {w})
      BY <3>1, <3>2, FS_Subset
    <3>4. Cardinality(Ahead(p)') \in Nat
      BY <3>3, FS_CardinalityType
    <3>5. Takes(j)' = Takes(j) + 1
      BY <1>5, DeliveriesCount
    <3>6. j[2] \in Kinds /\ j = <<p, j[2]>> /\ j[2] \in {"publish-post", "retry-failed-post"}
      <4>1. j \in Post \X Kinds
        BY DEF Job
      <4>2. j = <<j[1], j[2]>> /\ j[2] \in Kinds
        BY <4>1
      <4> QED
        BY <2>3, <4>2, PublishWorkerAssumption
    <3>7. TakesOf(p, j[2]) = Takes(j) /\ TakesOf(p, j[2])' = Takes(j)'
      BY <3>6 DEF TakesOf
    <3>8. TakesOf(p, "publish-post")' + TakesOf(p, "retry-failed-post")' >= Sum + 1
      <4>1. CASE j[2] = "publish-post"
        BY <1>3, <3>5, <3>7, <4>1
      <4>2. CASE j[2] = "retry-failed-post"
        BY <1>3, <3>5, <3>7, <4>2
      <4> QED
        BY <3>6, <4>1, <4>2
    <3> QED
      BY <1>1, <1>3, <2>1, <3>2, <3>3, <3>4, <3>8
  <2> QED
    BY <2>2, <2>3
<1> QED
  BY <1>4, <1>5

(* Whatever fails, stalls, lapses or runs twice, a platform is called for  *)
(* a post at most once per attempt of its jobs and once more for the one   *)
(* redelivery each job has.                                                *)
THEOREM CallsHaveABudget == Spec => []CallsAreBounded
<1>1. Init => TypeInv /\ Budgets /\ CallBudget
  <2> SUFFICES ASSUME Init PROVE TypeInv /\ Budgets /\ CallBudget
    OBVIOUS
  <2>1. TypeInv
    BY InvInit DEF PublishInv
  <2>2. Budgets
    BY PublishWorkerAssumption DEF Init, Budgets, Budget, Takes, AttemptsOf
  <2>3. \A j \in Job : Takes(j) = 0
    BY DEF Init, Takes
  <2>4. ASSUME NEW p \in Post
        PROVE  Ahead(p) = {} /\ fence[p] = 0 /\ TakesOf(p, "publish-post") = 0
                                             /\ TakesOf(p, "retry-failed-post") = 0
    BY <2>3 DEF Init, Ahead, BeforeCall, TakesOf, Job
  <2> QED
    BY <2>1, <2>2, <2>4, FS_EmptySet DEF CallBudget
<1>2. TypeInv /\ Budgets /\ CallBudget /\ [Next]_vars => (TypeInv /\ Budgets /\ CallBudget)'
  BY TypeNext, DeliveriesCount, CallBudgetNext
<1>3. TypeInv /\ Budgets /\ CallBudget => CallsAreBounded
  <2> SUFFICES ASSUME TypeInv, Budgets, CallBudget, NEW p \in Post
               PROVE  fence[p] <= (IF "publish-post" \in Kinds THEN MaxAttempts + 1 ELSE 0) +
                                  (IF "retry-failed-post" \in Kinds THEN 2 ELSE 0)
    BY DEF CallsAreBounded
  <2>1. /\ fence[p] \in Nat /\ Cardinality(Ahead(p)) \in Nat
        /\ fence[p] + Cardinality(Ahead(p)) <=
             TakesOf(p, "publish-post") + TakesOf(p, "retry-failed-post")
    BY FS_CardinalityType DEF CallBudget, TypeInv, PostsTyped
  <2>2. \A j \in Job : Takes(j) \in Nat /\ Takes(j) <= AttemptsOf(j) + 1
    BY DEF Budgets, Budget, Takes, TypeInv, JobsTyped
  <2>3. /\ TakesOf(p, "publish-post") \in Nat
        /\ TakesOf(p, "publish-post") <= IF "publish-post" \in Kinds THEN MaxAttempts + 1 ELSE 0
    BY <2>2, PublishWorkerAssumption DEF TakesOf, Job, AttemptsOf
  <2>4. /\ TakesOf(p, "retry-failed-post") \in Nat
        /\ TakesOf(p, "retry-failed-post") <= IF "retry-failed-post" \in Kinds THEN 2 ELSE 0
    BY <2>2 DEF TakesOf, Job, AttemptsOf
  <2> QED
    BY <2>1, <2>3, <2>4, PublishWorkerAssumption
<1> QED
  BY <1>1, <1>2, <1>3, PTL DEF Spec
-----------------------------------------------------------------------------
(* BullMQ takes no live worker for dead, and there is one job per post.    *)
Tidy == ~LiveStalls /\ Kinds = {"publish-post"}

Smooth == faults = 0 /\ lapses = 0

(* Whoever works on a job is the one it was given to.                      *)
OwnsJob(w) ==
  pc[w] # "idle" => jobState[run[w].job] = "active" /\ owner[run[w].job] = w

AllOwn == \A w \in Worker : OwnsJob(w)

(* A step with which a worker goes on with its job, and which is about its *)
(* post alone.                                                             *)
Onward(w) ==
  /\ pc[w] # "idle" /\ pc'[w] # "idle"
  /\ run'[w].job = run[w].job /\ run'[w].attempt = run[w].attempt
  /\ \A v \in Worker \ {w} : pc'[v] = pc[v] /\ run'[v] = run[v]
  /\ \A p \in Post \ {PostOf(w)} : status'[p] = status[p] /\ ext'[p] = ext[p]
  /\ UNCHANGED <<deliveries, failures>>

(* A step with which a worker gives its job back.                          *)
Ends(w) ==
  /\ pc[w] # "idle" /\ pc'[w] = "idle"
  /\ \A v \in Worker \ {w} : pc'[v] = pc[v] /\ run'[v] = run[v]
  /\ \A p \in Post \ {PostOf(w)} : status'[p] = status[p]
  /\ \A j \in Job : owner[j] # w => /\ jobState'[j] = jobState[j] /\ owner'[j] = owner[j]
                                    /\ made'[j] = made[j]
  /\ ext' = ext

(* Two workers that are busy have two posts.                               *)
LEMMA OwnPosts ==
  ASSUME Tidy, TypeInv, AllOwn, NEW v \in Worker, NEW w \in Worker,
         pc[v] # "idle", pc[w] # "idle", v # w
  PROVE  run[v].job # run[w].job /\ PostOf(v) # PostOf(w) /\ PostOf(v) \in Post
<1>1. run[v].job \in Post \X {"publish-post"} /\ run[w].job \in Post \X {"publish-post"}
  BY DEF TypeInv, WorkersTyped, BusyHaveJobs, Job, Tidy
<1>2. owner[run[v].job] = v /\ owner[run[w].job] = w
  BY DEF AllOwn, OwnsJob
<1> QED
  BY <1>1, <1>2 DEF PostOf

(* The steps of the processor before it is settled.                        *)
LEMMA OnwardSteps ==
  ASSUME TypeInv, NEW w \in Worker,
         \/ Acquire(w) \/ Load(w) \/ Begin(w) \/ BeginParent(w) \/ GetAdapters(w)
         \/ Prepare(w) \/ Fence(w) \/ Call(w) \/ Commit(w) \/ Reject(w)
         \/ Catch(w) \/ After(w) \/ ParentRead(w) \/ ParentWrite(w) \/ Release(w)
         \/ OuterCatch(w) /\ Decision(w) # "RETRY"
  PROVE  Onward(w)
<1>1. /\ pc \in [Worker -> Steps] /\ run \in [Worker -> RunType]
      /\ status \in [Post -> PlatformPostStatuses] /\ ext \in [Post -> Nat]
  BY DEF TypeInv, WorkersTyped, PostsTyped
<1>2. pc[w] # "idle" /\ UNCHANGED <<deliveries, failures>>
  BY DEF Acquire, Load, Begin, BeginParent, GetAdapters, Prepare, Fence, Call, Commit, Reject,
         Catch, After, ParentRead, ParentWrite, Release, OuterCatch, At, deliveries
<1>3. pc'[w] # "idle" /\ \A v \in Worker \ {w} : pc'[v] = pc[v]
  BY <1>1 DEF Acquire, Load, Begin, BeginParent, GetAdapters, Prepare, Fence, Call, Commit, Reject,
         Catch, After, ParentRead, ParentWrite, Release, OuterCatch, Go, GoWith, Throw
<1>4. \A p \in Post \ {PostOf(w)} : status'[p] = status[p] /\ ext'[p] = ext[p]
  BY <1>1 DEF Acquire, Load, Begin, BeginParent, GetAdapters, Prepare, Fence, Call, Commit, Reject,
         Catch, After, ParentRead, ParentWrite, Release, OuterCatch, dbVars
<1>5. /\ run'[w].job = run[w].job /\ run'[w].attempt = run[w].attempt
      /\ \A v \in Worker \ {w} : run'[v] = run[v]
  <2>1. CASE Acquire(w) \/ Load(w) \/ After(w)
    BY <1>1, <2>1 DEF Acquire, Load, After, GoWith, RunType
  <2>2. CASE Begin(w) \/ BeginParent(w) \/ Fence(w) \/ Reject(w) \/ Release(w)
            \/ (OuterCatch(w) /\ Decision(w) # "RETRY")
    BY <2>2 DEF Begin, BeginParent, Fence, Reject, Release, OuterCatch
  <2>3. CASE GetAdapters(w)
    <3>1. \/ \E e : run' = [run EXCEPT ![w].err = e, ![w].result = "rethrow"]
          \/ run' = [run EXCEPT ![w].result = "fixture"]
          \/ run' = run
      BY <2>3 DEF GetAdapters, GoWith, Throw
    <3> QED
      BY <1>1, <3>1 DEF RunType
  <2>7. CASE Prepare(w)
    <3>1. \/ \E e : run' = [run EXCEPT ![w].err = e]
          \/ run' = [run EXCEPT ![w].result = "validation"]
          \/ run' = run
      BY <2>7 DEF Prepare, GoWith
    <3> QED
      BY <1>1, <3>1 DEF RunType
  <2>4. CASE Call(w) \/ Catch(w)
    BY <1>1, <2>4 DEF Call, Catch, RunType
  <2>6. CASE Commit(w)
    BY <1>1, <2>6 DEF Commit, RunType
  <2>5. CASE ParentRead(w) \/ ParentWrite(w)
    BY <1>1, <2>5 DEF ParentRead, ParentWrite, RunType
  <2> QED
    BY <2>1, <2>2, <2>3, <2>4, <2>5, <2>6, <2>7
<1> QED
  BY <1>2, <1>3, <1>4, <1>5 DEF Onward

(* The steps that settle it.                                               *)
LEMMA EndSteps ==
  ASSUME TypeInv, NEW w \in Worker,
         Finish(w) \/ (OuterCatch(w) /\ Decision(w) = "RETRY") \/ OuterDead(w)
  PROVE  Ends(w)
<1>1. /\ pc \in [Worker -> Steps] /\ run \in [Worker -> RunType]
      /\ status \in [Post -> PlatformPostStatuses]
  BY DEF TypeInv, WorkersTyped, PostsTyped
<1>2. pc[w] # "idle" /\ Stop(w) /\ ext' = ext
  BY DEF Finish, OuterCatch, OuterDead, At, dbVars
<1>3. pc'[w] = "idle" /\ \A v \in Worker \ {w} : pc'[v] = pc[v] /\ run'[v] = run[v]
  BY <1>1, <1>2 DEF Stop, Go
<1>4. \A p \in Post \ {PostOf(w)} : status'[p] = status[p]
  BY <1>1 DEF Finish, OuterCatch, OuterDead, dbVars
<1>5. \E s : Settle(w, s)
  BY DEF Finish, OuterCatch, OuterDead, SettleThrown
<1>6. \A j \in Job : owner[j] # w => /\ jobState'[j] = jobState[j] /\ owner'[j] = owner[j]
                                     /\ made'[j] = made[j]
  BY <1>5 DEF Settle, Owns, TypeInv, JobsTyped
<1> QED
  BY <1>2, <1>3, <1>4, <1>6 DEF Ends

(* Jobs keep their owners.                                                 *)
LEMMA OwnNext == Tidy /\ TypeInv /\ AllOwn /\ [Next]_vars => AllOwn'
<1> SUFFICES ASSUME Tidy, TypeInv, AllOwn, [Next]_vars PROVE AllOwn'
  OBVIOUS
<1>1. /\ pc \in [Worker -> Steps] /\ run \in [Worker -> RunType]
      /\ jobState \in [Job -> {"none", "waiting", "active", "completed", "failed"}]
      /\ owner \in [Job -> Worker \cup {Nobody}] /\ made \in [Job -> Nat]
      /\ \A w \in Worker : pc[w] # "idle" => run[w].job \in Job
  BY DEF TypeInv, WorkersTyped, JobsTyped, BusyHaveJobs
<1>2. ASSUME NEW w \in Worker, NEW j \in Job, Take(w, j) PROVE AllOwn'
  <2>1. pc'[w] # "idle" /\ run'[w].job = j /\ jobState'[j] = "active" /\ owner'[j] = w
    BY <1>1, <1>2 DEF Take, Go, Invocation
  <2>2. ASSUME NEW v \in Worker \ {w} PROVE OwnsJob(v)'
    <3>1. pc'[v] = pc[v] /\ run'[v] = run[v]
      BY <1>1, <1>2 DEF Take, Go
    <3>2. pc[v] # "idle" => run[v].job # j /\ run[v].job \in Job
      BY <1>1, <1>2 DEF Take, AllOwn, OwnsJob
    <3> QED
      BY <1>1, <1>2, <3>1, <3>2 DEF Take, AllOwn, OwnsJob
  <2> QED
    BY <2>1, <2>2 DEF AllOwn, OwnsJob
<1>3. ASSUME NEW w \in Worker, Onward(w) PROVE AllOwn'
  BY <1>3 DEF Onward, deliveries, AllOwn, OwnsJob
<1>4. ASSUME NEW w \in Worker, pc'[w] = "idle",
             \A v \in Worker \ {w} : pc'[v] = pc[v] /\ run'[v] = run[v],
             \A j \in Job : owner[j] # w => jobState'[j] = jobState[j] /\ owner'[j] = owner[j]
      PROVE  AllOwn'
  <2>1. ASSUME NEW v \in Worker, pc'[v] # "idle" PROVE OwnsJob(v)'
    <3>1. v # w /\ pc'[v] = pc[v] /\ run'[v] = run[v]
      BY <1>4, <2>1
    <3>2. run[v].job \in Job /\ owner[run[v].job] = v /\ jobState[run[v].job] = "active"
      BY <1>1, <2>1, <3>1 DEF AllOwn, OwnsJob
    <3> QED
      BY <1>4, <3>1, <3>2 DEF OwnsJob
  <2> QED
    BY <2>1 DEF AllOwn, OwnsJob
<1>5. ASSUME NEW w \in Worker, Process(w) PROVE AllOwn'
  <2>1. CASE Onward(w)
    BY <1>3, <2>1
  <2>2. CASE Ends(w)
    BY <1>4, <2>2 DEF Ends
  <2> QED
    BY <1>5, <2>1, <2>2, OnwardSteps, EndSteps DEF Process
<1>6. ASSUME NEW w \in Worker, Fault(w) PROVE AllOwn'
  <2>1. CASE pc[w] \notin {"outer", "dead"}
    <3>1. UNCHANGED <<jobState, owner>> /\ pc[w] # "idle" /\ \A v \in Worker \ {w} : pc'[v] = pc[v]
      BY <1>1, <1>6, <2>1 DEF Fault, Go, Throw, InSection, InInnerTry, At
    <3>2. \/ run' = [run EXCEPT ![w].err = "OTHER", ![w].seen = {}]
          \/ run' = [run EXCEPT ![w].err = "OTHER", ![w].result = "rethrow", ![w].seen = {}]
          \/ run' = [run EXCEPT ![w].err = "OTHER", ![w].result = "rethrow"]
          \/ run' = run
      BY <1>6, <2>1 DEF Fault, Throw
    <3>3. run'[w].job = run[w].job /\ \A v \in Worker \ {w} : run'[v] = run[v]
      BY <1>1, <3>2 DEF RunType
    <3> QED
      BY <3>1, <3>3 DEF AllOwn, OwnsJob
  <2>2. CASE SettleThrown(w) /\ Stop(w)
    <3>1. pc'[w] = "idle" /\ \A v \in Worker \ {w} : pc'[v] = pc[v] /\ run'[v] = run[v]
      BY <1>1, <2>2 DEF Stop, Go
    <3>2. \A j \in Job : owner[j] # w => jobState'[j] = jobState[j] /\ owner'[j] = owner[j]
      BY <1>1, <2>2 DEF SettleThrown, Settle, Owns
    <3> QED
      BY <1>4, <3>1, <3>2
  <2> QED
    BY <1>6, <2>1, <2>2 DEF Fault, InSection, InInnerTry, At
<1>7. ASSUME NEW w \in Worker, Crash(w) PROVE AllOwn'
  <2>1. pc'[w] = "idle" /\ \A v \in Worker \ {w} : pc'[v] = pc[v] /\ run'[v] = run[v]
    BY <1>1, <1>7 DEF Crash, Stop, Go
  <2>2. \A j \in Job : owner[j] # w => jobState'[j] = jobState[j] /\ owner'[j] = owner[j]
    BY <1>1, <1>7 DEF Crash
  <2> QED
    BY <1>4, <2>1, <2>2
<1>8. ASSUME NEW j \in Job, Stall(j) PROVE AllOwn'
  <2>1. owner[j] = Nobody
    BY <1>8 DEF Stall, Tidy
  <2>2. \A v \in Worker : pc[v] # "idle" => run[v].job # j
    BY <2>1, PublishWorkerAssumption DEF AllOwn, OwnsJob
  <2> QED
    BY <1>1, <1>8, <2>2 DEF Stall, AllOwn, OwnsJob
<1>9. CASE (\E p \in Post : Expire(p) \/ Lapse(p)) \/ UNCHANGED vars
  BY <1>9 DEF Expire, Lapse, vars, deliveries, AllOwn, OwnsJob
<1>10. ~Retry
  BY DEF Retry, Tidy
<1> QED
  BY <1>2, <1>5, <1>6, <1>7, <1>8, <1>9, <1>10 DEF Next
-----------------------------------------------------------------------------
(* The content post.  A worker on its way to a verdict, or on its way out  *)
(* with an error, has a post that is not published.                        *)
NotYet == BeforeCommit \cup {"reject", "catch", "after"}

InLine(w) ==
  /\ pc[w] \in NotYet => status[PostOf(w)] # "PUBLISHED"
  /\ pc[w] # "idle" /\ run[w].result = "rethrow" => status[PostOf(w)] # "PUBLISHED"
  /\ pc[w] \in {"outer", "dead"} => run[w].result = "rethrow"

AllOut == \A p \in Post : status[p] = "PUBLISHED"

(* If all children it has read were published they still are.              *)
SeenRight(w) ==
  pc[w] = "parentWrite" => /\ run[w].seen \cap Withdrawn = {}
                           /\ run[w].seen \subseteq {"PUBLISHED"} => AllOut

ChildrenFirst ==
  Smooth => /\ \A w \in Worker : InLine(w) /\ SeenRight(w)
            /\ \A p \in Post : status[p] \notin Withdrawn
            /\ parent = "PUBLISHED" => AllOut

(* What a step may do to the post of the worker that takes it.             *)
Kept(w) ==
  /\ status'[PostOf(w)] \notin Withdrawn
  /\ status[PostOf(w)] = "PUBLISHED" => status'[PostOf(w)] = "PUBLISHED"

LEMMA DerivedPublished ==
  ASSUME NEW seen \in SUBSET PlatformPostStatuses, seen \cap Withdrawn = {},
         DeriveContentPostStatus(seen) = "PUBLISHED"
  PROVE  seen \subseteq {"PUBLISHED"}
<1> DEFINE active == seen \ Withdrawn
<1>1. active = seen
  OBVIOUS
<1>2. \/ active = {} \/ active = {"PUBLISHED"} \/ active = {"FAILED"}
      \/ active = Settled \/ ~(active \subseteq Settled)
  BY Zenon DEF Settled
<1> QED
  BY <1>1, <1>2 DEF DeriveContentPostStatus

(* From the lock to the call.                                              *)
LEMMA EarlyStepsInLine ==
  ASSUME TypeInv, Smooth, Smooth', ChildrenFirst, NEW w \in Worker,
         \/ Acquire(w) \/ Load(w) \/ Begin(w) \/ BeginParent(w) \/ GetAdapters(w)
         \/ Prepare(w) \/ Fence(w) \/ Call(w)
  PROVE  InLine(w)' /\ Kept(w)
<1>1. /\ pc \in [Worker -> Steps] /\ run \in [Worker -> RunType]
      /\ status \in [Post -> PlatformPostStatuses]
  BY DEF TypeInv, WorkersTyped, PostsTyped
<1>2. InLine(w) /\ \A p \in Post : status[p] \notin Withdrawn
  BY DEF ChildrenFirst
<1>3. pc[w] # "idle" /\ PostOf(w) \in Post
  BY PostOfType DEF TypeInv, Acquire, Load, Begin, BeginParent, GetAdapters, Prepare, Fence, Call, At
<1>4. PostOf(w)' = PostOf(w)
  BY OnwardSteps DEF Onward, PostOf
<1>5. CASE Acquire(w)
  <2>1. /\ status' = status /\ pc[w] = "lock" /\ pc'[w] \in {"load", "finish"}
        /\ run'[w].result \in {run[w].result, "locked"}
    BY <1>1, <1>5 DEF Acquire, At, Go, GoWith, dbVars, RunType
  <2> QED
    BY <1>2, <1>3, <1>4, <2>1 DEF InLine, Kept, NotYet, BeforeCommit
<1>6. CASE Load(w)
  <2>1. status' = status /\ pc[w] = "load"
    BY <1>6 DEF Load, At, dbVars
  <2>2. \/ pc'[w] = "release" /\ run'[w].result = "already_published"
        \/ /\ pc'[w] = "reject" /\ run'[w].result = "account_disconnected"
           /\ status[PostOf(w)] # "PUBLISHED"
        \/ pc'[w] = "begin" /\ run' = run /\ status[PostOf(w)] # "PUBLISHED"
    BY <1>1, <1>6 DEF Load, Go, GoWith, RunType
  <2> QED
    BY <1>2, <1>3, <1>4, <2>1, <2>2 DEF InLine, Kept, NotYet, BeforeCommit
<1>7. CASE Begin(w)
  <2>1. /\ status'[PostOf(w)] = "PROCESSING" /\ pc'[w] = "beginParent" /\ pc[w] \in NotYet
    BY <1>1, <1>3, <1>7 DEF Begin, At, Go, NotYet, BeforeCommit
  <2> QED
    BY <1>2, <1>3, <1>4, <2>1 DEF InLine, Kept, Withdrawn
<1>8. CASE BeginParent(w) \/ Fence(w)
  <2>1. status' = status /\ run' = run /\ pc[w] \in NotYet /\ pc'[w] \in {"adapters", "call"}
    BY <1>1, <1>8 DEF BeginParent, Fence, At, Go, NotYet, BeforeCommit
  <2> QED
    BY <1>2, <1>3, <1>4, <2>1 DEF InLine, Kept
<1>9. CASE GetAdapters(w) \/ Prepare(w) \/ Call(w)
  <2>1. /\ status' = status /\ pc[w] \in NotYet
        /\ pc'[w] \in {"release", "reject", "prepare", "fence", "catch", "commit"}
    BY <1>1, <1>9 DEF GetAdapters, Prepare, Call, At, Go, GoWith, Throw, NotYet, BeforeCommit, dbVars
  <2> QED
    BY <1>2, <1>3, <1>4, <2>1 DEF InLine, Kept
<1> QED
  BY <1>5, <1>6, <1>7, <1>8, <1>9

(* From the verdict to the end of the section, and the outer catch.        *)
LEMMA LateStepsInLine ==
  ASSUME TypeInv, Smooth, Smooth', ChildrenFirst, NEW w \in Worker,
         \/ Commit(w) \/ Reject(w) \/ Catch(w) \/ After(w)
         \/ ParentRead(w) \/ ParentWrite(w) \/ Release(w)
         \/ OuterCatch(w) /\ Decision(w) # "RETRY"
  PROVE  InLine(w)' /\ Kept(w)
<1>1. /\ pc \in [Worker -> Steps] /\ run \in [Worker -> RunType]
      /\ status \in [Post -> PlatformPostStatuses]
  BY DEF TypeInv, WorkersTyped, PostsTyped
<1>2. InLine(w) /\ \A p \in Post : status[p] \notin Withdrawn
  BY DEF ChildrenFirst
<1>3. pc[w] # "idle" /\ PostOf(w) \in Post
  BY PostOfType DEF TypeInv, Commit, Reject, Catch, After, ParentRead, ParentWrite, Release,
                    OuterCatch, At
<1>4. PostOf(w)' = PostOf(w)
  BY OnwardSteps DEF Onward, PostOf
<1>5. CASE Commit(w)
  <2>1. status'[PostOf(w)] = "PUBLISHED" /\ pc'[w] = "parentRead"
    BY <1>1, <1>3, <1>5 DEF Commit, Go
  <2>2. run'[w].result = "published"
    BY <1>1, <1>5 DEF Commit, RunType
  <2> QED
    BY <1>2, <1>3, <1>4, <2>1, <2>2 DEF InLine, Kept, NotYet, BeforeCommit, Withdrawn
<1>6. CASE Reject(w) \/ Catch(w)
  <2>1. pc[w] \in NotYet /\ pc'[w] \in {"parentRead", "after"}
    BY <1>1, <1>6 DEF Reject, Catch, At, Go, NotYet, BeforeCommit
  <2>2. status'[PostOf(w)] \in {"REMOTE_RESULT_UNKNOWN", "QUEUED", "FAILED"}
    BY <1>1, <1>3, <1>6 DEF Reject, Catch
  <2> QED
    BY <1>2, <1>3, <1>4, <2>1, <2>2 DEF InLine, Kept, Withdrawn
<1>7. CASE After(w)
  <2>1. status' = status /\ pc[w] \in NotYet /\ pc'[w] = "parentRead"
    BY <1>1, <1>7 DEF After, At, Go, GoWith, NotYet
  <2> QED
    BY <1>2, <1>3, <1>4, <2>1 DEF InLine, Kept
<1>8. CASE ParentRead(w) \/ ParentWrite(w)
  <2>1. status' = status /\ pc'[w] \in {"parentWrite", "release"}
    BY <1>1, <1>8 DEF ParentRead, ParentWrite, At, Go, dbVars
  <2>2. run'[w].result = run[w].result
    BY <1>1, <1>8 DEF ParentRead, ParentWrite, RunType
  <2> QED
    BY <1>2, <1>3, <1>4, <2>1, <2>2 DEF InLine, Kept, NotYet, BeforeCommit
<1>9. CASE Release(w) \/ (OuterCatch(w) /\ Decision(w) # "RETRY")
  <2>1. /\ status' = status /\ run' = run
        /\ pc'[w] \in {"outer", "finish", "dead"}
        /\ pc'[w] # "finish" => run[w].result = "rethrow"
    BY <1>1, <1>2, <1>9 DEF Release, OuterCatch, At, Go, dbVars, InLine
  <2> QED
    BY <1>2, <1>3, <1>4, <2>1 DEF InLine, Kept, NotYet, BeforeCommit
<1> QED
  BY <1>5, <1>6, <1>7, <1>8, <1>9

(* What one worker does to its post leaves the others in line.             *)
LEMMA OthersInLine ==
  ASSUME Tidy, TypeInv, AllOwn, Smooth, Smooth', ChildrenFirst,
         NEW w \in Worker, Onward(w) \/ Ends(w), InLine(w)', Kept(w)
  PROVE  /\ \A v \in Worker : InLine(v)'
         /\ \A p \in Post : status'[p] \notin Withdrawn
         /\ AllOut => AllOut'
         /\ \A v \in Worker \ {w} : SeenRight(v)'
<1>1. /\ pc[w] # "idle"
      /\ \A v \in Worker \ {w} : pc'[v] = pc[v] /\ run'[v] = run[v]
      /\ \A p \in Post \ {PostOf(w)} : status'[p] = status[p]
  BY DEF Onward, Ends
<1>2. \A p \in Post : status'[p] \notin Withdrawn
  BY <1>1 DEF Kept, ChildrenFirst
<1>3. AllOut => AllOut'
  BY <1>1 DEF Kept, AllOut
<1>4. ASSUME NEW v \in Worker \ {w} PROVE InLine(v)'
  <2>1. pc'[v] = pc[v] /\ run'[v] = run[v] /\ InLine(v) /\ PostOf(v)' = PostOf(v)
    BY <1>1 DEF ChildrenFirst, PostOf
  <2>2. CASE pc[v] = "idle"
    BY <2>1, <2>2 DEF InLine, NotYet, BeforeCommit
  <2>3. CASE pc[v] # "idle"
    <3>1. PostOf(v) # PostOf(w) /\ PostOf(v) \in Post
      BY <1>1, <2>3, OwnPosts
    <3>2. status'[PostOf(v)] = status[PostOf(v)]
      BY <1>1, <3>1
    <3> QED
      BY <2>1, <3>2 DEF InLine
  <2> QED
    BY <2>2, <2>3
<1>5. ASSUME NEW v \in Worker \ {w} PROVE SeenRight(v)'
  BY <1>1, <1>3 DEF ChildrenFirst, SeenRight
<1> QED
  BY <1>2, <1>3, <1>4, <1>5

(* A worker that gives its job back, and one that crashes.                 *)
LEMMA EndsInLine ==
  ASSUME TypeInv, Smooth, ChildrenFirst, NEW w \in Worker,
         \/ Finish(w) \/ Crash(w) \/ OuterDead(w)
         \/ OuterCatch(w) /\ Decision(w) = "RETRY"
  PROVE  Ends(w) /\ InLine(w)' /\ Kept(w) /\ parent' = parent
<1>1. /\ pc \in [Worker -> Steps] /\ run \in [Worker -> RunType]
      /\ status \in [Post -> PlatformPostStatuses]
  BY DEF TypeInv, WorkersTyped, PostsTyped
<1>2. Crash(w) => Ends(w)
  BY <1>1 DEF Crash, Stop, Go, At, Ends, TypeInv, JobsTyped, dbVars
<1>3. Ends(w) /\ pc'[w] = "idle" /\ pc[w] # "idle"
  BY <1>2, EndSteps DEF Ends
<1>4. InLine(w)'
  BY <1>3 DEF InLine, NotYet, BeforeCommit
<1>5. parent' = parent
  BY DEF Finish, Crash, OuterDead, OuterCatch, dbVars
<1>6. InLine(w) /\ PostOf(w) \in Post /\ status[PostOf(w)] \notin Withdrawn
  BY <1>3, PostOfType DEF ChildrenFirst, TypeInv
<1>7. CASE ~OuterDead(w)
  <2>1. status' = status
    BY <1>7 DEF Finish, Crash, OuterCatch, dbVars
  <2> QED
    BY <1>3, <1>4, <1>5, <1>6, <2>1 DEF Kept
<1>8. CASE OuterDead(w)
  <2>1. status'[PostOf(w)] = "FAILED" /\ pc[w] = "dead"
    BY <1>1, <1>6, <1>8 DEF OuterDead, At
  <2> QED
    BY <1>3, <1>4, <1>5, <1>6, <2>1 DEF Kept, InLine, Withdrawn
<1> QED
  BY <1>3, <1>4, <1>5, <1>7, <1>8

(* Only a read of the children leads to the write of their parent.         *)
LEMMA ReadsAreRight ==
  ASSUME TypeInv, ChildrenFirst, Smooth, NEW w \in Worker, Process(w),
         AllOut => AllOut', \A p \in Post : status'[p] \notin Withdrawn
  PROVE  SeenRight(w)'
<1>1. pc \in [Worker -> Steps] /\ run \in [Worker -> RunType]
  BY DEF TypeInv, WorkersTyped
<1>2. SUFFICES ASSUME pc'[w] = "parentWrite" PROVE SeenRight(w)'
  BY DEF SeenRight
<1>3. ParentRead(w)
  BY <1>1, <1>2 DEF Process, Acquire, Load, Begin, BeginParent, GetAdapters, Prepare, Fence, Call,
         Commit, Reject, Catch, After, ParentRead, ParentWrite, Release, Finish, OuterCatch,
         OuterDead, Go, GoWith, Throw, Stop
<1>4. run'[w].seen = {status[p] : p \in Post} /\ status' = status
  BY <1>1, <1>3 DEF ParentRead, dbVars, RunType
<1>5. {status[p] : p \in Post} \cap Withdrawn = {}
  BY DEF ChildrenFirst
<1>6. {status[p] : p \in Post} \subseteq {"PUBLISHED"} => AllOut
  BY DEF AllOut
<1> QED
  BY <1>4, <1>5, <1>6 DEF SeenRight, AllOut

(* The parent is written from what was read.                               *)
LEMMA ParentIsRight ==
  ASSUME TypeInv, ChildrenFirst, Smooth, NEW w \in Worker, Process(w), AllOut => AllOut'
  PROVE  parent' = "PUBLISHED" => AllOut'
<1>1. CASE BeginParent(w)
  BY <1>1 DEF BeginParent
<1>2. CASE ParentWrite(w)
  <2>1. /\ parent' = DeriveContentPostStatus(run[w].seen) /\ SeenRight(w)
        /\ run[w].seen \in SUBSET PlatformPostStatuses /\ pc[w] = "parentWrite"
    BY <1>2 DEF ParentWrite, At, ChildrenFirst, TypeInv, WorkersTyped, RunType
  <2> QED
    BY <2>1, DerivedPublished DEF SeenRight
<1>3. CASE ~BeginParent(w) /\ ~ParentWrite(w)
  <2>1. parent' = parent
    BY <1>3 DEF Process, Acquire, Load, Begin, GetAdapters, Prepare, Fence, Call, Commit, Reject,
           Catch, After, ParentRead, Release, Finish, OuterCatch, OuterDead, dbVars
  <2> QED
    BY <2>1 DEF ChildrenFirst
<1> QED
  BY <1>1, <1>2, <1>3

(* What has not failed by now has not failed before.                       *)
LEMMA SmoothBefore ==
  ASSUME TypeInv, [Next]_vars, Smooth'
  PROVE  /\ Smooth /\ (\A w \in Worker : ~Fault(w)) /\ (\A p \in Post : ~Lapse(p))
         /\ crashes' = 0 => crashes = 0 /\ \A w \in Worker : ~Crash(w)
<1>1. faults \in Nat /\ lapses \in Nat /\ crashes \in Nat
  BY DEF TypeInv, PostsTyped
<1>2. ASSUME NEW w \in Worker, Fault(w) PROVE FALSE
  BY <1>1, <1>2 DEF Fault, Smooth
<1>3. ASSUME NEW p \in Post, Lapse(p) PROVE FALSE
  BY <1>1, <1>3 DEF Lapse, Smooth
<1>4. ASSUME NEW w \in Worker, Process(w) PROVE UNCHANGED failures
  BY <1>4, OnwardSteps DEF Onward, Process, Finish, OuterCatch, OuterDead, failures
<1>5. ASSUME NEW w \in Worker, \E j \in Job : Take(w, j) PROVE UNCHANGED failures
  BY <1>5 DEF Take, failures
<1>6. (\E j \in Job : Stall(j)) \/ (\E p \in Post : Expire(p)) \/ Retry \/ UNCHANGED vars
        => UNCHANGED failures
  BY DEF Stall, Expire, Retry, failures, vars
<1>7. ASSUME NEW w \in Worker, Crash(w) PROVE UNCHANGED <<lapses, faults>> /\ crashes' # 0
  BY <1>1, <1>7 DEF Crash
<1>8. \/ UNCHANGED failures
      \/ \E w \in Worker : Crash(w)
  BY <1>2, <1>3, <1>4, <1>5, <1>6 DEF Next
<1> QED
  BY <1>1, <1>2, <1>3, <1>7, <1>8 DEF Smooth, failures

LEMMA ChildrenFirstNext ==
  Tidy /\ TypeInv /\ AllOwn /\ ChildrenFirst /\ [Next]_vars => ChildrenFirst'
<1> SUFFICES ASSUME Tidy, TypeInv, AllOwn, ChildrenFirst, [Next]_vars, Smooth'
             PROVE  ChildrenFirst'
  BY DEF ChildrenFirst
<1>1. pc \in [Worker -> Steps] /\ run \in [Worker -> RunType]
  BY DEF TypeInv, WorkersTyped
<1>2. Smooth /\ (\A w \in Worker : ~Fault(w)) /\ (\A p \in Post : ~Lapse(p))
  BY SmoothBefore
<1>3. ASSUME NEW w \in Worker, NEW j \in Job, Take(w, j) PROVE ChildrenFirst'
  <2>1. /\ status' = status /\ parent' = parent
        /\ pc'[w] = "lock" /\ run'[w].result = "none"
        /\ \A v \in Worker \ {w} : pc'[v] = pc[v] /\ run'[v] = run[v]
    BY <1>1, <1>3 DEF Take, Go, Invocation, dbVars
  <2>2. \A v \in Worker : InLine(v)'
    BY <1>2, <2>1 DEF ChildrenFirst, InLine, NotYet, BeforeCommit, PostOf
  <2> QED
    BY <1>2, <2>1, <2>2 DEF ChildrenFirst, SeenRight, AllOut
<1>4. ASSUME NEW w \in Worker, Process(w) PROVE ChildrenFirst'
  <2>1. (Onward(w) \/ Ends(w)) /\ InLine(w)' /\ Kept(w)
    BY <1>2, <1>4, OnwardSteps, EarlyStepsInLine, LateStepsInLine, EndsInLine DEF Process
  <2>2. /\ \A v \in Worker : InLine(v)'
        /\ \A p \in Post : status'[p] \notin Withdrawn
        /\ AllOut => AllOut'
        /\ \A v \in Worker \ {w} : SeenRight(v)'
    BY <1>2, <2>1, OthersInLine
  <2>3. SeenRight(w)'
    BY <1>2, <1>4, <2>2, ReadsAreRight
  <2>4. parent' = "PUBLISHED" => AllOut'
    BY <1>2, <1>4, <2>2, ParentIsRight
  <2> QED
    BY <2>2, <2>3, <2>4 DEF ChildrenFirst
<1>5. ASSUME NEW w \in Worker, Crash(w) PROVE ChildrenFirst'
  <2>1. Ends(w) /\ InLine(w)' /\ Kept(w) /\ parent' = parent
    BY <1>2, <1>5, EndsInLine
  <2>2. /\ \A v \in Worker : InLine(v)'
        /\ \A p \in Post : status'[p] \notin Withdrawn
        /\ AllOut => AllOut'
        /\ \A v \in Worker \ {w} : SeenRight(v)'
    BY <1>2, <2>1, OthersInLine
  <2>3. SeenRight(w)'
    BY <2>1 DEF SeenRight, Ends
  <2> QED
    BY <1>2, <2>1, <2>2, <2>3 DEF ChildrenFirst
<1>6. CASE (\E j \in Job : Stall(j)) \/ (\E p \in Post : Expire(p)) \/ UNCHANGED vars
  <2>1. status' = status /\ parent' = parent /\ pc' = pc /\ run' = run
    BY <1>6 DEF Stall, Expire, vars, dbVars
  <2> QED
    BY <1>2, <2>1 DEF ChildrenFirst, InLine, SeenRight, AllOut, PostOf
<1>7. ~Retry
  BY DEF Retry, Tidy
<1> QED
  BY <1>2, <1>3, <1>4, <1>5, <1>6, <1>7 DEF Next

(* The content post never says PUBLISHED before all its children are: when *)
(* no job runs twice at a time and no command fails, the status derived    *)
(* from a read of the children that may be out of date is still right when *)
(* it is written, through any number of crashes.                           *)
THEOREM ParentIsNeverAhead == Spec => []ParentNeverClaimsTooMuch
<1>1. CASE Tidy
  <2>1. Init => TypeInv /\ AllOwn /\ ChildrenFirst
    BY InvInit DEF PublishInv, Init, AllOwn, OwnsJob, ChildrenFirst, InLine, SeenRight, NotYet, BeforeCommit,
       NoRun, Invocation, Withdrawn
  <2>2. TypeInv /\ AllOwn /\ ChildrenFirst /\ [Next]_vars
          => (TypeInv /\ AllOwn /\ ChildrenFirst)'
    BY <1>1, TypeNext, OwnNext, ChildrenFirstNext
  <2>3. ChildrenFirst => ParentNeverClaimsTooMuch
    BY DEF ChildrenFirst, ParentNeverClaimsTooMuch, Orderly, Smooth, AllOut
  <2> QED
    BY <2>1, <2>2, <2>3, PTL DEF Spec
<1>2. CASE ~Tidy
  <2>1. ParentNeverClaimsTooMuch
    BY <1>2 DEF ParentNeverClaimsTooMuch, Orderly, Tidy
  <2> QED
    BY <2>1, PTL
<1> QED
  BY <1>1, <1>2

-----------------------------------------------------------------------------
(* The jobs.  What a worker will report is what it wrote into its post.    *)
Calm == Smooth /\ crashes = 0

Undone == {"FAILED", "REMOTE_RESULT_UNKNOWN"}

Refusals == {"account_disconnected", "fixture", "validation"}

Says(w) ==
  /\ pc[w] \in BeforeCommit \cup {"lock", "load", "catch", "after"} => run[w].result = "none"
  /\ pc[w] = "reject" => run[w].result \in Refusals
  /\ pc[w] = "after" /\ Decision(w) # "RETRY" => status[PostOf(w)] \in Undone
  /\ pc[w] \in {"parentRead", "parentWrite", "release", "finish"} =>
       \/ run[w].result \in {"published", "already_published"} /\ status[PostOf(w)] = "PUBLISHED"
       \/ run[w].result \in Refusals \cup {"failed"} /\ status[PostOf(w)] \in Undone
       \/ run[w].result = "rethrow" /\ pc[w] # "finish"
  /\ pc[w] = "dead" => bg[run[w].job] = "DEAD"

Counted(w) == pc[w] # "idle" => run[w].attempt = made[run[w].job] + 1

Ended(j) ==
  \/ status[j[1]] = "PUBLISHED" /\ bg[j] = "COMPLETED"
  \/ status[j[1]] \in Undone /\ bg[j] = "DEAD"

(* A job is waiting with no verdict, in the hands of a worker, or over.    *)
Rests(j) ==
  /\ jobState[j] # "none"
  /\ jobState[j] = "waiting" => bg[j] \in {"none", "FAILED"}
  /\ jobState[j] = "active" => /\ owner[j] \in Worker
                               /\ pc[owner[j]] # "idle" /\ run[owner[j]].job = j
  /\ jobState[j] # "active" => owner[j] = Nobody
  /\ jobState[j] \in {"completed", "failed"} => Ended(j)

(* A lock that is taken is that of a worker in the section.                *)
Locked(p) ==
  lock[p] # Nobody => /\ lock[p] \in Worker
                      /\ InSection(lock[p]) /\ PostOf(lock[p]) = p

Faithful ==
  Calm => /\ \A w \in Worker : Says(w) /\ Counted(w)
          /\ \A j \in Job : Rests(j)
          /\ \A p \in Post : Locked(p)
          /\ \A p \in Post : ext[p] # 0 => status[p] = "PUBLISHED"

(* From the lock to the call.                                              *)
LEMMA EarlyStepsSay ==
  ASSUME Tidy, TypeInv, AllOwn, Calm, Faithful, NEW w \in Worker,
         \/ Acquire(w) \/ Load(w) \/ Begin(w) \/ BeginParent(w) \/ GetAdapters(w)
         \/ Prepare(w) \/ Fence(w) \/ Call(w)
  PROVE  Says(w)'
<1>1. /\ pc \in [Worker -> Steps] /\ run \in [Worker -> RunType]
      /\ status \in [Post -> PlatformPostStatuses]
  BY DEF TypeInv, WorkersTyped, PostsTyped
<1>2. Says(w) /\ PostOf(w) \in Post
  BY PostOfType DEF Faithful, TypeInv, Acquire, Load, Begin, BeginParent, GetAdapters, Prepare,
                    Fence, Call, At
<1>3. PostOf(w)' = PostOf(w)
  BY OnwardSteps DEF Onward, PostOf
<1>4. CASE Acquire(w)
  <2>1. CASE lock[PostOf(w)] = Nobody
    <3>1. pc'[w] = "load" /\ run' = run /\ pc[w] = "lock"
      BY <1>1, <1>4, <2>1 DEF Acquire, At, Go
    <3> QED
      BY <1>2, <3>1 DEF Says, BeforeCommit
  <2>2. CASE lock[PostOf(w)] # Nobody
    <3> DEFINE v == lock[PostOf(w)]
    <3>1. v \in Worker /\ InSection(v) /\ PostOf(v) = PostOf(w)
      BY <1>2, <2>2 DEF Faithful, Locked
    <3>2. pc[w] = "lock" /\ pc[v] # "idle" /\ v # w
      BY <1>4, <3>1 DEF Acquire, At, InSection
    <3> QED
      BY <3>1, <3>2, OwnPosts
  <2> QED
    BY <2>1, <2>2
<1>5. CASE Load(w)
  <2>1. status' = status /\ pc[w] = "load" /\ run[w].result = "none"
    BY <1>2, <1>5 DEF Load, At, dbVars, Says
  <2>2. ext[PostOf(w)] # 0 => status[PostOf(w)] = "PUBLISHED"
    BY <1>2 DEF Faithful
  <2>3. \/ /\ pc'[w] = "release" /\ run'[w].result = "already_published"
           /\ status[PostOf(w)] = "PUBLISHED"
        \/ pc'[w] = "reject" /\ run'[w].result = "account_disconnected"
        \/ pc'[w] = "begin" /\ run' = run
    BY <1>1, <1>5, <2>2 DEF Load, Go, GoWith, RunType
  <2> QED
    BY <1>3, <2>1, <2>3 DEF Says, BeforeCommit, Refusals
<1>6. CASE Begin(w) \/ BeginParent(w) \/ Fence(w)
  <2>1. /\ run' = run /\ pc[w] \in BeforeCommit /\ pc'[w] \in BeforeCommit
    BY <1>1, <1>6 DEF Begin, BeginParent, Fence, At, Go, BeforeCommit
  <2> QED
    BY <1>2, <2>1 DEF Says, BeforeCommit
<1>7. CASE GetAdapters(w)
  <2>1. run[w].result = "none"
    BY <1>2, <1>7 DEF GetAdapters, At, Says, BeforeCommit
  <2>2. \/ /\ pc'[w] = "release"
           /\ \E e : run' = [run EXCEPT ![w].err = e, ![w].result = "rethrow"]
        \/ pc'[w] = "reject" /\ run' = [run EXCEPT ![w].result = "fixture"]
        \/ pc'[w] = "prepare" /\ run' = run
    BY <1>1, <1>7 DEF GetAdapters, Go, GoWith, Throw
  <2>3. \/ pc'[w] = "release" /\ run'[w].result = "rethrow"
        \/ pc'[w] = "reject" /\ run'[w].result = "fixture"
        \/ pc'[w] = "prepare" /\ run'[w].result = "none"
    BY <1>1, <2>1, <2>2 DEF RunType
  <2> QED
    BY <2>3 DEF Says, BeforeCommit, Refusals
<1>8. CASE Prepare(w)
  <2>1. run[w].result = "none"
    BY <1>2, <1>8 DEF Prepare, At, Says, BeforeCommit
  <2>2. \/ pc'[w] = "catch" /\ \E e : run' = [run EXCEPT ![w].err = e]
        \/ pc'[w] = "reject" /\ run' = [run EXCEPT ![w].result = "validation"]
        \/ pc'[w] = "fence" /\ run' = run
    BY <1>1, <1>8 DEF Prepare, Go, GoWith
  <2>3. \/ pc'[w] \in {"catch", "fence"} /\ run'[w].result = "none"
        \/ pc'[w] = "reject" /\ run'[w].result = "validation"
    BY <1>1, <2>1, <2>2 DEF RunType
  <2> QED
    BY <2>3 DEF Says, BeforeCommit, Refusals
<1>9. CASE Call(w)
  <2>1. run[w].result = "none"
    BY <1>2, <1>9 DEF Call, At, Says, BeforeCommit
  <2>2. pc'[w] \in {"commit", "catch"} /\ run'[w].result = "none"
    BY <1>1, <1>9, <2>1 DEF Call, Go, RunType
  <2> QED
    BY <2>2 DEF Says, BeforeCommit
<1> QED
  BY <1>4, <1>5, <1>6, <1>7, <1>8, <1>9

(* From the verdict to the end of the section, and the outer catch.        *)
LEMMA LateStepsSay ==
  ASSUME TypeInv, Calm, Faithful, ChildrenFirst, NEW w \in Worker,
         \/ Commit(w) \/ Reject(w) \/ Catch(w) \/ After(w)
         \/ ParentRead(w) \/ ParentWrite(w) \/ Release(w)
         \/ OuterCatch(w) /\ Decision(w) # "RETRY"
  PROVE  Says(w)'
<1>1. /\ pc \in [Worker -> Steps] /\ run \in [Worker -> RunType]
      /\ status \in [Post -> PlatformPostStatuses]
  BY DEF TypeInv, WorkersTyped, PostsTyped
<1>2. Says(w) /\ PostOf(w) \in Post /\ run[w].job \in Job
  BY PostOfType DEF Faithful, TypeInv, WorkersTyped, BusyHaveJobs, Commit, Reject, Catch, After,
                    ParentRead, ParentWrite, Release, OuterCatch, At
<1>3. PostOf(w)' = PostOf(w)
  BY OnwardSteps DEF Onward, PostOf
<1>4. CASE Commit(w)
  <2>1. status'[PostOf(w)] = "PUBLISHED" /\ pc'[w] = "parentRead"
    BY <1>1, <1>2, <1>4 DEF Commit, Go
  <2>2. run'[w].result = "published"
    BY <1>1, <1>4 DEF Commit, RunType
  <2> QED
    BY <1>3, <2>1, <2>2 DEF Says, BeforeCommit
<1>5. CASE Reject(w)
  <2>1. /\ status'[PostOf(w)] = "FAILED" /\ pc'[w] = "parentRead"
        /\ run' = run /\ run[w].result \in Refusals
    BY <1>1, <1>2, <1>5 DEF Reject, Go, At, Says
  <2> QED
    BY <1>3, <2>1 DEF Says, BeforeCommit, Undone
<1>6. CASE Catch(w)
  <2>1. pc'[w] = "after" /\ run[w].result = "none"
    BY <1>1, <1>2, <1>6 DEF Catch, Go, At, Says
  <2>2. run'[w].result = "none" /\ Decision(w)' = Decision(w)
    BY <1>1, <1>6, <2>1 DEF Catch, RunType, Decision
  <2>3. Decision(w) # "RETRY" => status'[PostOf(w)] \in Undone
    BY <1>1, <1>2, <1>6 DEF Catch, Undone
  <2> QED
    BY <1>3, <2>1, <2>2, <2>3 DEF Says, BeforeCommit
<1>7. CASE After(w)
  <2>1. pc'[w] = "parentRead" /\ status' = status
    BY <1>1, <1>7 DEF After, GoWith, Go
  <2>2. run'[w].result = IF Decision(w) = "RETRY" THEN "rethrow" ELSE "failed"
    BY <1>1, <1>7 DEF After, GoWith, RunType
  <2>3. Decision(w) # "RETRY" => status[PostOf(w)] \in Undone
    BY <1>2, <1>7 DEF After, At, Says
  <2> QED
    BY <1>3, <2>1, <2>2, <2>3 DEF Says, BeforeCommit
<1>8. CASE ParentRead(w) \/ ParentWrite(w)
  <2>1. /\ status' = status /\ pc[w] \in {"parentRead", "parentWrite"}
        /\ pc'[w] \in {"parentWrite", "release"}
    BY <1>1, <1>8 DEF ParentRead, ParentWrite, At, Go, dbVars
  <2>2. run'[w].result = run[w].result
    BY <1>1, <1>8 DEF ParentRead, ParentWrite, RunType
  <2> QED
    BY <1>2, <1>3, <2>1, <2>2 DEF Says, BeforeCommit
<1>9. CASE Release(w)
  <2>1. /\ status' = status /\ run' = run /\ pc[w] = "release"
        /\ pc'[w] = IF run[w].result = "rethrow" THEN "outer" ELSE "finish"
    BY <1>1, <1>9 DEF Release, At, Go, dbVars
  <2> QED
    BY <1>2, <1>3, <2>1 DEF Says, BeforeCommit
<1>10. CASE OuterCatch(w) /\ Decision(w) # "RETRY"
  <2>1. pc'[w] = "dead" /\ run' = run /\ bg'[run[w].job] = "DEAD"
    BY <1>1, <1>2, <1>10 DEF OuterCatch, Go, TypeInv, JobsTyped
  <2> QED
    BY <2>1 DEF Says, BeforeCommit
<1> QED
  BY <1>4, <1>5, <1>6, <1>7, <1>8, <1>9, <1>10

(* The lock of a post follows the worker in its section.                   *)
LEMMA LocksFollow ==
  ASSUME Tidy, TypeInv, AllOwn, Calm, Faithful, NEW w \in Worker, Process(w), NEW p \in Post
  PROVE  Locked(p)'
<1>1. /\ pc \in [Worker -> Steps] /\ lock \in [Post -> Worker \cup {Nobody, Orphan}]
      /\ pc[w] # "idle" /\ Locked(p)
  BY DEF TypeInv, WorkersTyped, PostsTyped, Faithful, Process, Acquire, Load, Begin, BeginParent,
         GetAdapters, Prepare, Fence, Call, Commit, Reject, Catch, After, ParentRead, ParentWrite,
         Release, Finish, OuterCatch, OuterDead, At
<1>2. PostOf(w) \in Post
  BY <1>1, PostOfType DEF TypeInv
<1>3. \A v \in Worker \ {w} : pc'[v] = pc[v] /\ run'[v] = run[v]
  BY OnwardSteps, EndSteps DEF Onward, Ends, Process
<1>4. CASE Acquire(w)
  <2>1. pc'[w] \in {"load", "finish"} /\ PostOf(w)' = PostOf(w) /\ ~InSection(w)
    BY <1>1, <1>4, OnwardSteps DEF Acquire, Go, GoWith, Onward, PostOf, At, InSection
  <2>2. CASE lock'[p] = w
    <3>1. p = PostOf(w) /\ pc'[w] = "load"
      <4>1. lock[p] # w
        BY <1>1, <2>1, PublishWorkerAssumption DEF Locked
      <4> QED
        BY <1>1, <1>2, <1>4, <2>2, <4>1 DEF Acquire, Go
    <3> QED
      BY <2>1, <2>2, <3>1 DEF Locked, InSection
  <2>3. CASE lock'[p] # w
    <3>1. lock'[p] = lock[p]
      BY <1>1, <1>2, <1>4, <2>3 DEF Acquire
    <3> QED
      BY <1>1, <1>3, <2>3, <3>1 DEF Locked, InSection, PostOf
  <2> QED
    BY <2>2, <2>3
<1>5. CASE Release(w)
  <2>1. lock'[p] = Nobody \/ (lock'[p] = lock[p] /\ lock[p] # w)
    BY <1>1, <1>2, <1>5 DEF Release, Locked
  <2> QED
    BY <1>1, <1>3, <2>1 DEF Locked, InSection, PostOf
<1>6. CASE Finish(w) \/ OuterCatch(w) \/ OuterDead(w)
  <2>1. lock' = lock /\ ~InSection(w)
    BY <1>6 DEF Finish, OuterCatch, OuterDead, At, InSection
  <2> QED
    BY <1>1, <1>3, <2>1 DEF Locked, InSection, PostOf
<1>7. CASE ~(Acquire(w) \/ Release(w) \/ Finish(w) \/ OuterCatch(w) \/ OuterDead(w))
  <2>1. lock' = lock
    BY <1>7 DEF Process, Load, Begin, BeginParent, GetAdapters, Prepare, Fence, Call, Commit, Reject,
           Catch, After, ParentRead, ParentWrite
  <2>2. PostOf(w)' = PostOf(w)
    BY <1>7, OnwardSteps DEF Process, Onward, PostOf
  <2>3. InSection(w)'
    BY <1>1, <1>7 DEF Process, Load, Begin, BeginParent, GetAdapters, Prepare, Fence, Call, Commit,
           Reject, Catch, After, ParentRead, ParentWrite, InSection, Go, GoWith, Throw
  <2> QED
    BY <1>1, <1>3, <2>1, <2>2, <2>3 DEF Locked, InSection, PostOf
<1> QED
  BY <1>4, <1>5, <1>6, <1>7

(* A step of one worker leaves the other jobs and workers as they were.    *)
LEMMA OthersFaithful ==
  ASSUME Tidy, TypeInv, AllOwn, Calm, Faithful, NEW w \in Worker, Process(w),
         Onward(w) \/ Ends(w)
  PROVE  /\ \A v \in Worker \ {w} : Says(v)' /\ Counted(v)'
         /\ \A j \in Job \ {run[w].job} : Rests(j)'
<1>1. /\ pc[w] # "idle" /\ run[w].job \in Job /\ owner[run[w].job] = w
      /\ \A v \in Worker \ {w} : pc'[v] = pc[v] /\ run'[v] = run[v]
      /\ \A p \in Post \ {PostOf(w)} : status'[p] = status[p]
  BY DEF Onward, Ends, TypeInv, WorkersTyped, BusyHaveJobs, AllOwn, OwnsJob
<1>2. \A j \in Job \ {run[w].job} : bg'[j] = bg[j]
  BY <1>1 DEF Process, Acquire, Load, Begin, BeginParent, GetAdapters, Prepare, Fence, Call, Commit,
         Reject, Catch, After, ParentRead, ParentWrite, Release, Finish, OuterCatch, OuterDead,
         TypeInv, JobsTyped
<1>3. \A j \in Job : owner[j] # w => /\ jobState'[j] = jobState[j] /\ owner'[j] = owner[j]
                                     /\ made'[j] = made[j]
  BY DEF Onward, Ends, deliveries
<1>4. ASSUME NEW v \in Worker \ {w} PROVE Says(v)' /\ Counted(v)'
  <2>1. /\ pc'[v] = pc[v] /\ run'[v] = run[v] /\ Says(v) /\ Counted(v)
        /\ PostOf(v)' = PostOf(v) /\ Decision(v)' = Decision(v)
    BY <1>1 DEF Faithful, PostOf, Decision
  <2>2. CASE pc[v] = "idle"
    BY <2>1, <2>2 DEF Says, Counted, BeforeCommit
  <2>3. CASE pc[v] # "idle"
    <3>1. run[v].job # run[w].job /\ PostOf(v) # PostOf(w) /\ PostOf(v) \in Post
      BY <1>1, <2>3, OwnPosts
    <3>2. run[v].job \in Job /\ owner[run[v].job] # w
      BY <2>3, <3>1 DEF TypeInv, WorkersTyped, BusyHaveJobs, AllOwn, OwnsJob
    <3>3. /\ status'[PostOf(v)] = status[PostOf(v)] /\ bg'[run[v].job] = bg[run[v].job]
          /\ made'[run[v].job] = made[run[v].job]
      BY <1>1, <1>2, <1>3, <3>1, <3>2
    <3> QED
      BY <2>1, <3>3 DEF Says, Counted
  <2> QED
    BY <2>2, <2>3
<1>5. ASSUME NEW j \in Job \ {run[w].job} PROVE Rests(j)'
  <2>1. Rests(j) /\ bg'[j] = bg[j]
    BY <1>2 DEF Faithful
  <2>2. owner[j] # w
    BY <2>1, PublishWorkerAssumption DEF Rests
  <2>3. jobState'[j] = jobState[j] /\ owner'[j] = owner[j]
    BY <1>3, <2>2
  <2>4. j[1] # PostOf(w) /\ j[1] \in Post
    BY <1>1 DEF Job, Tidy, PostOf
  <2>5. status'[j[1]] = status[j[1]]
    BY <1>1, <2>4
  <2> QED
    BY <1>1, <2>1, <2>2, <2>3, <2>5 DEF Rests, Ended
<1> QED
  BY <1>4, <1>5

(* A job that is given back is over, or waits for its next attempt.        *)
LEMMA OwnJobRests ==
  ASSUME Tidy, TypeInv, AllOwn, Calm, Faithful, ChildrenFirst, NEW w \in Worker, Process(w),
         NEW j \in Job, j = run[w].job
  PROVE  Rests(j)'
<1>1. /\ pc \in [Worker -> Steps] /\ run \in [Worker -> RunType]
      /\ status \in [Post -> PlatformPostStatuses]
      /\ jobState \in [Job -> {"none", "waiting", "active", "completed", "failed"}]
      /\ owner \in [Job -> Worker \cup {Nobody}] /\ made \in [Job -> Nat]
      /\ bg \in [Job -> {"none", "RUNNING", "COMPLETED", "FAILED", "DEAD"}]
  BY DEF TypeInv, WorkersTyped, PostsTyped, JobsTyped
<1>2. pc[w] # "idle"
  BY DEF Process, Acquire, Load, Begin, BeginParent, GetAdapters, Prepare, Fence, Call, Commit,
         Reject, Catch, After, ParentRead, ParentWrite, Release, Finish, OuterCatch, OuterDead, At
<1>3. run[w].job = j /\ j[1] = PostOf(w) /\ PostOf(w) \in Post
  BY <1>2, PostOfType DEF TypeInv, WorkersTyped, BusyHaveJobs, PostOf
<1>4. Owns(w) /\ Says(w) /\ Counted(w) /\ jobState[j] = "active"
  BY <1>2 DEF AllOwn, OwnsJob, Owns, Faithful
<1>5. Rests(j)
  BY <1>3 DEF Faithful
<1>6. CASE Onward(w)
  BY <1>3, <1>4, <1>6 DEF Onward, deliveries, Rests, Owns
<1>7. CASE Finish(w)
  <2>1. /\ jobState'[j] = "completed" /\ owner'[j] = Nobody /\ status' = status
        /\ bg'[j] = IF run[w].result \in {"published", "already_published", "locked"}
                      THEN "COMPLETED" ELSE "DEAD"
    BY <1>1, <1>3, <1>4, <1>7 DEF Finish, Settle, dbVars
  <2>2. \/ run[w].result \in {"published", "already_published"} /\ status[PostOf(w)] = "PUBLISHED"
        \/ run[w].result \in Refusals \cup {"failed"} /\ status[PostOf(w)] \in Undone
    BY <1>4, <1>7 DEF Finish, At, Says
  <2>3. Ended(j)'
    BY <1>3, <2>1, <2>2 DEF Ended, Refusals
  <2> QED
    BY <2>1, <2>3 DEF Rests
<1>8. CASE OuterCatch(w) /\ Decision(w) = "RETRY"
  <2>1. run[w].attempt = made[j] + 1 /\ made[j] \in Nat /\ AttemptsOf(j) \in Nat
    BY <1>1, <1>2, <1>3, <1>4, PublishWorkerAssumption DEF Counted, AttemptsOf
  <2>2. made[j] + 1 < AttemptsOf(j)
    BY <1>8, <2>1 DEF Decision, ActionOnError
  <2>3. /\ jobState'[j] = "waiting" /\ owner'[j] = Nobody /\ bg'[j] = "FAILED"
    BY <1>1, <1>3, <1>4, <1>8, <2>2 DEF OuterCatch, SettleThrown, Settle
  <2> QED
    BY <2>3 DEF Rests
<1>9. CASE OuterDead(w)
  <2>1. /\ jobState'[j] = "failed" /\ owner'[j] = Nobody
        /\ status'[PostOf(w)] = "FAILED" /\ bg' = bg /\ bg[j] = "DEAD"
    BY <1>1, <1>3, <1>4, <1>9 DEF OuterDead, Settle, At, Says
  <2>2. Ended(j)'
    BY <1>3, <2>1 DEF Ended, Undone
  <2> QED
    BY <2>1, <2>2 DEF Rests
<1> QED
  BY <1>6, <1>7, <1>8, <1>9, OnwardSteps DEF Process

LEMMA FaithfulProcess ==
  ASSUME Tidy, TypeInv, AllOwn, Calm, Calm', Faithful, ChildrenFirst,
         NEW w \in Worker, Process(w)
  PROVE  Faithful'
<1>1. /\ pc \in [Worker -> Steps] /\ run \in [Worker -> RunType]
      /\ ext \in [Post -> Nat] /\ status \in [Post -> PlatformPostStatuses]
  BY DEF TypeInv, WorkersTyped, PostsTyped
<1>2. Onward(w) \/ Ends(w)
  BY OnwardSteps, EndSteps DEF Process
<1>3. pc[w] # "idle" /\ PostOf(w) \in Post
  BY <1>2, PostOfType DEF Onward, Ends, TypeInv
<1>4. Says(w)' /\ Counted(w)'
  <2>1. CASE Onward(w)
    <3>1. Counted(w)'
      BY <2>1 DEF Onward, Counted, Faithful, deliveries
    <3>2. Says(w)'
      BY <2>1, EarlyStepsSay, LateStepsSay, EndSteps DEF Process, Onward, Ends
    <3> QED
      BY <3>1, <3>2
  <2>2. CASE Ends(w)
    BY <2>2 DEF Ends, Says, Counted, BeforeCommit
  <2> QED
    BY <1>2, <2>1, <2>2
<1>5. /\ \A v \in Worker \ {w} : Says(v)' /\ Counted(v)'
      /\ \A j \in Job \ {run[w].job} : Rests(j)'
  BY <1>2, OthersFaithful
<1>6. \A j \in Job : j = run[w].job => Rests(j)'
  BY OwnJobRests
<1>7. \A p \in Post : Locked(p)'
  BY LocksFollow
<1>8. ASSUME NEW p \in Post, ext'[p] # 0 PROVE status'[p] = "PUBLISHED"
  <2>1. \A q \in Post : ext[q] # 0 => status[q] = "PUBLISHED"
    BY DEF Faithful
  <2>2. CASE Commit(w)
    BY <1>1, <1>8, <2>1, <2>2 DEF Commit
  <2>3. CASE ~Commit(w)
    <3>1. ext' = ext
      BY <2>3 DEF Process, Acquire, Load, Begin, BeginParent, GetAdapters, Prepare, Fence, Call,
             Reject, Catch, After, ParentRead, ParentWrite, Release, Finish, OuterCatch, OuterDead,
             dbVars
    <3>2. Kept(w) /\ \A q \in Post \ {PostOf(w)} : status'[q] = status[q]
      BY <1>2, EarlyStepsInLine, LateStepsInLine, EndsInLine DEF Process, Calm, Onward, Ends
    <3> QED
      BY <1>8, <2>1, <3>1, <3>2 DEF Kept
  <2> QED
    BY <2>2, <2>3
<1> QED
  BY <1>4, <1>5, <1>6, <1>7, <1>8 DEF Faithful

LEMMA FaithfulTake ==
  ASSUME Tidy, TypeInv, AllOwn, Calm, Calm', Faithful,
         NEW w \in Worker, NEW j \in Job, Take(w, j)
  PROVE  Faithful'
<1>1. /\ pc \in [Worker -> Steps] /\ run \in [Worker -> RunType]
      /\ jobState \in [Job -> {"none", "waiting", "active", "completed", "failed"}]
      /\ owner \in [Job -> Worker \cup {Nobody}]
      /\ bg \in [Job -> {"none", "RUNNING", "COMPLETED", "FAILED", "DEAD"}]
  BY DEF TypeInv, WorkersTyped, JobsTyped
<1>2. /\ pc[w] = "idle" /\ jobState[j] = "waiting"
      /\ UNCHANGED <<status, ext, lock, made>>
      /\ \A v \in Worker \ {w} : pc'[v] = pc[v] /\ run'[v] = run[v]
      /\ \A k \in Job \ {j} : /\ jobState'[k] = jobState[k] /\ owner'[k] = owner[k]
                              /\ bg'[k] = bg[k]
  BY <1>1 DEF Take, At, Go, dbVars
<1>3. /\ pc'[w] = "lock" /\ run'[w].job = j /\ run'[w].attempt = made[j] + 1
      /\ run'[w].result = "none" /\ jobState'[j] = "active" /\ owner'[j] = w
  BY <1>1 DEF Take, Go, Invocation
<1>4. Says(w)' /\ Counted(w)'
  BY <1>2, <1>3 DEF Says, Counted, BeforeCommit
<1>5. ASSUME NEW v \in Worker \ {w} PROVE Says(v)' /\ Counted(v)'
  <2>1. Says(v) /\ Counted(v) /\ PostOf(v)' = PostOf(v) /\ Decision(v)' = Decision(v)
    BY <1>2 DEF Faithful, PostOf, Decision
  <2>2. pc[v] # "idle" => run[v].job \in Job \ {j}
    BY <1>2 DEF AllOwn, OwnsJob, TypeInv, WorkersTyped, BusyHaveJobs
  <2> QED
    BY <1>2, <2>1, <2>2 DEF Says, Counted
<1>6. ASSUME NEW k \in Job PROVE Rests(k)'
  <2>1. CASE k = j
    BY <1>3, <2>1 DEF Rests
  <2>2. CASE k # j
    BY <1>2, <2>2 DEF Rests, Ended, Faithful
  <2> QED
    BY <2>1, <2>2
<1>7. ASSUME NEW p \in Post PROVE Locked(p)'
  BY <1>2 DEF Locked, Faithful, InSection, PostOf
<1> QED
  BY <1>2, <1>4, <1>5, <1>6, <1>7 DEF Faithful

LEMMA FaithfulNext ==
  Tidy /\ TypeInv /\ AllOwn /\ ChildrenFirst /\ Faithful /\ [Next]_vars => Faithful'
<1> SUFFICES ASSUME Tidy, TypeInv, AllOwn, ChildrenFirst, Faithful, [Next]_vars, Calm'
             PROVE  Faithful'
  BY DEF Faithful
<1>1. /\ Calm
      /\ \A w \in Worker : ~Fault(w) /\ ~Crash(w)
      /\ \A p \in Post : ~Lapse(p)
  BY SmoothBefore DEF Calm
<1>2. ASSUME NEW j \in Job, Stall(j) PROVE FALSE
  BY <1>1, <1>2, PublishWorkerAssumption DEF Stall, Tidy, Faithful, Rests
<1>3. ASSUME NEW p \in Post, Expire(p) PROVE FALSE
  BY <1>1, <1>3, PublishWorkerAssumption DEF Expire, Faithful, Locked
<1>4. CASE UNCHANGED vars
  BY <1>1, <1>4 DEF vars, dbVars, deliveries, Faithful, Says, Counted, Rests, Ended, Locked,
         InSection, PostOf, Decision
<1>5. ~Retry
  BY DEF Retry, Tidy
<1> QED
  BY <1>1, <1>2, <1>3, <1>4, <1>5, FaithfulProcess, FaithfulTake DEF Next

(* When nothing crashes or fails and no job runs twice at a time, the end  *)
(* of a job and the end of its post are one: the jobs that are over say    *)
(* what became of their posts, no post is left half-way, and no job that   *)
(* was recorded as dead is tried again.                                    *)
THEOREM JobsTellTheTruth == Spec => []JobsAgreeWithPosts
<1>1. CASE Tidy
  <2>1. Init => TypeInv /\ AllOwn /\ ChildrenFirst /\ Faithful
    <3> SUFFICES ASSUME Init PROVE TypeInv /\ AllOwn /\ ChildrenFirst /\ Faithful
      OBVIOUS
    <3>1. TypeInv /\ AllOwn /\ ChildrenFirst
      BY InvInit DEF PublishInv, Init, AllOwn, OwnsJob, ChildrenFirst, InLine, SeenRight, NotYet,
         BeforeCommit, NoRun, Invocation, Withdrawn
    <3>2. \A j \in Job : Rests(j)
      BY <1>1 DEF Init, Rests, Job, Tidy
    <3>3. \A w \in Worker : Says(w) /\ Counted(w)
      BY DEF Init, Says, Counted, BeforeCommit
    <3>4. \A p \in Post : Locked(p) /\ ext[p] = 0
      BY DEF Init, Locked
    <3> QED
      BY <3>1, <3>2, <3>3, <3>4 DEF Faithful
  <2>2. TypeInv /\ AllOwn /\ ChildrenFirst /\ Faithful /\ [Next]_vars
          => (TypeInv /\ AllOwn /\ ChildrenFirst /\ Faithful)'
    BY <1>1, TypeNext, OwnNext, ChildrenFirstNext, FaithfulNext
  <2>3. TypeInv /\ Faithful => JobsAgreeWithPosts
    <3> SUFFICES ASSUME TypeInv, Faithful, Calm PROVE JobsAgreeWithPosts
      BY DEF JobsAgreeWithPosts, NothingLeftHalfway, DeadJobsRest, Calm, Smooth, Orderly
    <3>1. \A j \in Job : Rests(j) /\ jobState[j] \in {"none", "waiting", "active", "completed", "failed"}
      BY DEF Faithful, TypeInv, JobsTyped
    <3> QED
      BY <3>1 DEF JobsAgreeWithPosts, NothingLeftHalfway, DeadJobsRest, Quiet, Rests, Ended, Undone
  <2> QED
    BY <2>1, <2>2, <2>3, PTL DEF Spec
<1>2. CASE ~Tidy
  <2>1. JobsAgreeWithPosts
    BY <1>2 DEF JobsAgreeWithPosts, NothingLeftHalfway, DeadJobsRest, Orderly, Tidy
  <2> QED
    BY <2>1, PTL
<1> QED
  BY <1>1, <1>2
=============================================================================
