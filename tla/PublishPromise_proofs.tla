----------------------- MODULE PublishPromise_proofs ------------------------
(***************************************************************************)
(* Two things the publish workers promise the author, for any number of    *)
(* posts, workers, attempts and redelivered jobs: PUBLISHED is terminal,   *)
(* whatever crashes; and they implement the promise of PublishPromise, if  *)
(* no answer is ambiguous and nothing fails.                               *)
(***************************************************************************)
EXTENDS PublishWorker_proofs

-----------------------------------------------------------------------------
(* PUBLISHED is terminal, for any number of posts, workers, crashes and    *)
(* redeliveries.  A worker that may still write another status is alone in *)
(* the section with the post it found unpublished; the one write without   *)
(* the lock, in the outer catch, is never reached, because what leaves the *)
(* section as an exception is an error that is to be retried.              *)

(* The database and the lock answer, and the adapter factory does too.     *)
Undisturbed == faults = 0 /\ lapses = 0 /\ AdapterErrors = {}

BeforeVerdict == BeforeCommit \cup {"reject", "catch"}

(* Where the worker is and what it will throw agree with its post.         *)
OnTrack(w) ==
  /\ pc[w] \in BeforeVerdict => status[PostOf(w)] # "PUBLISHED"
  /\ pc[w] = "outer" => run[w].result = "rethrow"
  /\ run[w].result = "rethrow" =>
       pc[w] \in {"parentRead", "parentWrite", "release", "outer"} /\ Decision(w) = "RETRY"
  /\ pc[w] # "dead"

AllOnTrack == Undisturbed => \A w \in Worker : OnTrack(w)

(* A worker's step touches its own post, and that only in the section.     *)
LEMMA OneStepOnTrack ==
  ASSUME PublishInv, AllOnTrack, NEW w \in Worker,
         \A v \in Worker \ {w} : pc'[v] = pc[v] /\ run'[v] = run[v],
         UNCHANGED <<faults, lapses>>,
         \A p \in Post : status'[p] # status[p] => InSection(w) /\ PostOf(w) = p,
         Undisturbed => OnTrack(w)'
  PROVE  AllOnTrack'
<1> SUFFICES ASSUME Undisturbed', NEW v \in Worker PROVE OnTrack(v)'
  BY DEF AllOnTrack
<1>1. Undisturbed
  BY DEF Undisturbed
<1>2. CASE v = w
  BY <1>1, <1>2
<1>3. CASE v # w
  <2>1. OnTrack(v)
    BY <1>1 DEF AllOnTrack
  <2>2. pc'[v] = pc[v] /\ run'[v] = run[v] /\ PostOf(v)' = PostOf(v) /\ Decision(v)' = Decision(v)
    BY <1>3 DEF PostOf, Decision
  <2>3. ASSUME pc[v] \in BeforeVerdict PROVE status'[PostOf(v)] = status[PostOf(v)]
    <3>1. InSection(v) /\ PostOf(v) \in Post
      BY <2>3, PostOfType DEF PublishInv, TypeInv, BeforeVerdict, BeforeCommit, InSection
    <3> QED
      BY <1>1, <1>3, <3>1, Alone DEF PublishInv, Undisturbed
  <2> QED
    BY <2>1, <2>2, <2>3 DEF OnTrack
<1> QED
  BY <1>2, <1>3

(* From the delivery to the call: nobody has published the post.           *)
LEMMA EarlyStepsOnTrack ==
  ASSUME PublishInv, AllOnTrack, NEW w \in Worker,
         \/ \E j \in Job : Take(w, j)
         \/ Acquire(w) \/ Load(w) \/ Begin(w) \/ BeginParent(w) \/ GetAdapters(w)
         \/ Prepare(w) \/ Fence(w) \/ Call(w)
  PROVE  AllOnTrack'
<1> USE DEF PublishInv, TypeInv
<1>1. pc \in [Worker -> Steps] /\ run \in [Worker -> RunType]
  BY DEF WorkersTyped
<1>2. CASE \E j \in Job : Take(w, j)
  <2>1. PICK j \in Job : Take(w, j)
    BY <1>2
  <2>2. pc'[w] = "lock" /\ run'[w].result = "none"
    BY <1>1, <2>1 DEF Take, Go, Invocation
  <2>3. OnTrack(w)'
    BY <2>2 DEF OnTrack, BeforeVerdict, BeforeCommit
  <2> QED
    BY <1>1, <2>1, <2>3, OneStepOnTrack DEF Take, Go, dbVars, failures
<1>3. CASE Acquire(w)
  <2>1. \/ pc' = [pc EXCEPT ![w] = "load"] /\ run' = run
        \/ pc' = [pc EXCEPT ![w] = "finish"] /\ run' = [run EXCEPT ![w].result = "locked"]
    BY <1>3 DEF Acquire, Go, GoWith
  <2>2. /\ pc[w] = "lock" /\ pc'[w] \in {"load", "finish"}
        /\ run[w].result # "rethrow" => run'[w].result # "rethrow"
    BY <1>1, <1>3, <2>1 DEF Acquire, At, RunType
  <2>3. Undisturbed => OnTrack(w)'
    BY <2>2 DEF AllOnTrack, OnTrack, BeforeVerdict, BeforeCommit
  <2>4. \A v \in Worker \ {w} : pc'[v] = pc[v] /\ run'[v] = run[v]
    BY <1>1, <2>1
  <2> QED
    BY <1>3, <2>3, <2>4, OneStepOnTrack DEF Acquire, dbVars, failures
<1>4. CASE Load(w)
  <2>1. \/ pc' = [pc EXCEPT ![w] = "release"] /\ run' = [run EXCEPT ![w].result = "already_published"]
        \/ /\ pc' = [pc EXCEPT ![w] = "reject"] /\ run' = [run EXCEPT ![w].result = "account_disconnected"]
           /\ status[PostOf(w)] # "PUBLISHED"
        \/ pc' = [pc EXCEPT ![w] = "begin"] /\ run' = run /\ status[PostOf(w)] # "PUBLISHED"
    BY <1>4 DEF Load, Go, GoWith
  <2>2. status' = status /\ pc[w] = "load"
    BY <1>4 DEF Load, dbVars, At
  <2>4. PostOf(w)' = PostOf(w) /\ (run[w].result # "rethrow" => run'[w].result # "rethrow")
    BY <1>1, <2>1 DEF RunType, PostOf
  <2>5. /\ pc'[w] \in {"release", "reject", "begin"}
        /\ pc'[w] \in BeforeVerdict => status[PostOf(w)] # "PUBLISHED"
    BY <1>1, <2>1 DEF BeforeVerdict, BeforeCommit
  <2>3. Undisturbed => OnTrack(w)'
    BY <2>2, <2>4, <2>5 DEF AllOnTrack, OnTrack
  <2>8. \A v \in Worker \ {w} : pc'[v] = pc[v] /\ run'[v] = run[v]
    BY <1>1, <2>1
  <2> QED
    BY <1>4, <2>2, <2>3, <2>8, OneStepOnTrack DEF Load, failures
<1>5. CASE Begin(w)
  <2>1. PostOf(w) \in Post /\ status \in [Post -> PlatformPostStatuses] /\ InSection(w) /\ pc[w] = "begin"
    BY <1>5, PostOfType DEF Begin, At, PostsTyped, InSection
  <2>2. pc' = [pc EXCEPT ![w] = "beginParent"] /\ run' = run /\ status'[PostOf(w)] = "PROCESSING"
    BY <1>5, <2>1 DEF Begin, Go
  <2>3. Undisturbed => OnTrack(w)'
    BY <1>1, <2>1, <2>2 DEF AllOnTrack, OnTrack, BeforeVerdict, BeforeCommit, Decision, PostOf
  <2>8. \A v \in Worker \ {w} : pc'[v] = pc[v] /\ run'[v] = run[v]
    BY <1>1, <2>2
  <2>4. \A p \in Post : status'[p] # status[p] => InSection(w) /\ PostOf(w) = p
    BY <1>5, <2>1 DEF Begin
  <2> QED
    BY <1>5, <2>3, <2>4, <2>8, OneStepOnTrack DEF Begin, failures
<1>6. CASE BeginParent(w) \/ Fence(w)
  <2>1. /\ pc[w] \in BeforeCommit /\ run' = run /\ status' = status
        /\ pc' = [pc EXCEPT ![w] = "adapters"] \/ pc' = [pc EXCEPT ![w] = "call"]
    BY <1>6 DEF BeginParent, Fence, At, Go, BeforeCommit
  <2>2. Undisturbed => OnTrack(w)'
    BY <1>1, <2>1 DEF AllOnTrack, OnTrack, BeforeVerdict, BeforeCommit, Decision, PostOf
  <2>8. \A v \in Worker \ {w} : pc'[v] = pc[v] /\ run'[v] = run[v]
    BY <1>1, <2>1
  <2> QED
    BY <1>6, <2>1, <2>2, <2>8, OneStepOnTrack DEF BeginParent, Fence, failures
<1>7. CASE GetAdapters(w)
  <2>1. status' = status /\ pc[w] \in BeforeCommit
    BY <1>7 DEF GetAdapters, dbVars, At, BeforeCommit
  <2>2. CASE Undisturbed
    <3>1. \/ pc' = [pc EXCEPT ![w] = "reject"] /\ run' = [run EXCEPT ![w].result = "fixture"]
          \/ pc' = [pc EXCEPT ![w] = "prepare"] /\ run' = run
      BY <1>7, <2>2 DEF GetAdapters, GoWith, Go, Undisturbed
    <3>4. PostOf(w)' = PostOf(w) /\ (run[w].result # "rethrow" => run'[w].result # "rethrow")
      BY <1>1, <3>1 DEF RunType, PostOf
    <3>5. pc'[w] \in {"reject", "prepare"}
      BY <1>1, <3>1
    <3>2. OnTrack(w)'
      BY <2>1, <2>2, <3>4, <3>5 DEF AllOnTrack, OnTrack, BeforeVerdict, BeforeCommit
    <3>3. \A v \in Worker \ {w} : pc'[v] = pc[v] /\ run'[v] = run[v]
      BY <1>1, <3>1
    <3> QED
      BY <1>7, <2>1, <3>2, <3>3, OneStepOnTrack DEF GetAdapters, failures
  <2>3. CASE ~Undisturbed
    BY <1>7, <2>3 DEF GetAdapters, AllOnTrack, Undisturbed, failures
  <2> QED
    BY <2>2, <2>3
<1>8. CASE Prepare(w)
  <2>1. status' = status /\ pc[w] \in BeforeCommit
    BY <1>8 DEF Prepare, At, BeforeCommit
  <2>2. \/ pc' = [pc EXCEPT ![w] = "fence"] /\ run' = run
        \/ pc' = [pc EXCEPT ![w] = "reject"] /\ run' = [run EXCEPT ![w].result = "validation"]
        \/ \E e \in PrepareErrors : pc' = [pc EXCEPT ![w] = "catch"] /\ run' = [run EXCEPT ![w].err = e]
    BY <1>8 DEF Prepare, Go, GoWith
  <2>4. PostOf(w)' = PostOf(w) /\ (run[w].result # "rethrow" => run'[w].result # "rethrow")
    BY <1>1, <2>2 DEF RunType, PostOf
  <2>5. pc'[w] \in {"fence", "reject", "catch"}
    BY <1>1, <2>2
  <2>3. Undisturbed => OnTrack(w)'
    BY <2>1, <2>4, <2>5 DEF AllOnTrack, OnTrack, BeforeVerdict, BeforeCommit
  <2>8. \A v \in Worker \ {w} : pc'[v] = pc[v] /\ run'[v] = run[v]
    BY <1>1, <2>2
  <2> QED
    BY <1>8, <2>1, <2>3, <2>8, OneStepOnTrack DEF Prepare, failures
<1>9. CASE Call(w)
  <2>1. status' = status /\ pc[w] \in BeforeCommit
    BY <1>9 DEF Call, dbVars, At, BeforeCommit
  <2>2. \/ pc' = [pc EXCEPT ![w] = "commit"] /\ \E n : run' = [run EXCEPT ![w].copy = n]
        \/ \E e \in PublishErrors : pc' = [pc EXCEPT ![w] = "catch"] /\ run' = [run EXCEPT ![w].err = e]
    BY <1>9 DEF Call, Go
  <2>4. PostOf(w)' = PostOf(w) /\ (run[w].result # "rethrow" => run'[w].result # "rethrow")
    BY <1>1, <2>2 DEF RunType, PostOf
  <2>5. pc'[w] \in {"commit", "catch"}
    BY <1>1, <2>2
  <2>3. Undisturbed => OnTrack(w)'
    BY <2>1, <2>4, <2>5 DEF AllOnTrack, OnTrack, BeforeVerdict, BeforeCommit
  <2>8. \A v \in Worker \ {w} : pc'[v] = pc[v] /\ run'[v] = run[v]
    BY <1>1, <2>2
  <2> QED
    BY <1>9, <2>1, <2>3, <2>8, OneStepOnTrack DEF Call, failures
<1> QED
  BY <1>2, <1>3, <1>4, <1>5, <1>6, <1>7, <1>8, <1>9

(* From the verdict to the end of the section.                             *)
LEMMA LateStepsOnTrack ==
  ASSUME PublishInv, AllOnTrack, NEW w \in Worker,
         \/ Commit(w) \/ Reject(w) \/ Catch(w) \/ After(w)
         \/ ParentRead(w) \/ ParentWrite(w) \/ Release(w)
  PROVE  AllOnTrack'
<1> USE DEF PublishInv, TypeInv
<1>1. /\ pc \in [Worker -> Steps] /\ run \in [Worker -> RunType]
      /\ status \in [Post -> PlatformPostStatuses]
  BY DEF WorkersTyped, PostsTyped
<1>2. CASE Commit(w) \/ Reject(w) \/ Catch(w)
  <2>1. pc[w] \in BeforeVerdict /\ InSection(w) /\ PostOf(w) \in Post
    BY <1>2, PostOfType DEF Commit, Reject, Catch, At, InSection, BeforeVerdict, BeforeCommit
  <2>2. /\ pc' = [pc EXCEPT ![w] = "parentRead"] \/ pc' = [pc EXCEPT ![w] = "after"]
        /\ \E s : status' = [status EXCEPT ![PostOf(w)] = s]
    BY <1>2 DEF Commit, Reject, Catch, Go
  <2>3. \A v \in Worker \ {w} : pc'[v] = pc[v] /\ run'[v] = run[v]
    BY <1>1, <1>2, <2>2 DEF Commit, Reject, Catch
  <2>4. run[w].result # "rethrow" => run'[w].result # "rethrow"
    <3>1. CASE Commit(w)
      <4> DEFINE r == [run[w] EXCEPT !.result = "published", !.copy = 0]
      <4>1. run' = [run EXCEPT ![w] = r]
        BY <1>1, <3>1 DEF Commit
      <4>2. r.result = "published"
        BY <1>1 DEF RunType
      <4> HIDE DEF r
      <4> QED
        BY <1>1, <4>1, <4>2
    <3>2. CASE Reject(w)
      BY <3>2 DEF Reject
    <3>3. CASE Catch(w)
      BY <1>1, <3>3 DEF Catch, RunType
    <3> QED
      BY <1>2, <3>1, <3>2, <3>3
  <2>5. pc'[w] \in {"parentRead", "after"}
    BY <1>1, <2>2
  <2>6. Undisturbed => OnTrack(w)'
    BY <2>1, <2>4, <2>5 DEF AllOnTrack, OnTrack, BeforeVerdict, BeforeCommit
  <2>7. \A p \in Post : status'[p] # status[p] => InSection(w) /\ PostOf(w) = p
    BY <1>1, <2>1, <2>2
  <2> QED
    BY <1>2, <2>3, <2>6, <2>7, OneStepOnTrack DEF Commit, Reject, Catch, failures
<1>3. CASE After(w)
  <2> DEFINE r == IF Decision(w) = "RETRY" THEN "rethrow" ELSE "failed"
  <2>1. pc' = [pc EXCEPT ![w] = "parentRead"] /\ run' = [run EXCEPT ![w].result = r]
    BY <1>3 DEF After, GoWith, Go
  <2>2. r = "rethrow" => Decision(w) = "RETRY"
    OBVIOUS
  <2> HIDE DEF r
  <2>3. run'[w].result = r /\ Decision(w)' = Decision(w)
    BY <1>1, <2>1 DEF RunType, Decision
  <2>4. pc'[w] = "parentRead" /\ \A v \in Worker \ {w} : pc'[v] = pc[v] /\ run'[v] = run[v]
    BY <1>1, <2>1
  <2>5. OnTrack(w)'
    BY <2>2, <2>3, <2>4 DEF OnTrack, BeforeVerdict, BeforeCommit
  <2> QED
    BY <1>3, <2>4, <2>5, OneStepOnTrack DEF After, failures
<1>4. CASE ParentRead(w) \/ ParentWrite(w)
  <2>1. /\ pc[w] \in {"parentRead", "parentWrite"} /\ \E x : run' = [run EXCEPT ![w].seen = x]
        /\ pc' = [pc EXCEPT ![w] = "parentWrite"] \/ pc' = [pc EXCEPT ![w] = "release"]
    BY <1>4 DEF ParentRead, ParentWrite, At, Go
  <2>2. /\ run'[w].result = run[w].result /\ Decision(w)' = Decision(w)
        /\ pc'[w] \in {"parentWrite", "release"}
    BY <1>1, <2>1 DEF RunType, Decision
  <2>3. \A v \in Worker \ {w} : pc'[v] = pc[v] /\ run'[v] = run[v]
    BY <1>1, <2>1
  <2>4. Undisturbed => OnTrack(w)'
    BY <2>1, <2>2 DEF AllOnTrack, OnTrack, BeforeVerdict, BeforeCommit
  <2> QED
    BY <1>4, <2>3, <2>4, OneStepOnTrack DEF ParentRead, ParentWrite, dbVars, failures
<1>5. CASE Release(w)
  <2>1. /\ pc[w] = "release" /\ run' = run
        /\ pc' = [pc EXCEPT ![w] = IF run[w].result = "rethrow" THEN "outer" ELSE "finish"]
    BY <1>5 DEF Release, At, Go
  <2>2. Decision(w)' = Decision(w) /\ pc'[w] = IF run[w].result = "rethrow" THEN "outer" ELSE "finish"
    BY <1>1, <2>1 DEF Decision
  <2>3. \A v \in Worker \ {w} : pc'[v] = pc[v] /\ run'[v] = run[v]
    BY <1>1, <2>1
  <2>4. Undisturbed => OnTrack(w)'
    BY <2>1, <2>2 DEF AllOnTrack, OnTrack, BeforeVerdict, BeforeCommit
  <2> QED
    BY <1>5, <2>3, <2>4, OneStepOnTrack DEF Release, dbVars, failures
<1> QED
  BY <1>2, <1>3, <1>4, <1>5

(* The end of the job, by completion, by an error or by a crash.           *)
LEMMA EndsOnTrack ==
  ASSUME PublishInv, AllOnTrack, NEW w \in Worker,
         Finish(w) \/ OuterCatch(w) \/ OuterDead(w) \/ Crash(w) \/ Fault(w)
  PROVE  AllOnTrack'
<1> USE DEF PublishInv, TypeInv
<1>1. pc \in [Worker -> Steps] /\ run \in [Worker -> RunType]
  BY DEF WorkersTyped
<1>2. ASSUME Stop(w), UNCHANGED <<status, faults, lapses>> PROVE AllOnTrack'
  <2>1. pc' = [pc EXCEPT ![w] = "idle"] /\ run' = [run EXCEPT ![w] = NoRun] /\ NoRun.result = "none"
    BY <1>2 DEF Stop, Go, NoRun, Invocation
  <2>2. pc'[w] = "idle" /\ run'[w].result = "none"
    BY <1>1, <2>1
  <2>3. OnTrack(w)'
    BY <2>2 DEF OnTrack, BeforeVerdict, BeforeCommit
  <2>4. \A v \in Worker \ {w} : pc'[v] = pc[v] /\ run'[v] = run[v]
    BY <1>1, <2>1
  <2> QED
    BY <1>2, <2>3, <2>4, OneStepOnTrack
<1>3. CASE Finish(w) \/ Crash(w)
  BY <1>2, <1>3 DEF Finish, Crash, dbVars, failures
<1>4. CASE OuterCatch(w)
  <2>1. CASE Decision(w) = "RETRY"
    BY <1>2, <1>4, <2>1 DEF OuterCatch, dbVars, failures
  <2>2. CASE Decision(w) # "RETRY"
    BY <1>4, <2>2 DEF OuterCatch, At, AllOnTrack, OnTrack, Undisturbed, failures
  <2> QED
    BY <2>1, <2>2
<1>5. CASE OuterDead(w)
  BY <1>5 DEF OuterDead, At, AllOnTrack, OnTrack, Undisturbed, failures
<1>6. CASE Fault(w)
  <2>1. faults' = faults + 1 /\ faults \in Nat
    BY <1>6 DEF Fault, PostsTyped
  <2> QED
    BY <2>1 DEF AllOnTrack, Undisturbed
<1> QED
  BY <1>3, <1>4, <1>5, <1>6

(* Every step keeps the workers on track.                                  *)
LEMMA OnTrackNext == PublishInv /\ AllOnTrack /\ [Next]_vars => AllOnTrack'
<1> SUFFICES ASSUME PublishInv, AllOnTrack, [Next]_vars PROVE AllOnTrack'
  OBVIOUS
<1>1. ASSUME UNCHANGED <<pc, run, status, faults, lapses>> PROVE AllOnTrack'
  BY <1>1 DEF AllOnTrack, OnTrack, Undisturbed, Decision, PostOf
<1>2. CASE (\E j \in Job : Stall(j)) \/ (\E p \in Post : Expire(p)) \/ UNCHANGED vars
  BY <1>1, <1>2 DEF Stall, Expire, vars, dbVars, failures
<1>3. ASSUME NEW p \in Post, Lapse(p) PROVE AllOnTrack'
  <2>1. lapses' = lapses + 1 /\ lapses \in Nat
    BY <1>3 DEF Lapse, PublishInv, TypeInv, PostsTyped
  <2> QED
    BY <2>1 DEF AllOnTrack, Undisturbed
<1>4. ASSUME NEW w \in Worker, (\E j \in Job : Take(w, j)) \/ Process(w) \/ Fault(w) \/ Crash(w)
      PROVE  AllOnTrack'
  BY <1>4, EarlyStepsOnTrack, LateStepsOnTrack, EndsOnTrack DEF Process
<1>5. CASE Retry
  <2>1. UNCHANGED <<pc, run, failures>> /\ \A p \in Post : status'[p] = "PUBLISHED" => status[p] = "PUBLISHED"
    BY <1>5 DEF Retry
  <2>2. \A w \in Worker : pc[w] # "idle" => PostOf(w) \in Post
    BY PostOfType DEF PublishInv, TypeInv
  <2> QED
    BY <2>1, <2>2 DEF AllOnTrack, OnTrack, Undisturbed, Decision, PostOf, BeforeVerdict,
                      BeforeCommit, failures
<1> QED
  BY <1>2, <1>3, <1>4, <1>5 DEF Next

(* Nobody writes over PUBLISHED.                                           *)
LEMMA PublishedStep ==
  ASSUME PublishInv, AllOnTrack, [Next]_vars, Undisturbed, NEW p \in Post, status[p] = "PUBLISHED"
  PROVE  status'[p] = "PUBLISHED"
<1>1. status \in [Post -> PlatformPostStatuses]
  BY DEF PublishInv, TypeInv, PostsTyped
<1>2. ASSUME NEW w \in Worker, Begin(w) \/ Reject(w) \/ Catch(w)
      PROVE  status'[p] = status[p]
  <2>1. PostOf(w) # p
    BY <1>2 DEF Begin, Reject, Catch, At, AllOnTrack, OnTrack, BeforeVerdict, BeforeCommit
  <2>2. \E s : status' = [status EXCEPT ![PostOf(w)] = s]
    BY <1>2 DEF Begin, Reject, Catch
  <2> QED
    BY <1>1, <2>1, <2>2
<1>3. ASSUME NEW w \in Worker, Commit(w) PROVE status'[p] = "PUBLISHED"
  BY <1>1, <1>3 DEF Commit
<1>4. ASSUME NEW w \in Worker PROVE ~OuterDead(w)
  BY DEF OuterDead, At, AllOnTrack, OnTrack
<1>5. ASSUME NEW w \in Worker,
             \/ \E j \in Job : Take(w, j)
             \/ Acquire(w) \/ Load(w) \/ BeginParent(w) \/ GetAdapters(w) \/ Prepare(w)
             \/ Fence(w) \/ Call(w) \/ After(w)
      PROVE  status' = status
  BY <1>5 DEF Take, Acquire, Load, BeginParent, GetAdapters, Prepare, Fence, Call, After, dbVars
<1>6. ASSUME NEW w \in Worker,
             \/ ParentRead(w) \/ ParentWrite(w) \/ Release(w) \/ Finish(w) \/ OuterCatch(w)
             \/ Fault(w) \/ Crash(w)
      PROVE  status' = status
  BY <1>6 DEF ParentRead, ParentWrite, Release, Finish, OuterCatch, Fault, Crash, dbVars
<1>7. ASSUME (\E j \in Job : Stall(j)) \/ (\E q \in Post : Expire(q) \/ Lapse(q)) \/ UNCHANGED vars
      PROVE  status' = status
  BY <1>7 DEF Stall, Expire, Lapse, vars, dbVars
<1>8. ASSUME Retry PROVE status'[p] = "PUBLISHED"
  BY <1>8 DEF Retry
<1> QED
  BY <1>2, <1>3, <1>4, <1>5, <1>6, <1>7, <1>8 DEF Next, Process

(* A published post stays published through any crashes, redeliveries and  *)
(* second jobs, as long as the database, the lock and the adapter factory  *)
(* answer.                                                                 *)
THEOREM PublishedForGood == Spec => PublishedIsTerminal
<1>1. Init => AllOnTrack
  BY DEF Init, AllOnTrack, OnTrack, BeforeVerdict, BeforeCommit, NoRun, Invocation
<1>2. Spec => []AllOnTrack
  BY <1>1, OnTrackNext, PublishInvariant, PTL DEF Spec
<1>3. PublishInv /\ AllOnTrack /\ [Next]_vars =>
        [\A p \in Post :
           faults = 0 /\ lapses = 0 /\ AdapterErrors = {} /\ status[p] = "PUBLISHED"
             => status'[p] = "PUBLISHED"]_vars
  BY PublishedStep DEF Undisturbed
<1> QED
  BY <1>2, <1>3, PublishInvariant, PTL DEF Spec, PublishedIsTerminal
-----------------------------------------------------------------------------
(* The publish workers implement the promise to the author, for any number *)
(* of posts, workers, attempts and redelivered jobs, if no answer is       *)
(* ambiguous and no process, command or lock fails.  While a worker walks  *)
(* from Begin to the outcome its post is PROCESSING, and nobody else is    *)
(* there to say otherwise; what is on the platform and not recorded is     *)
(* what it is about to record.                                             *)

(* Every error means that the platform did nothing, and nothing fails.     *)
Trusted ==
  /\ MaxFaults = 0 /\ MaxLapses = 0 /\ MaxCrashes = 0
  /\ AdapterErrors = {} /\ MultiStep = {} /\ "NETWORK" \notin PublishErrors

AtWork == {"beginParent", "adapters", "prepare", "fence", "call", "commit", "catch"}

(* Nothing failed so far.                                                  *)
NothingLost ==
  /\ faults = 0 /\ lapses = 0 /\ crashes = 0
  /\ \A p \in Post : lost[p] = 0

(* A worker at work is the only one to decide about its post.              *)
WorkIsProcessing == \A w \in Worker : pc[w] \in AtWork => status[PostOf(w)] = "PROCESSING"

RecordedArePublished == \A p \in Post : ext[p] # 0 => status[p] = "PUBLISHED"

PromiseInv ==
  PublishInv /\ AllOnTrack /\ NothingLost /\ WorkIsProcessing /\ RecordedArePublished

(* Before the verdict nothing is on the platform, unless it is about to be *)
(* recorded.                                                               *)
LEMMA NothingThereYet ==
  ASSUME Trusted, PromiseInv, NEW w \in Worker, pc[w] \in BeforeVerdict
  PROVE  /\ PostOf(w) \in Post /\ InSection(w)
         /\ status[PostOf(w)] # "PUBLISHED" /\ ext[PostOf(w)] = 0
         /\ remote[PostOf(w)] = IF pc[w] = "commit" THEN 1 ELSE 0
<1>1. InSection(w) /\ pc[w] # "idle"
  BY DEF BeforeVerdict, BeforeCommit, InSection
<1>2. PostOf(w) \in Post
  BY <1>1, PostOfType DEF PromiseInv, PublishInv, TypeInv
<1>3. Undisturbed /\ lapses = 0
  BY DEF PromiseInv, NothingLost, Undisturbed, Trusted
<1>4. status[PostOf(w)] # "PUBLISHED"
  BY <1>3 DEF PromiseInv, AllOnTrack, OnTrack
<1>5. ext[PostOf(w)] = 0 /\ lost[PostOf(w)] = 0
  BY <1>2, <1>4 DEF PromiseInv, RecordedArePublished, NothingLost
<1>6. (\E v \in Worker : At(v, "commit") /\ PostOf(v) = PostOf(w)) <=> pc[w] = "commit"
  <2>1. ASSUME NEW v \in Worker, At(v, "commit"), PostOf(v) = PostOf(w) PROVE v = w
    BY <1>1, <1>3, <2>1, Alone DEF At, InSection, PromiseInv, PublishInv
  <2> QED
    BY <2>1 DEF At
<1> QED
  BY <1>1, <1>2, <1>3, <1>4, <1>5, <1>6 DEF PromiseInv, PublishInv, CopiesAreAccountedFor

(* Nobody else is at work on a post in whose section a worker is.          *)
LEMMA OthersElsewhere ==
  ASSUME Trusted, PromiseInv, NEW w \in Worker, InSection(w),
         NEW v \in Worker, v # w, pc[v] \in AtWork
  PROVE  PostOf(v) # PostOf(w) /\ PostOf(v) \in Post
<1>1. InSection(v) /\ pc[v] # "idle"
  BY DEF AtWork, InSection
<1> QED
  BY <1>1, Alone, PostOfType DEF PromiseInv, NothingLost, PublishInv, TypeInv

(* The start.                                                              *)
LEMMA PromiseInit == Trusted /\ Init => PromiseInv
<1> SUFFICES ASSUME Trusted, Init PROVE PromiseInv
  OBVIOUS
<1>1. PublishInv
  BY InvInit
<1>2. AllOnTrack
  BY DEF Init, AllOnTrack, OnTrack, BeforeVerdict, BeforeCommit, NoRun, Invocation
<1>3. NothingLost /\ WorkIsProcessing /\ RecordedArePublished
  BY DEF Init, NothingLost, WorkIsProcessing, RecordedArePublished, AtWork
<1> QED
  BY <1>1, <1>2, <1>3 DEF PromiseInv

(* A step of a worker that does not write its post's status.               *)
LEMMA StatusKept ==
  ASSUME Trusted, PromiseInv, NEW w \in Worker,
         \A v \in Worker \ {w} : pc'[v] = pc[v] /\ run'[v] = run[v],
         PostOf(w)' = PostOf(w) \/ pc'[w] \notin AtWork,
         pc'[w] \in AtWork => pc[w] \in AtWork,
         UNCHANGED <<status, ext, lost, failures>>
  PROVE  (NothingLost /\ WorkIsProcessing /\ RecordedArePublished)'
<1>1. NothingLost' /\ RecordedArePublished'
  BY DEF PromiseInv, NothingLost, RecordedArePublished, failures
<1>2. ASSUME NEW v \in Worker, pc'[v] \in AtWork PROVE status'[PostOf(v)'] = "PROCESSING"
  <2>1. PostOf(v)' = PostOf(v) /\ pc[v] \in AtWork
    BY <1>2 DEF PostOf
  <2> QED
    BY <2>1 DEF PromiseInv, WorkIsProcessing
<1> QED
  BY <1>1, <1>2 DEF WorkIsProcessing, PostOf

(* A step of a worker that writes its post's status.                       *)
LEMMA StatusWritten ==
  ASSUME Trusted, PromiseInv, NEW w \in Worker, NEW s \in PlatformPostStatuses,
         InSection(w), status' = [status EXCEPT ![PostOf(w)] = s],
         \A v \in Worker \ {w} : pc'[v] = pc[v] /\ run'[v] = run[v],
         pc'[w] \in AtWork => s = "PROCESSING" /\ PostOf(w)' = PostOf(w)
  PROVE  WorkIsProcessing'
<1>1. PostOf(w) \in Post /\ status \in [Post -> PlatformPostStatuses]
  BY PostOfType DEF InSection, PromiseInv, PublishInv, TypeInv, PostsTyped
<1>2. ASSUME NEW v \in Worker, pc'[v] \in AtWork PROVE status'[PostOf(v)'] = "PROCESSING"
  <2>1. CASE v = w
    BY <1>1, <1>2, <2>1
  <2>2. CASE v # w
    <3>1. PostOf(v)' = PostOf(v) /\ pc[v] \in AtWork
      BY <1>2, <2>2 DEF PostOf
    <3>2. PostOf(v) # PostOf(w) /\ PostOf(v) \in Post
      BY <2>2, <3>1, OthersElsewhere
    <3> QED
      BY <1>1, <3>1, <3>2 DEF PromiseInv, WorkIsProcessing
  <2> QED
    BY <2>1, <2>2
<1> QED
  BY <1>2 DEF WorkIsProcessing, PostOf

PromiseStep == [Promise!Next]_<<Reported, remote>>

(* A step that neither writes a status nor posts anything.                 *)
LEMMA NothingToTell ==
  ASSUME UNCHANGED <<status, remote>> PROVE PromiseStep
  BY DEF PromiseStep, Reported

(* A status that is written, as it is told.                                *)
LEMMA ToldOf ==
  ASSUME PromiseInv, NEW p \in Post, NEW s \in PlatformPostStatuses,
         status' = [status EXCEPT ![p] = s]
  PROVE  /\ Reported' = [Reported EXCEPT ![p] = Told(s)]
         /\ Reported[p] = Told(status[p]) /\ status[p] \in PlatformPostStatuses
<1>1. status \in [Post -> PlatformPostStatuses]
  BY DEF PromiseInv, PublishInv, TypeInv, PostsTyped
<1>2. status' \in [Post -> PlatformPostStatuses] /\ \A q \in Post : status'[q] = IF q = p THEN s ELSE status[q]
  BY <1>1
<1>3. \A q \in Post : Reported'[q] = IF q = p THEN Told(s) ELSE Reported[q]
  BY <1>2 DEF Reported
<1>4. Reported' = [q \in Post |-> IF q = p THEN Told(s) ELSE Reported[q]]
  BY <1>3 DEF Reported
<1> QED
  BY <1>1, <1>4 DEF Reported

(* Up to the call.                                                         *)
LEMMA PromiseBefore ==
  ASSUME Trusted, PromiseInv, NEW w \in Worker,
         \/ \E j \in Job : Take(w, j)
         \/ Acquire(w) \/ Load(w) \/ BeginParent(w) \/ GetAdapters(w)
         \/ Prepare(w) \/ Fence(w)
  PROVE  (NothingLost /\ WorkIsProcessing /\ RecordedArePublished)' /\ PromiseStep
<1>1. pc \in [Worker -> Steps] /\ run \in [Worker -> RunType]
  BY DEF PromiseInv, PublishInv, TypeInv, WorkersTyped
<1>2. CASE (\E j \in Job : Take(w, j)) \/ Acquire(w) \/ Load(w)
  <2>1. /\ \E x : pc' = [pc EXCEPT ![w] = x] /\ x \in {"lock", "load", "finish", "release", "reject", "begin"}
        /\ run' = run \/ (\E r : run' = [run EXCEPT ![w] = r]) \/ (\E r : run' = [run EXCEPT ![w].result = r])
    BY <1>2 DEF Take, Acquire, Load, Go, GoWith
  <2>2. pc'[w] \notin AtWork /\ \A v \in Worker \ {w} : pc'[v] = pc[v] /\ run'[v] = run[v]
    BY <1>1, <2>1 DEF AtWork
  <2>3. UNCHANGED <<status, ext, lost, remote, failures>>
    BY <1>2 DEF Take, Acquire, Load, dbVars
  <2> QED
    BY <2>2, <2>3, StatusKept, NothingToTell
<1>3. CASE BeginParent(w) \/ GetAdapters(w) \/ Prepare(w) \/ Fence(w)
  <2>1. /\ pc[w] \in AtWork /\ \E x : pc' = [pc EXCEPT ![w] = x]
        /\ \/ run' = run \/ (\E r : run' = [run EXCEPT ![w].result = r])
           \/ \E r : run' = [run EXCEPT ![w].err = r]
    BY <1>3 DEF BeginParent, GetAdapters, Prepare, Fence, At, Go, GoWith, AtWork, Trusted
  <2>2. PostOf(w)' = PostOf(w) /\ \A v \in Worker \ {w} : pc'[v] = pc[v] /\ run'[v] = run[v]
    BY <1>1, <2>1 DEF PostOf, RunType
  <2>3. UNCHANGED <<status, ext, lost, remote, failures>>
    BY <1>3 DEF BeginParent, GetAdapters, Prepare, Fence, dbVars
  <2> QED
    BY <2>1, <2>2, <2>3, StatusKept, NothingToTell
<1> QED
  BY <1>2, <1>3

(* The call: the first copy.                                               *)
LEMMA PromiseCall ==
  ASSUME Trusted, PromiseInv, NEW w \in Worker, Call(w)
  PROVE  (NothingLost /\ WorkIsProcessing /\ RecordedArePublished)' /\ PromiseStep
<1>1. pc \in [Worker -> Steps] /\ run \in [Worker -> RunType] /\ remote \in [Post -> Nat]
  BY DEF PromiseInv, PublishInv, TypeInv, WorkersTyped, PostsTyped
<1>2. pc[w] = "call" /\ pc[w] \in AtWork /\ pc[w] \in BeforeVerdict
  BY DEF Call, At, AtWork, BeforeVerdict, BeforeCommit
<1>3. PostOf(w) \in Post /\ remote[PostOf(w)] = 0 /\ status[PostOf(w)] = "PROCESSING"
  BY <1>2, NothingThereYet DEF PromiseInv, WorkIsProcessing
<1>4. /\ \E x : pc' = [pc EXCEPT ![w] = x]
      /\ (\E r : run' = [run EXCEPT ![w].copy = r]) \/ (\E r : run' = [run EXCEPT ![w].err = r])
      /\ UNCHANGED <<status, ext, lost, failures>>
      /\ remote' = remote \/ remote' = [remote EXCEPT ![PostOf(w)] = 1]
  BY <1>1, <1>3 DEF Call, Go, MayHavePublished, Trusted, dbVars
<1>5. PostOf(w)' = PostOf(w) /\ \A v \in Worker \ {w} : pc'[v] = pc[v] /\ run'[v] = run[v]
  BY <1>1, <1>4 DEF PostOf, RunType
<1>6. (NothingLost /\ WorkIsProcessing /\ RecordedArePublished)'
  BY <1>2, <1>4, <1>5, StatusKept
<1>7. CASE remote' = remote
  BY <1>4, <1>6, <1>7, NothingToTell
<1>8. CASE remote' = [remote EXCEPT ![PostOf(w)] = 1]
  <2>1. Reported[PostOf(w)] = "open" /\ Reported' = Reported
    BY <1>3, <1>4 DEF Reported, Told
  <2> QED
    BY <1>3, <1>6, <1>8, <2>1 DEF PromiseStep, Promise!Next, Promise!Publish
<1> QED
  BY <1>4, <1>7, <1>8

(* The verdicts, and the beginning of a new attempt.                       *)
LEMMA PromiseVerdict ==
  ASSUME Trusted, PromiseInv, NEW w \in Worker, Begin(w) \/ Commit(w) \/ Reject(w) \/ Catch(w)
  PROVE  (NothingLost /\ WorkIsProcessing /\ RecordedArePublished)' /\ PromiseStep
<1> DEFINE p == PostOf(w)
<1>1. /\ pc \in [Worker -> Steps] /\ run \in [Worker -> RunType]
      /\ status \in [Post -> PlatformPostStatuses] /\ ext \in [Post -> Nat]
  BY DEF PromiseInv, PublishInv, TypeInv, WorkersTyped, PostsTyped
<1>2. pc[w] \in BeforeVerdict
  BY DEF Begin, Commit, Reject, Catch, At, BeforeVerdict, BeforeCommit
<1>3. /\ p \in Post /\ InSection(w) /\ status[p] # "PUBLISHED" /\ ext[p] = 0
      /\ remote[p] = IF pc[w] = "commit" THEN 1 ELSE 0
  BY <1>2, NothingThereYet
<1>4. PICK s \in PlatformPostStatuses :
        /\ status' = [status EXCEPT ![p] = s]
        /\ pc' = [pc EXCEPT ![w] = IF pc[w] = "begin" THEN "beginParent"
                                   ELSE IF pc[w] = "catch" THEN "after" ELSE "parentRead"]
        /\ pc[w] = "begin" => s = "PROCESSING" /\ run' = run
        /\ s = "PUBLISHED" <=> pc[w] = "commit"
        /\ pc[w] # "commit" => ext' = ext
    BY DEF Begin, Commit, Reject, Catch, At, Go, PlatformPostStatuses
<1>5. \A v \in Worker \ {w} : pc'[v] = pc[v] /\ run'[v] = run[v]
  BY <1>1, <1>4 DEF Begin, Commit, Reject, Catch
<1>6. pc'[w] \in AtWork => s = "PROCESSING" /\ PostOf(w)' = PostOf(w)
  BY <1>1, <1>4 DEF AtWork, PostOf
<1>7. WorkIsProcessing'
  BY <1>3, <1>4, <1>5, <1>6, StatusWritten
<1>8. RecordedArePublished'
  <2>1. ASSUME NEW q \in Post, ext'[q] # 0 PROVE status'[q] = "PUBLISHED"
    <3>1. CASE q = p /\ pc[w] = "commit"
      BY <1>1, <1>4, <3>1
    <3>2. CASE q = p /\ pc[w] # "commit"
      BY <1>3, <1>4, <2>1, <3>2
    <3>3. CASE q # p
      <4>1. ext'[q] = ext[q]
        BY <1>1, <1>4, <3>3 DEF Commit, Begin, Reject, Catch
      <4> QED
        BY <1>1, <1>4, <2>1, <3>3, <4>1 DEF PromiseInv, RecordedArePublished
    <3> QED
      BY <3>1, <3>2, <3>3
  <2> QED
    BY <2>1 DEF RecordedArePublished
<1>9. NothingLost' /\ remote' = remote
  BY DEF PromiseInv, NothingLost, Begin, Commit, Reject, Catch, failures
<1>10. Reported' = [Reported EXCEPT ![p] = Told(s)] /\ Reported[p] = Told(status[p])
  BY <1>3, <1>4, ToldOf
<1>11. Reported[p] \in {"open", "failed"} /\ Reported \in [Post -> {"open", "failed", "published"}]
  BY <1>1, <1>3, <1>10 DEF Reported, Told
<1>12. PromiseStep
  <2>1. CASE pc[w] = "commit"
    <3>1. status[p] = "PROCESSING"
      BY <2>1 DEF AtWork, PromiseInv, WorkIsProcessing
    <3> QED
      BY <1>3, <1>4, <1>9, <1>10, <2>1, <3>1 DEF PromiseStep, Promise!Next, Promise!Record, Told
  <2>2. CASE pc[w] # "commit"
    <3>1. Told(s) \in {"open", "failed"} /\ (pc[w] = "begin" => Told(s) = "open")
      BY <1>4, <2>2 DEF Told
    <3>2. CASE Told(s) = Reported[p]
      <4>1. Reported' = Reported
        BY <1>10, <1>11, <3>2
      <4> QED
        BY <1>9, <4>1 DEF PromiseStep
    <3>3. CASE Told(s) = "open" /\ Reported[p] = "failed"
      <4>1. Reported' = [q \in Post |-> IF q \in {p} THEN "open" ELSE Reported[q]]
        BY <1>10, <1>11, <3>3
      <4>2. Promise!TryAgain({p}) /\ {p} \in SUBSET Post
        BY <1>3, <1>9, <3>3, <4>1 DEF Promise!TryAgain
      <4> QED
        BY <4>2 DEF PromiseStep, Promise!Next
    <3>4. CASE Told(s) = "failed" /\ Reported[p] = "open"
      BY <1>3, <1>9, <1>10, <2>2, <3>4 DEF PromiseStep, Promise!Next, Promise!Fail
    <3> QED
      BY <1>11, <3>1, <3>2, <3>3, <3>4
  <2> QED
    BY <2>1, <2>2
<1> QED
  BY <1>7, <1>8, <1>9, <1>12

(* After the verdict.                                                      *)
LEMMA PromiseAfter ==
  ASSUME Trusted, PromiseInv, NEW w \in Worker,
         \/ After(w) \/ ParentRead(w) \/ ParentWrite(w) \/ Release(w)
         \/ Finish(w) \/ OuterCatch(w)
  PROVE  (NothingLost /\ WorkIsProcessing /\ RecordedArePublished)' /\ PromiseStep
<1>1. pc \in [Worker -> Steps] /\ run \in [Worker -> RunType]
  BY DEF PromiseInv, PublishInv, TypeInv, WorkersTyped
<1>2. /\ \E x \in {"parentRead", "parentWrite", "release", "outer", "finish", "idle", "dead"} :
           pc' = [pc EXCEPT ![w] = x]
      /\ \/ run' = run \/ (\E r : run' = [run EXCEPT ![w] = r])
         \/ (\E r : run' = [run EXCEPT ![w].result = r]) \/ \E r : run' = [run EXCEPT ![w].seen = r]
  BY DEF After, ParentRead, ParentWrite, Release, Finish, OuterCatch, Stop, Go, GoWith
<1>3. pc'[w] \notin AtWork /\ \A v \in Worker \ {w} : pc'[v] = pc[v] /\ run'[v] = run[v]
  BY <1>1, <1>2 DEF AtWork
<1>4. UNCHANGED <<status, ext, lost, remote, failures>>
  BY DEF After, ParentRead, ParentWrite, Release, Finish, OuterCatch, dbVars
<1> QED
  BY <1>3, <1>4, StatusKept, NothingToTell

(* Every step keeps the invariant and is a step of the promise, or none.   *)
LEMMA PromiseNext ==
  ASSUME Trusted, PromiseInv, [Next]_vars PROVE PromiseInv' /\ PromiseStep
<1>1. PublishInv' /\ AllOnTrack'
  BY InvNext, OnTrackNext DEF PromiseInv
<1>2. ASSUME UNCHANGED <<pc, run, status, ext, lost, remote, failures>>
      PROVE  (NothingLost /\ WorkIsProcessing /\ RecordedArePublished)' /\ PromiseStep
  BY <1>2, NothingToTell
  DEF PromiseInv, NothingLost, WorkIsProcessing, RecordedArePublished, PostOf, failures
<1>3. CASE (\E j \in Job : Stall(j)) \/ (\E p \in Post : Expire(p)) \/ UNCHANGED vars
  BY <1>1, <1>2, <1>3 DEF Stall, Expire, vars, dbVars, PromiseInv
<1>4. ASSUME NEW p \in Post PROVE ~Lapse(p)
  BY DEF Lapse, Trusted, PromiseInv, NothingLost
<1>5. ASSUME NEW w \in Worker PROVE ~Fault(w) /\ ~Crash(w)
  BY DEF Fault, Crash, Trusted, PromiseInv, NothingLost
<1>6. ASSUME NEW w \in Worker PROVE ~OuterDead(w)
  BY DEF OuterDead, At, Trusted, PromiseInv, NothingLost, AllOnTrack, OnTrack, Undisturbed
<1>7. ASSUME NEW w \in Worker, (\E j \in Job : Take(w, j)) \/ Process(w)
      PROVE  (NothingLost /\ WorkIsProcessing /\ RecordedArePublished)' /\ PromiseStep
  BY <1>6, <1>7, PromiseBefore, PromiseCall, PromiseVerdict, PromiseAfter DEF Process
<1>8. ASSUME NEW w \in Worker, (\E j \in Job : Take(w, j)) \/ Process(w)
      PROVE  PromiseInv' /\ PromiseStep
  BY <1>1, <1>7, <1>8 DEF PromiseInv
<1>9. CASE Retry
  <2> DEFINE again == {p \in Post : status[p] = "FAILED"}
  <2>1. /\ UNCHANGED <<pc, run, ext, lost, remote, failures>>
        /\ status' = [p \in Post |-> IF p \in again THEN "QUEUED" ELSE status[p]]
    BY <1>9 DEF Retry
  <2>2. \A w \in Worker : pc[w] \in AtWork => PostOf(w) \in Post
    BY PostOfType DEF PromiseInv, PublishInv, TypeInv, AtWork
  <2>3. (NothingLost /\ WorkIsProcessing /\ RecordedArePublished)'
    BY <2>1, <2>2
    DEF PromiseInv, NothingLost, WorkIsProcessing, RecordedArePublished, PostOf, failures
  <2>4. \A p \in again : Reported[p] = "failed"
    BY DEF Reported, Told
  <2>5. Reported' = [p \in Post |-> IF p \in again THEN "open" ELSE Reported[p]]
    BY <2>1 DEF Reported, Told
  <2>6. Promise!TryAgain(again)
    BY <2>1, <2>4, <2>5 DEF Promise!TryAgain
  <2>7. again \in SUBSET Post
    OBVIOUS
  <2> QED
    BY <1>1, <2>3, <2>6, <2>7 DEF PromiseInv, PromiseStep, Promise!Next
<1> QED
  BY <1>3, <1>4, <1>5, <1>8, <1>9 DEF Next

(* publish-post keeps the promise to the author - one copy at most, told   *)
(* published only when it is there and for good, told failed only when     *)
(* nothing is - if no answer is ambiguous and nothing fails, whatever jobs *)
(* are redelivered to however many workers.                                *)
THEOREM WorkersKeepThePromise ==
  ASSUME Trusted PROVE Spec => KeepsThePromise
<1>1. Init => Promise!Init
  BY DEF Init, Reported, Told, Promise!Init
<1>2. Init => PromiseInv
  BY PromiseInit
<1>3. PromiseInv /\ [Next]_vars => PromiseInv' /\ [Promise!Next]_<<Reported, remote>>
  BY PromiseNext DEF PromiseStep
<1> QED
  BY <1>1, <1>2, <1>3, PTL DEF Spec, KeepsThePromise, Promise!Spec
=============================================================================
