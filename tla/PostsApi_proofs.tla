--------------------------- MODULE PostsApi_proofs ---------------------------
(***************************************************************************)
(* For any number of accounts, requests, platform posts, attempts and      *)
(* crashes of the API: the types, and that what has an externalPostId does *)
(* not go out again.  The jobs of the two queues for a platform post are   *)
(* not held at the same time; so a row can get an externalPostId only from *)
(* the one worker that holds it, and that worker is then through with it.  *)
(***************************************************************************)
EXTENDS PostsApi, FiniteSetTheorems, TLAPS

Jobs == Queue \X Id
Operations == {"none", "publish", "schedule", "retry", "update", "delete"}
Steps == {"idle", "remove", "write", "enqueue", "remote", "mark", "end"}
Calls == [op : Operations, step : Steps, ids : SUBSET Id, goes : SUBSET Id,
          accts : SUBSET Account, whole : BOOLEAN]
PlatformRows == [acct : Account \cup {"none"}, ext : BOOLEAN,
                 st : PlatformPostStatuses \cup {"NONE"}]
JobStates == [tries : 0..MaxTries, st : Held \cup {"none", "delayed", "waiting", "kept"}]
Limit(j) == IF j[1] = "publish-post" THEN MaxTries ELSE 1

(* A job that waits or runs has an attempt left.                           *)
TriesAreLeft ==
  \A j \in Jobs : job[j].st \in Held \cup {"waiting", "delayed"} => job[j].tries < Limit(j)

OneWorkerPerRow ==
  \A i \in Id : job[<<"publish-post", i>>].st \in Held => job[<<"retry-failed-post", i>>].st \notin Held

HeldIsNotOut == \A j \in Jobs : job[j].st \in Held => ~row[j[2]].ext

PostsInv ==
  /\ PostsTypeOK /\ call \in [Caller -> Calls]
  /\ TriesAreLeft /\ OneWorkerPerRow /\ HeldIsNotOut
-----------------------------------------------------------------------------
(* The two queues, and the other job for the same platform post.           *)
LEMMA JobFacts ==
  /\ \A j \in Jobs : j[1] \in Queue /\ j[2] \in Id /\ j = <<j[1], j[2]>> /\ Other(j) \in Jobs
  /\ \A j \in Jobs : Limit(j) \in Nat /\ Limit(j) <= MaxTries /\ Limit(j) > 0
  /\ \A q \in Queue, i \in Id : <<q, i>> \in Jobs
BY PostsApiAssumption DEF Jobs, Queue, Other, Limit

(* Whatever the statuses of the children, the derived one is a status.     *)
LEMMA DerivedIsAStatus ==
  \A present \in SUBSET (PlatformPostStatuses \cup {"NONE"}) :
    "NONE" \notin present => DeriveContentPostStatus(present) \in PostStatuses
<1> SUFFICES ASSUME NEW present \in SUBSET (PlatformPostStatuses \cup {"NONE"}), "NONE" \notin present
             PROVE  DeriveContentPostStatus(present) \in PostStatuses
    OBVIOUS
<1> DEFINE active == present \ Withdrawn
           running == active \cap {"REMOTE_RESULT_UNKNOWN", "PROCESSING"}
<1>1. active \subseteq Settled => active \in {{}, {"PUBLISHED"}, {"FAILED"}, Settled}
      BY DEF Settled
<1>2. present = {} \/ (present # {} /\ active = {}) \/ active = {"PUBLISHED"} \/ active = {"FAILED"}
      \/ active = Settled \/ ~(active \subseteq Settled)
      BY <1>1
<1> QED BY <1>2 DEF DeriveContentPostStatus, PostStatuses

(* The derived status of a content post is one of the statuses.            *)
LEMMA ContentIsAStatus ==
  ASSUME PostsTypeOK, NEW r \in [Id -> PlatformRows]
  PROVE  Derived(r) \in PostStatuses \cup {"NONE", "GONE"}
<1> DEFINE present == {r[i].st : i \in Rows(r)}
<1>1. present \in SUBSET (PlatformPostStatuses \cup {"NONE"}) /\ "NONE" \notin present
      BY DEF Rows, PlatformRows
<1>2. DeriveContentPostStatus(present) \in PostStatuses
      BY <1>1, DerivedIsAStatus
<1> QED BY <1>2 DEF Derived

(* replaceTargets makes one row of each account.                           *)
LEMMA SequenceOfSet ==
  ASSUME NEW S, IsFiniteSet(S)
  PROVE  SetToSeq(S) \in [1..Cardinality(S) -> S] /\ Cardinality(S) \in Nat /\ Len(SetToSeq(S)) = Cardinality(S)
<1>1. Cardinality(S) \in Nat /\ ExistsBijection(1..Cardinality(S), S)
      BY FS_CardinalityType
<1>2. \E f \in [1..Cardinality(S) -> S] : IsInjective(f)
      BY <1>1 DEF ExistsBijection, Bijection, Injection, IsInjective
<1>3. SetToSeq(S) \in [1..Cardinality(S) -> S]
      BY <1>2 DEF SetToSeq
<1> QED BY <1>1, <1>3

(* A change of the targets makes rows of the type, and none gets an        *)
(* externalPostId by it.                                                   *)
LEMMA RetargetKeepsTypes ==
  ASSUME PostsTypeOK, NEW accts \in SUBSET Account, Retarget(accts)
  PROVE  /\ born' \in 0..MaxRows /\ row' \in [Id -> PlatformRows]
         /\ \A i \in Id : row'[i].ext => row[i].ext
<1> DEFINE s == SetToSeq(accts)
<1>1. IsFiniteSet(accts)
      BY FS_Subset, PostsApiAssumption
<1>2. s \in [1..Cardinality(accts) -> accts] /\ Cardinality(accts) \in Nat /\ Len(s) = Cardinality(accts)
      BY <1>1, SequenceOfSet
<1> HIDE DEF s
<1>3. born' \in 0..MaxRows
      BY <1>2 DEF Retarget, PostsTypeOK
<1>4. ASSUME NEW i \in Id
      PROVE  row'[i] \in PlatformRows /\ (row'[i].ext => row[i].ext)
  <2>1. row[i] \in PlatformRows /\ i \in Int /\ born \in Int
        BY DEF PostsTypeOK, PlatformRows, Id
  <2>2. row'[i] = IF i > born /\ i <= born + Len(s)
                  THEN [acct |-> s[i - born], st |-> "PENDING", ext |-> FALSE]
                  ELSE IF row[i].st \in Replaceable THEN Gone(i) ELSE row[i]
        BY DEF Retarget, Replaced, s
  <2>3. CASE i > born /\ i <= born + Len(s)
    <3>1. i - born \in 1..Cardinality(accts)
          BY <1>2, <2>1, <2>3
    <3>2. s[i - born] \in Account
          BY <1>2, <3>1
    <3> QED BY <2>2, <2>3, <3>2 DEF PlatformRows, PlatformPostStatuses
  <2>4. CASE ~(i > born /\ i <= born + Len(s))
        BY <2>1, <2>2, <2>4 DEF PlatformRows, Gone
  <2> QED BY <2>3, <2>4
<1>5. row' \in [Id -> PlatformRows]
      BY <1>4 DEF Retarget, Replaced
<1> QED BY <1>3, <1>4, <1>5

(* A status is set on rows that are there.                                 *)
LEMMA SettingKeepsTypes ==
  ASSUME PostsTypeOK, NEW ids, NEW s \in PlatformPostStatuses
  PROVE  /\ Setting(ids, s) \in [Id -> PlatformRows]
         /\ \A i \in Id : Setting(ids, s)[i].ext = row[i].ext
BY DEF Setting, PostsTypeOK, PlatformRows

(* Taking accounts from the list leaves numbers of rows.                   *)
LEMMA WithoutKeepsTypes ==
  ASSUME PostsTypeOK, NEW ids
  PROVE  Without(ids) \in [Account -> Nat]
BY DEF Without, PostsTypeOK

(* What is true of the jobs, in terms of their states and of the rows'     *)
(* externalPostIds.                                                        *)
JobsFit(jobs, rows) ==
  /\ jobs \in [Jobs -> JobStates]
  /\ \A j \in Jobs : jobs[j].st \in Held \cup {"waiting", "delayed"} => jobs[j].tries < Limit(j)
  /\ \A i \in Id : jobs[<<"publish-post", i>>].st \in Held => jobs[<<"retry-failed-post", i>>].st \notin Held
  /\ \A j \in Jobs : jobs[j].st \in Held => ~rows[j[2]].ext

(* Jobs are added and removed while no worker holds them.                  *)
LEMMA JobsOutsideWorkers ==
  ASSUME PostsInv, NEW rows, \A i \in Id : rows[i].ext => row[i].ext,
         NEW jobs \in [Jobs -> JobStates],
         \A j \in Jobs : \/ jobs[j] = job[j]
                         \/ jobs[j] \in {NoJob, [st |-> "waiting", tries |-> 0], [st |-> "delayed", tries |-> 0]}
                         \/ job[j].st = "delayed" /\ jobs[j] = [job[j] EXCEPT !.st = "waiting"]
  PROVE  JobsFit(jobs, rows)
<1>1. ASSUME NEW j \in Jobs
      PROVE  /\ jobs[j].st \in Held => job[j].st \in Held
             /\ jobs[j].st \in Held \cup {"waiting", "delayed"} => jobs[j].tries < Limit(j)
  <2>1. job[j] \in JobStates /\ Limit(j) > 0
        BY JobFacts DEF PostsInv, PostsTypeOK, Jobs, JobStates
  <2>2. job[j].st \in Held \cup {"waiting", "delayed"} => job[j].tries < Limit(j)
        BY DEF PostsInv, TriesAreLeft
  <2> QED BY <2>1, <2>2 DEF Held, NoJob, JobStates
<1> QED BY <1>1, JobFacts DEF JobsFit, PostsInv, OneWorkerPerRow, HeldIsNotOut, Queue

(* Adding jobs of a queue keeps what is true of the jobs.                  *)
LEMMA AddedFits ==
  ASSUME PostsInv, NEW q \in Queue, NEW ids, NEW s \in {"waiting", "delayed"}
  PROVE  JobsFit(Added(q, ids, s), row)
<1>1. ASSUME NEW j \in Jobs
      PROVE  Added(q, ids, s)[j] \in {job[j], [st |-> s, tries |-> 0]}
      BY DEF Added, Jobs
<1>2. Added(q, ids, s) \in [Jobs -> JobStates]
      BY <1>1, PostsApiAssumption DEF Added, Jobs, JobStates, PostsInv, PostsTypeOK
<1> QED BY <1>1, <1>2, JobsOutsideWorkers

(* A worker changes its job; while it holds it nobody else has the row, so *)
(* the row it marks as published is nobody else's.                         *)
LEMMA WorkerFits ==
  ASSUME PostsInv, NEW j \in Jobs, NEW new \in JobStates, NEW rows,
         new.st \in Held \cup {"waiting", "delayed"} => new.tries < Limit(j),
         new.st \in Held => job[Other(j)].st \notin Held /\ ~rows[j[2]].ext,
         \A i \in Id \ {j[2]} : rows[i].ext => row[i].ext,
         rows[j[2]].ext => row[j[2]].ext \/ job[Other(j)].st \notin Held
  PROVE  JobsFit([job EXCEPT ![j] = new], rows)
<1> DEFINE jobs == [job EXCEPT ![j] = new]
<1>1. jobs \in [Jobs -> JobStates] /\ jobs[j] = new /\ \A k \in Jobs \ {j} : jobs[k] = job[k]
      BY DEF PostsInv, PostsTypeOK, Jobs, JobStates
<1> HIDE DEF jobs
<1>2. \A k \in Jobs : jobs[k].st \in Held \cup {"waiting", "delayed"} => jobs[k].tries < Limit(k)
      BY <1>1 DEF PostsInv, TriesAreLeft
<1>3. ASSUME NEW i \in Id, jobs[<<"publish-post", i>>].st \in Held, jobs[<<"retry-failed-post", i>>].st \in Held
      PROVE  FALSE
  <2>1. <<"publish-post", i>> \in Jobs /\ <<"retry-failed-post", i>> \in Jobs
        BY JobFacts DEF Queue
  <2>2. ~(job[<<"publish-post", i>>].st \in Held /\ job[<<"retry-failed-post", i>>].st \in Held)
        BY DEF PostsInv, OneWorkerPerRow
  <2>3. CASE j = <<"publish-post", i>>
    <3>1. Other(j) = <<"retry-failed-post", i>> /\ Other(j) # j
          BY <2>3 DEF Other
    <3> QED BY <1>1, <1>3, <2>1, <2>3, <3>1
  <2>4. CASE j = <<"retry-failed-post", i>>
    <3>1. Other(j) = <<"publish-post", i>> /\ Other(j) # j
          BY <2>4 DEF Other
    <3> QED BY <1>1, <1>3, <2>1, <2>4, <3>1
  <2> QED BY <1>1, <1>3, <2>1, <2>2, <2>3, <2>4
<1>4. ASSUME NEW k \in Jobs, jobs[k].st \in Held, rows[k[2]].ext
      PROVE  FALSE
  <2>1. CASE k = j
        BY <1>1, <1>4, <2>1
  <2>2. CASE k # j
    <3>1. job[k].st \in Held /\ ~row[k[2]].ext
          BY <1>1, <1>4, <2>2 DEF PostsInv, HeldIsNotOut
    <3>2. k[2] = j[2] => k = Other(j)
          BY <2>2, JobFacts DEF Other, Queue
    <3> QED BY <1>4, <3>1, <3>2, JobFacts
  <2> QED BY <2>1, <2>2
<1>5. JobsFit(jobs, rows)
      BY <1>1, <1>2, <1>3, <1>4 DEF JobsFit
<1> QED BY <1>5 DEF jobs

(* A request goes on, or ends.                                             *)
LEMMA CallsMove ==
  ASSUME PostsInv, NEW c \in Caller, End(c) \/ \E s \in Steps : Step(c, s)
  PROVE  call' \in [Caller -> Calls]
<1>1. CASE End(c)
      BY <1>1 DEF PostsInv, End, Calls, NoCall, Operations, Steps
<1>2. ASSUME NEW s \in Steps, Step(c, s)
      PROVE  call' \in [Caller -> Calls]
      BY <1>2 DEF PostsInv, Step, Calls
<1> QED BY <1>1, <1>2

(* A call that starts is of the type.                                      *)
LEMMA CallsStart ==
  ASSUME PostsInv, NEW c \in Caller, NEW op \in Operations, NEW s \in Steps,
         NEW ids \in SUBSET Id, NEW accts \in SUBSET Account, Start(c, op, s, ids, accts)
  PROVE  call' \in [Caller -> Calls] /\ calls' \in 0..MaxCalls
<1>1. call' \in [Caller -> Calls]
      BY DEF PostsInv, Start, Calls, NoCall, Operations, Steps
<1>2. calls' \in 0..MaxCalls
      BY PostsApiAssumption DEF PostsInv, PostsTypeOK, Start, Left
<1> QED BY <1>1, <1>2

(* What a step has to show of the state it leads to.                       *)
LEMMA PostsInvFrom ==
  ASSUME PostsInv,
         content' \in PostStatuses \cup {"NONE", "GONE"}, plan' \in {"none", "future", "due"},
         row' \in [Id -> PlatformRows], born' \in 0..MaxRows, JobsFit(job', row'),
         live' \in [Account -> Nat], scan' \subseteq Id, restarted' \in BOOLEAN,
         call' \in [Caller -> Calls], calls' \in 0..MaxCalls, apiCrashes' \in 0..MaxCrashes
  PROVE  PostsInv'
<1>1. \A c \in Caller : call'[c].ids \subseteq Id /\ call'[c].accts \subseteq Account
      BY DEF Calls
<1>2. PostsTypeOK'
      BY <1>1 DEF PostsTypeOK, JobsFit, PlatformRows, JobStates, Jobs
<1>3. (TriesAreLeft /\ OneWorkerPerRow /\ HeldIsNotOut)'
      BY DEF JobsFit, TriesAreLeft, OneWorkerPerRow, HeldIsNotOut
<1> QED BY <1>2, <1>3 DEF PostsInv

(* The invariant says it of the jobs and rows as they are.                 *)
LEMMA JobsFitOf ==
  ASSUME PostsInv, NEW rows, \A i \in Id : rows[i].ext => row[i].ext
  PROVE  JobsFit(job, rows)
BY DEF PostsInv, PostsTypeOK, JobsFit, Jobs, JobStates, TriesAreLeft, OneWorkerPerRow,
   HeldIsNotOut,
       Queue

(* What stays as it is has its type.                                       *)
LEMMA AsTheyAre ==
  ASSUME PostsInv
  PROVE  /\ content \in PostStatuses \cup {"NONE", "GONE"} /\ plan \in {"none", "future", "due"}
         /\ row \in [Id -> PlatformRows] /\ born \in 0..MaxRows /\ JobsFit(job, row)
         /\ live \in [Account -> Nat] /\ scan \subseteq Id /\ restarted \in BOOLEAN
         /\ call \in [Caller -> Calls] /\ calls \in 0..MaxCalls /\ apiCrashes \in 0..MaxCrashes
BY JobsFitOf DEF PostsInv, PostsTypeOK, PlatformRows

(* The requests begin: only create gives the post its rows.                *)
LEMMA AskKeeps == ASSUME PostsInv, NEW c \in Caller, Ask(c) PROVE PostsInv'
<1> USE AsTheyAre
<1>1. CASE Create(c)
  <2>1. PICK accts \in SUBSET Account \ {{}}, timed \in BOOLEAN :
          /\ Start(c, "schedule", IF timed THEN "enqueue" ELSE "end", {}, {})
          /\ Retarget(accts)
          /\ content' = IF timed THEN "SCHEDULED" ELSE "DRAFT"
          /\ plan' = IF timed THEN "future" ELSE "none"
          /\ UNCHANGED <<job, live, scan, restarted, apiCrashes>>
        BY <1>1 DEF Create
  <2>2. call' \in [Caller -> Calls] /\ calls' \in 0..MaxCalls
        BY <2>1, CallsStart DEF Operations, Steps
  <2>3. born' \in 0..MaxRows /\ row' \in [Id -> PlatformRows] /\ \A i \in Id : row'[i].ext => row[i].ext
        BY <2>1, RetargetKeepsTypes DEF PostsInv
  <2>4. JobsFit(job', row')
        BY <2>1, <2>3, JobsFitOf
  <2> QED BY <2>1, <2>2, <2>3, <2>4, PostsInvFrom DEF PostStatuses
<1>2. CASE Request(c)
  <2>1. PICK op \in {"publish", "schedule"}, accts \in SUBSET Account : Start(c, op, "remove", {}, accts)
        BY <1>2 DEF Request
  <2>2. call' \in [Caller -> Calls] /\ calls' \in 0..MaxCalls
        BY <2>1, CallsStart DEF Operations, Steps
  <2> QED BY <1>2, <2>2, PostsInvFrom DEF Request
<1>3. CASE RetryRead(c)
  <2>1. In({"FAILED"}) \in SUBSET Id
        BY DEF In
  <2>2. Start(c, "retry", "write", In({"FAILED"}), {})
        BY <1>3 DEF RetryRead
  <2>3. "retry" \in Operations /\ "write" \in Steps /\ {} \in SUBSET Account
        BY DEF Operations, Steps
  <2>4. call' \in [Caller -> Calls] /\ calls' \in 0..MaxCalls
        BY <2>1, <2>2, <2>3, CallsStart
  <2> QED BY <1>3, <2>4, PostsInvFrom DEF RetryRead
<1>4. CASE UpdateRead(c)
  <2>1. call' \in [Caller -> Calls] /\ calls' \in 0..MaxCalls
        BY <1>4, CallsStart DEF UpdateRead, Operations, Steps
  <2> QED BY <1>4, <2>1, PostsInvFrom DEF UpdateRead
<1>5. CASE DeleteRead(c)
  <2>1. PICK asked \in SUBSET Rows(row), goes \in SUBSET Id, whole \in BOOLEAN :
          call' = [call EXCEPT ![c] = [NoCall EXCEPT !.op = "delete", !.step = "remote", !.ids = asked,
                                                     !.goes = goes, !.whole = whole]]
        BY ZenonT(40), <1>5 DEF DeleteRead, Rows
  <2>2. call' \in [Caller -> Calls]
        BY <2>1 DEF PostsInv, Calls, NoCall, Operations, Steps, Rows
  <2>3. calls' \in 0..MaxCalls
        BY <1>5, PostsApiAssumption DEF DeleteRead, Left
  <2> QED BY <1>5, <2>2, <2>3, PostsInvFrom DEF DeleteRead
<1> QED BY <1>1, <1>2, <1>3, <1>4, <1>5 DEF Ask

(* The requests' steps.  No worker's job is removed or replaced, and no    *)
(* row gets an externalPostId.                                             *)
LEMMA ProceedKeeps == ASSUME PostsInv, NEW c \in Caller, Proceed(c) PROVE PostsInv'
<1> USE AsTheyAre
<1>0. call[c] \in Calls
      BY DEF PostsInv
<1>1. CASE RemoveJobs(c)
  <2> DEFINE mine == {j \in Jobs : j[1] = "publish-post" /\ j[2] \in Rows(row)}
             free == {j \in mine : job[j].st \notin Held}
  <2>1. job' = [j \in Jobs |-> IF j \in free THEN NoJob ELSE job[j]]
        BY <1>1 DEF RemoveJobs, Jobs
  <2>2. job' \in [Jobs -> JobStates]
        BY <2>1, PostsApiAssumption DEF PostsInv, PostsTypeOK, Jobs, JobStates, NoJob
  <2>3. JobsFit(job', row)
        BY <2>1, <2>2, JobsOutsideWorkers
  <2>4. call' \in [Caller -> Calls]
        BY <1>1, CallsMove DEF RemoveJobs, Steps
  <2> QED BY <1>1, <2>3, <2>4, PostsInvFrom DEF RemoveJobs
<1>2. CASE PrepareForPublishing(c)
  <2>1. call' \in [Caller -> Calls]
        BY <1>2, CallsMove DEF PrepareForPublishing, Steps
  <2>2. /\ content' \in PostStatuses \cup {"NONE", "GONE"} /\ plan' \in {"none", "future", "due"}
        /\ row' \in [Id -> PlatformRows] /\ \A i \in Id : row'[i].ext => row[i].ext
        BY <1>2, SettingKeepsTypes DEF PrepareForPublishing, PostsInv, PostStatuses,
           PlatformPostStatuses
  <2>3. JobsFit(job, row')
        BY <2>2, JobsFitOf
  <2> QED BY <1>2, <2>1, <2>2, <2>3, PostsInvFrom DEF PrepareForPublishing
<1>3. CASE EnqueuePlatformPosts(c)
  <2>1. call' \in [Caller -> Calls]
        BY <1>3, CallsMove DEF EnqueuePlatformPosts
  <2>2. JobsFit(job', row)
        BY <1>3, AddedFits DEF EnqueuePlatformPosts, Queue
  <2> QED BY <1>3, <2>1, <2>2, PostsInvFrom DEF EnqueuePlatformPosts
<1>4. CASE ScheduleWrite(c)
  <2>1. call' \in [Caller -> Calls]
        BY <1>4, CallsMove DEF ScheduleWrite, Steps
  <2>2. Retarget(call[c].accts) \/ UNCHANGED <<row, born>>
        BY <1>4 DEF ScheduleWrite
  <2>3. row' \in [Id -> PlatformRows] /\ born' \in 0..MaxRows /\ \A i \in Id : row'[i].ext => row[i].ext
        BY <1>0, <2>2, RetargetKeepsTypes DEF PostsInv, Calls
  <2>4. JobsFit(job, row')
        BY <2>3, JobsFitOf
  <2>5. content' \in PostStatuses \cup {"NONE", "GONE"} /\ plan' \in {"none", "future", "due"}
        BY <1>4 DEF ScheduleWrite, PostStatuses
  <2> QED BY <1>4, <2>1, <2>3, <2>4, <2>5, PostsInvFrom DEF ScheduleWrite
<1>5. CASE EnqueuePost(c)
  <2>1. call' \in [Caller -> Calls]
        BY <1>5, CallsMove DEF EnqueuePost
  <2>2. JobsFit(job', row)
        BY <1>5, AddedFits DEF EnqueuePost, Queue
  <2> QED BY <1>5, <2>1, <2>2, PostsInvFrom DEF EnqueuePost
<1>6. CASE RetryWrite(c)
  <2>1. call' \in [Caller -> Calls]
        BY <1>6, CallsMove DEF RetryWrite, Steps
  <2>2. /\ content' \in PostStatuses \cup {"NONE", "GONE"}
        /\ row' \in [Id -> PlatformRows] /\ \A i \in Id : row'[i].ext => row[i].ext
        BY <1>6, SettingKeepsTypes DEF RetryWrite, PostsInv, PostStatuses, PlatformPostStatuses
  <2>3. JobsFit(job, row')
        BY <2>2, JobsFitOf
  <2> QED BY <1>6, <2>1, <2>2, <2>3, PostsInvFrom DEF RetryWrite
<1>7. CASE EnqueueRetries(c)
  <2>1. call' \in [Caller -> Calls]
        BY <1>7, CallsMove DEF EnqueueRetries
  <2>2. JobsFit(job', row)
        BY <1>7, AddedFits DEF EnqueueRetries, Queue
  <2> QED BY <1>7, <2>1, <2>2, PostsInvFrom DEF EnqueueRetries
<1>8. CASE UpdateWrite(c)
  <2>1. call' \in [Caller -> Calls]
        BY <1>8, CallsMove DEF UpdateWrite
  <2>2. Retarget(call[c].accts) \/ UNCHANGED <<row, born>>
        BY <1>8 DEF UpdateWrite
  <2>3. row' \in [Id -> PlatformRows] /\ born' \in 0..MaxRows /\ \A i \in Id : row'[i].ext => row[i].ext
        BY <1>0, <2>2, RetargetKeepsTypes DEF PostsInv, Calls
  <2>4. JobsFit(job, row')
        BY <2>3, JobsFitOf
  <2> QED BY <1>8, <2>1, <2>3, <2>4, PostsInvFrom DEF UpdateWrite
<1>9. CASE DeleteRemote(c)
  <2>1. PICK failed \in SUBSET call[c].goes, local \in {call[c].ids, call[c].goes} :
          /\ live' = Without(call[c].goes \ failed)
          /\ \/ Step(c, "remove")
             \/ call' = [call EXCEPT ![c].step = "mark", ![c].ids = local \ failed]
        BY <1>9 DEF DeleteRemote
  <2>2. ASSUME call' = [call EXCEPT ![c].step = "mark", ![c].ids = local \ failed]
        PROVE  call' \in [Caller -> Calls]
    <3> DEFINE new == [call[c] EXCEPT !.step = "mark", !.ids = local \ failed]
    <3>1. local \ failed \in SUBSET Id
          BY <1>0, <2>1 DEF Calls
    <3>2. new \in Calls
          BY <1>0, <3>1 DEF Calls, Steps
    <3>3. call' = [call EXCEPT ![c] = new]
          BY <2>2 DEF PostsInv, Calls
    <3> QED BY <3>2, <3>3 DEF PostsInv
  <2>3. call' \in [Caller -> Calls]
        BY <2>1, <2>2, CallsMove DEF Steps
  <2>4. live' \in [Account -> Nat]
        BY <2>1, WithoutKeepsTypes DEF PostsInv
  <2> QED BY <1>9, <2>3, <2>4, PostsInvFrom DEF DeleteRemote
<1>10. CASE DeleteMark(c)
  <2>1. call' \in [Caller -> Calls]
        BY <1>10, CallsMove DEF DeleteMark
  <2>2. row' \in [Id -> PlatformRows] /\ \A i \in Id : row'[i].ext => row[i].ext
        BY <1>10, SettingKeepsTypes DEF DeleteMark, PostsInv, PlatformPostStatuses
  <2>3. JobsFit(job, row')
        BY <2>2, JobsFitOf
  <2>4. content' \in PostStatuses \cup {"NONE", "GONE"}
        BY <1>10, <2>2, ContentIsAStatus DEF DeleteMark, PostsInv
  <2> QED BY <1>10, <2>1, <2>2, <2>3, <2>4, PostsInvFrom DEF DeleteMark
<1>11. CASE DeleteWrite(c)
  <2>1. call' \in [Caller -> Calls]
        BY <1>11, CallsMove DEF DeleteWrite
  <2>2. row' \in [Id -> PlatformRows] /\ \A i \in Id : row'[i].ext => row[i].ext
        BY <1>11 DEF DeleteWrite, Gone, PlatformRows
  <2>3. JobsFit(job, row')
        BY <2>2, JobsFitOf
  <2> QED BY <1>11, <2>1, <2>2, <2>3, PostsInvFrom DEF DeleteWrite
<1>12. CASE EndCall(c)
  <2>1. call' \in [Caller -> Calls]
        BY <1>12, CallsMove DEF EndCall
  <2> QED BY <1>12, <2>1, PostsInvFrom DEF EndCall
<1> QED BY <1>1, <1>2, <1>3, <1>4, <1>5, <1>6, <1>7, <1>8, <1>9, <1>10, <1>11, <1>12 DEF Proceed

(* TikTok's cancellation, the scanner, the sweep, crashes and the clock.   *)
LEMMA SurroundingsKeep ==
  ASSUME PostsInv,
         \/ \E i \in Id : CancelTikTokPublish(i)
         \/ ScanRead \/ ScanAdd \/ SweepStuckJobs \/ CrashApi \/ Due
  PROVE  PostsInv'
<1> USE AsTheyAre
<1>1. ASSUME NEW i \in Id, CancelTikTokPublish(i)
      PROVE  PostsInv'
  <2>1. row' \in [Id -> PlatformRows] /\ \A k \in Id : row'[k].ext => row[k].ext
        BY <1>1, SettingKeepsTypes DEF CancelTikTokPublish, PostsInv, PlatformPostStatuses
  <2>2. JobsFit(job, row')
        BY <2>1, JobsFitOf
  <2>3. content' \in PostStatuses \cup {"NONE", "GONE"} /\ live' \in [Account -> Nat]
        BY <1>1, <2>1, ContentIsAStatus, WithoutKeepsTypes DEF CancelTikTokPublish, PostsInv
  <2>4. calls' \in 0..MaxCalls
        BY <1>1, PostsApiAssumption DEF CancelTikTokPublish, Left
  <2> QED BY <1>1, <2>1, <2>2, <2>3, <2>4, PostsInvFrom DEF CancelTikTokPublish
<1>2. CASE ScanRead
      BY <1>2, PostsInvFrom DEF ScanRead, In
<1>3. CASE ScanAdd
  <2>1. JobsFit(job', row)
        BY <1>3, AddedFits DEF ScanAdd, Queue
  <2> QED BY <1>3, <2>1, PostsInvFrom DEF ScanAdd
<1>4. CASE SweepStuckJobs
  <2>1. JobsFit(job', row)
        BY <1>4, AddedFits DEF SweepStuckJobs, Queue
  <2> QED BY <1>4, <2>1, PostsInvFrom DEF SweepStuckJobs
<1>5. CASE CrashApi
  <2>1. call' \in [Caller -> Calls]
        BY <1>5 DEF CrashApi, Calls, NoCall, Operations, Steps
  <2>2. apiCrashes' \in 0..MaxCrashes
        BY <1>5, PostsApiAssumption DEF CrashApi
  <2> QED BY <1>5, <2>1, <2>2, PostsInvFrom DEF CrashApi
<1>6. CASE Due
  <2>1. job' = [j \in Jobs |-> IF job[j].st = "delayed" THEN [job[j] EXCEPT !.st = "waiting"] ELSE job[j]]
        BY <1>6 DEF Due, Jobs
  <2>2. job' \in [Jobs -> JobStates]
        BY <2>1 DEF PostsInv, PostsTypeOK, Jobs, JobStates
  <2>3. JobsFit(job', row)
        BY <2>1, <2>2, JobsOutsideWorkers
  <2> QED BY <1>6, <2>3, PostsInvFrom DEF Due
<1> QED BY <1>1, <1>2, <1>3, <1>4, <1>5, <1>6

(* A thrown error uses up an attempt.                                      *)
LEMMA ThrowFits ==
  ASSUME PostsInv, NEW j \in Jobs, job[j].st \in Held, Throw(j),
         NEW rows, \A i \in Id : rows[i].ext => row[i].ext
  PROVE  JobsFit(job', rows)
<1> DEFINE new == [st |-> IF LastTry(j) THEN "kept" ELSE "waiting", tries |-> job[j].tries + 1]
<1>1. job' = [job EXCEPT ![j] = new]
      BY DEF Throw, PostsInv, PostsTypeOK, Jobs
<1>2. job[j] \in JobStates /\ job[j].tries < Limit(j) /\ Limit(j) \in Nat /\ Limit(j) <= MaxTries
      BY JobFacts DEF PostsInv, PostsTypeOK, TriesAreLeft, Jobs, JobStates
<1>3. LastTry(j) <=> job[j].tries + 1 >= Limit(j)
      BY DEF LastTry, Limit
<1>4. job[j].tries + 1 \in 0..MaxTries /\ (~LastTry(j) => job[j].tries + 1 < Limit(j))
      BY <1>2, <1>3, PostsApiAssumption DEF JobStates
<1>5. new \in JobStates /\ new.st \notin Held /\ new.tries = job[j].tries + 1
      /\ (new.st # "kept" => ~LastTry(j))
      BY <1>4 DEF JobStates, Held
<1> HIDE DEF new
<1>6. new.st \in Held \cup {"waiting", "delayed"} => new.tries < Limit(j)
      BY <1>4, <1>5 DEF Held
<1>7. j[2] \in Id
      BY JobFacts
<1>8. JobsFit([job EXCEPT ![j] = new], rows)
      BY <1>5, <1>6, <1>7, WorkerFits
<1> QED BY <1>1, <1>8

(* The workers.                                                            *)
LEMMA WorkKeeps == ASSUME PostsInv, NEW j \in Jobs, Work(j) PROVE PostsInv'
<1> USE AsTheyAre
<1> DEFINE i == j[2]
           new(s) == [job[j] EXCEPT !.st = s]
<1>1. /\ i \in Id /\ Other(j) \in Jobs /\ job[j] \in JobStates
      /\ job[j].st \in Held \cup {"waiting"} => job[j].tries < Limit(j)
      /\ job[j].st \in Held => ~row[i].ext
      BY JobFacts DEF PostsInv, PostsTypeOK, Jobs, JobStates, TriesAreLeft, HeldIsNotOut
<1>2. job[j].st \in Held => job[Other(j)].st \notin Held
      BY JobFacts DEF PostsInv, OneWorkerPerRow, Other, Queue
<1>3. \A s \in {"begun", "calling", "out", "kept"} :
        new(s) \in JobStates /\ new(s).st = s /\ new(s).tries = job[j].tries
      BY <1>1 DEF JobStates, Held
<1>4. \A s : To(j, s) => job' = [job EXCEPT ![j] = new(s)]
      BY DEF To, PostsInv, PostsTypeOK, Jobs
<1> HIDE DEF new
<1>5. ASSUME NEW rows, \A k \in Id : rows[k].ext => row[k].ext,
             NEW s \in {"begun", "calling", "out", "kept"}, To(j, s),
             s # "kept" => /\ job[j].st \in Held \cup {"waiting"} /\ job[Other(j)].st \notin Held
                           /\ ~rows[i].ext
      PROVE  JobsFit(job', rows)
      BY <1>1, <1>3, <1>4, <1>5, WorkerFits DEF Held
<1>6. CASE Take(j)
  <2>1. ASSUME job[Other(j)].st \notin Held, ~row[i].ext,
               row' = Setting({i}, "PROCESSING"), To(j, "begun"), job[j].st = "waiting"
        PROVE  JobsFit(job', row') /\ row' \in [Id -> PlatformRows]
    <3>1. row' \in [Id -> PlatformRows] /\ \A k \in Id : row'[k].ext = row[k].ext
          BY <2>1, SettingKeepsTypes DEF PostsInv, PlatformPostStatuses
    <3> QED BY <1>1, <1>5, <2>1, <3>1
  <2>2. ASSUME To(j, "kept"), UNCHANGED row
        PROVE  JobsFit(job', row') /\ row' \in [Id -> PlatformRows]
        BY <1>5, <2>2
  <2>3. JobsFit(job', row') /\ row' \in [Id -> PlatformRows]
        BY <1>6, <2>1, <2>2 DEF Take
  <2> QED BY <1>6, <2>3, PostsInvFrom DEF Take
<1>7. CASE TakeParent(j)
  <2>1. ASSUME Throw(j)
        PROVE  JobsFit(job', row)
        BY <1>7, <2>1, ThrowFits DEF TakeParent, Held
  <2>2. ASSUME To(j, "calling")
        PROVE  JobsFit(job', row)
        BY <1>1, <1>2, <1>5, <1>7, <2>2 DEF TakeParent, Held
  <2>3. JobsFit(job', row) /\ content' \in PostStatuses \cup {"NONE", "GONE"}
        BY <1>7, <2>1, <2>2 DEF TakeParent, PostStatuses
  <2> QED BY <1>7, <2>3, PostsInvFrom DEF TakeParent
<1>8. CASE Publish(j)
  <2>1. JobsFit(job', row)
        BY <1>1, <1>2, <1>5, <1>8 DEF Publish, Held
  <2>2. live' = [a \in Account |-> IF a = row[i].acct THEN live[a] + 1 ELSE live[a]]
        BY <1>8 DEF Publish
  <2>3. live' \in [Account -> Nat]
        BY <2>2
  <2> QED BY <1>8, <2>1, <2>3, PostsInvFrom DEF Publish
<1>9. CASE Refuse(j)
  <2>1. PICK s \in {"FAILED", "QUEUED"} : row' = Setting({i}, s)
        BY <1>9 DEF Refuse
  <2>2. row' \in [Id -> PlatformRows] /\ \A k \in Id : row'[k].ext = row[k].ext
        BY <2>1, SettingKeepsTypes DEF PostsInv, PlatformPostStatuses
  <2>3. JobsFit(job', row')
        BY <1>5, <1>9, <2>2, ThrowFits DEF Refuse, Held
  <2>4. content' \in PostStatuses \cup {"NONE", "GONE"}
        BY <1>9, <2>2, ContentIsAStatus DEF Refuse, PostsInv
  <2> QED BY <1>9, <2>2, <2>3, <2>4, PostsInvFrom DEF Refuse
<1>10. CASE Record(j)
  <2>1. row' \in [Id -> PlatformRows] /\ (\A k \in Id \ {i} : row'[k].ext = row[k].ext)
        /\ (i \notin Rows(row) => row'[i].ext = row[i].ext)
        BY ZenonT(40), <1>10 DEF Record, PlatformRows, PlatformPostStatuses
  <2>2. ASSUME i \in Rows(row)
        PROVE  JobsFit(job', row')
    <3>1. job' = [job EXCEPT ![j] = new("kept")] /\ job[j].st = "out"
          BY <1>4, <1>10, <2>2 DEF Record
    <3>2. new("kept") \in JobStates /\ new("kept").st \notin Held \cup {"waiting", "delayed"}
          BY <1>3 DEF Held
    <3>3. job[Other(j)].st \notin Held /\ \A k \in Id \ {i} : row'[k].ext => row[k].ext
          BY <1>2, <2>1, <3>1 DEF Held
    <3>4. JobsFit([job EXCEPT ![j] = new("kept")], row')
          BY <3>2, <3>3, WorkerFits
    <3> QED BY <3>1, <3>4
  <2>3. ASSUME i \notin Rows(row)
        PROVE  JobsFit(job', row')
        BY <1>10, <2>1, <2>3, ThrowFits DEF Record, Held
  <2>4. JobsFit(job', row')
        BY <2>2, <2>3
  <2>5. content' \in PostStatuses \cup {"NONE", "GONE"}
        BY <1>10, <2>1, ContentIsAStatus DEF Record, PostsInv
  <2> QED BY <1>10, <2>1, <2>4, <2>5, PostsInvFrom DEF Record
<1> QED BY <1>6, <1>7, <1>8, <1>9, <1>10 DEF Work

(* Initially there are no rows, calls and jobs.                            *)
LEMMA PostsInvInit == PostsInit => PostsInv
<1> SUFFICES ASSUME PostsInit
             PROVE  PostsInv
    OBVIOUS
<1>1. call \in [Caller -> Calls]
      BY DEF PostsInit, NoCall, Calls, Operations, Steps
<1>2. \A j \in Jobs : job[j] = NoJob
      BY DEF PostsInit, Jobs
<1>3. TriesAreLeft /\ OneWorkerPerRow /\ HeldIsNotOut
      BY <1>2, JobFacts DEF TriesAreLeft, OneWorkerPerRow, HeldIsNotOut, NoJob, Held, Queue
<1>4. \A c \in Caller : call[c].ids \subseteq Id /\ call[c].accts \subseteq Account
      BY <1>1 DEF Calls
<1>5. row \in [Id -> PlatformRows] /\ job \in [Jobs -> JobStates]
      BY PostsApiAssumption DEF PostsInit, NoRow, NoJob, PlatformRows, Jobs, JobStates
<1>6. /\ content = "NONE" /\ plan = "none" /\ scan = {} /\ restarted = FALSE
      /\ born \in 0..MaxRows /\ calls \in 0..MaxCalls /\ apiCrashes \in 0..MaxCrashes
      /\ live \in [Account -> Nat]
      BY PostsApiAssumption DEF PostsInit
<1>7. PostsTypeOK
      BY <1>4, <1>5, <1>6 DEF PostsTypeOK, PlatformRows, Jobs, JobStates
<1> QED BY <1>1, <1>3, <1>7 DEF PostsInv

(* Each kind of step, from the lemmas above.                               *)
LEMMA PostsInvStep == PostsInv /\ [PostsNext]_postsVars => PostsInv'
<1> SUFFICES ASSUME PostsInv, [PostsNext]_postsVars
             PROVE  PostsInv'
    OBVIOUS
<1>1. CASE UNCHANGED postsVars
      BY <1>1, AsTheyAre, PostsInvFrom DEF postsVars
<1>2. CASE PostsNext
      BY <1>2, AskKeeps, ProceedKeeps, SurroundingsKeep, WorkKeeps DEF PostsNext, Jobs
<1> QED BY <1>1, <1>2

(* Hence it holds throughout.                                              *)
LEMMA PostsInvHolds == PostsSpec => []PostsInv
BY PostsInvInit, PostsInvStep, PTL DEF PostsSpec

(* PostsTypeOK, for every value of the constants.                          *)
THEOREM PostsTypesHold == PostsSpec => []PostsTypeOK
<1>1. PostsInv => PostsTypeOK
      BY DEF PostsInv
<1> QED BY <1>1, PostsInvHolds, PTL

(* WithdrawnStaysAway: only a worker that holds the job brings a platform  *)
(* post out, and what a worker holds has no externalPostId.                *)
THEOREM WithdrawnIsKeptAway == PostsSpec => WithdrawnStaysAway
<1>1. ASSUME PostsInv, NEW j \in Jobs, job[j].st = "calling"
      PROVE  ~row[j[2]].ext
      BY <1>1 DEF PostsInv, HeldIsNotOut, Held
<1>2. PostsInv /\ [PostsNext]_postsVars =>
        [\A j \in Queue \X Id : job[j].st = "calling" /\ job'[j].st = "out" => ~row[j[2]].ext]_postsVars
      BY <1>1 DEF Jobs
<1> QED BY <1>2, PostsInvHolds, PTL DEF PostsSpec, WithdrawnStaysAway
=============================================================================
