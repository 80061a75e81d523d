----------------------------- MODULE ImportSync -----------------------------
(***************************************************************************)
(* Importing the posts an account has on its platform: the request         *)
(* (triggerSyncExternalPosts), the worker (sync-external-posts.ts) and the *)
(* job list a user can clear (jobs.service.ts).  The remote posts are      *)
(* numbered from the newest; those beyond Cutoff are too old to import.  A *)
(* cursor is the number of posts already listed, 0 standing for none: the  *)
(* worker stores 0 again with the last page.                               *)
(***************************************************************************)
EXTENDS Naturals, FiniteSets

CONSTANTS Importer,    \* requests of triggerSyncExternalPosts, each may create one sync
          MaxListed,   \* the posts the platform lists
          Cutoff,      \* how many of them are recent enough
          PageSize,    \* posts on one page
          ImportTries, \* attempts of a sync-external-posts job
          MaxImportMishaps \* bound on errors and crashes

ASSUME ImportAssumption ==
  /\ IsFiniteSet(Importer) /\ {MaxListed, PageSize, ImportTries} \subseteq Nat \ {0}
  /\ Cutoff \in 0..MaxListed /\ MaxImportMishaps \in Nat

VARIABLES
  asking,   \* the request of each importer: "no", "checked", "created", "done"
  sync,     \* the externalPostSyncJob row it created
  progress, \* the cursor and the counters of that row
  importJob,\* its job in Redis, the attempts made, whether it has stalled before
  importing,\* the worker's memory while the job runs
  board,    \* the backgroundJob row
  kept,     \* the remote posts with a platformPost row
  contents, \* how many contentPost rows each remote post has
  importMishaps

importVars == <<asking, sync, progress, importJob, importing, board, kept, contents, importMishaps>>

Listed == 1..MaxListed
NoProgress == [cursor |-> 0, scanned |-> 0, failed |-> 0]
Asleep == [at |-> "idle", page |-> {}, missing |-> {}, cursor |-> 0, scanned |-> 0, failed |-> 0]
ImportStates == {"none", "waiting", "running", "done", "dead"}
FinishedSync == {"COMPLETED", "FAILED"}

ImportTypeOK ==
  /\ asking \in [Importer -> {"no", "checked", "created", "done"}]
  /\ sync \in [Importer -> {"none", "QUEUED", "RUNNING"} \cup FinishedSync]
  /\ board \in [Importer -> {"none", "QUEUED", "RUNNING", "COMPLETED", "FAILED", "DEAD"}]
  /\ kept \subseteq Listed /\ contents \in [Listed -> Nat] /\ importMishaps \in 0..MaxImportMishaps
  /\ \A i \in Importer :
       /\ progress[i].cursor \in 0..(MaxListed - 1)
       /\ importJob[i].state \in ImportStates /\ importJob[i].tries \in 0..ImportTries
       /\ importing[i].page \subseteq Listed /\ importing[i].missing \subseteq importing[i].page
       /\ (importing[i].at # "idle") => (importJob[i].state = "running")

ImportInit ==
  /\ asking = [i \in Importer |-> "no"] /\ sync = [i \in Importer |-> "none"]
  /\ progress = [i \in Importer |-> NoProgress] /\ board = [i \in Importer |-> "none"]
  /\ importJob = [i \in Importer |-> [state |-> "none", tries |-> 0, stalled |-> FALSE]]
  /\ importing = [i \in Importer |-> Asleep]
  /\ kept = {} /\ contents = [p \in Listed |-> 0] /\ importMishaps = 0

ImportMishap == importMishaps < MaxImportMishaps /\ importMishaps' = importMishaps + 1
Step(i, at) == importing' = [importing EXCEPT ![i].at = at]
-----------------------------------------------------------------------------
(* triggerSyncExternalPosts: no sync of the account may be under way; the  *)
(* waiting times after the last one have passed.  Then the row, the board  *)
(* and the job, one after the other.                                       *)
TriggerCheck(i) ==
  /\ asking[i] = "no" /\ \A k \in Importer : sync[k] \notin {"QUEUED", "RUNNING"}
  /\ asking' = [asking EXCEPT ![i] = "checked"]
  /\ UNCHANGED <<sync, progress, importJob, importing, board, kept, contents, importMishaps>>

TriggerCreate(i) ==
  /\ asking[i] = "checked" /\ asking' = [asking EXCEPT ![i] = "created"]
  /\ sync' = [sync EXCEPT ![i] = "QUEUED"] /\ board' = [board EXCEPT ![i] = "QUEUED"]
  /\ UNCHANGED <<progress, importJob, importing, kept, contents, importMishaps>>

TriggerQueue(i) ==
  /\ asking[i] = "created" /\ asking' = [asking EXCEPT ![i] = "done"]
  /\ \/ importJob' = [importJob EXCEPT ![i].state = "waiting"] /\ UNCHANGED importMishaps
     \/ ImportMishap /\ UNCHANGED importJob   \* the API dies or Redis is away
  /\ UNCHANGED <<sync, progress, importing, board, kept, contents>>
-----------------------------------------------------------------------------
(* A job whose row is finished does nothing; otherwise it is RUNNING on    *)
(* the board, the row too, and the loop starts from the stored progress.   *)
TakeSync(i) ==
  /\ importJob[i].state = "waiting"
  /\ IF sync[i] \in FinishedSync
     THEN importJob' = [importJob EXCEPT ![i].state = "done"] /\ UNCHANGED <<board, sync, importing>>
     ELSE /\ importJob' = [importJob EXCEPT ![i].state = "running", ![i].tries = @ + 1]
          /\ board' = [board EXCEPT ![i] = "RUNNING"] /\ sync' = [sync EXCEPT ![i] = "RUNNING"]
          /\ importing' = [importing EXCEPT ![i] = [Asleep EXCEPT !.at = "list",
               !.cursor = progress[i].cursor, !.scanned = progress[i].scanned,
               !.failed = progress[i].failed]]
  /\ UNCHANGED <<asking, progress, kept, contents, importMishaps>>

PageAfter(c) == {p \in Listed : p > c /\ p <= c + PageSize}

\* Mutant of ListPage: the cursor is stored as soon as the page is there.
ListPageAndMove(i) ==
  LET page == PageAfter(importing[i].cursor) IN
  /\ importing[i].at = "list"
  /\ importing' = [importing EXCEPT ![i].at = "import", ![i].page = page,
       ![i].missing = {p \in page : p <= Cutoff},
       ![i].scanned = @ + Cardinality({p \in page : p <= Cutoff})]
  /\ progress' = [progress EXCEPT ![i].cursor =
       IF importing[i].cursor + PageSize < MaxListed THEN importing[i].cursor + PageSize ELSE 0]
  /\ UNCHANGED <<asking, sync, importJob, board, kept, contents, importMishaps>>

ListPage(i) ==
  LET page == PageAfter(importing[i].cursor) IN
  /\ importing[i].at = "list"
  /\ importing' = [importing EXCEPT ![i].at = "import", ![i].page = page,
       ![i].missing = {p \in page : p <= Cutoff},
       ![i].scanned = @ + Cardinality({p \in page : p <= Cutoff})]
  /\ UNCHANGED <<asking, sync, progress, importJob, board, kept, contents, importMishaps>>

(* importPost looks for the row of the newest post still to be imported,   *)
(* and updates it, or creates content and row in one transaction, which    *)
(* another sync's row of the same post makes fail.  An error is counted.   *)
Newest(i) == CHOOSE p \in importing[i].missing : \A q \in importing[i].missing : p <= q
LookUp(i) ==
  /\ importing[i].at = "import" /\ importing[i].missing # {}
  /\ Step(i, IF Newest(i) \in kept THEN "update" ELSE "create")
  /\ UNCHANGED <<asking, sync, progress, importJob, board, kept, contents, importMishaps>>

Counted(i, error) ==
  importing' = [importing EXCEPT ![i].at = "import", ![i].missing = @ \ {Newest(i)},
                                 ![i].failed = IF error THEN @ + 1 ELSE @]

Import(i) ==
  LET p == Newest(i) IN
  /\ importing[i].at \in {"update", "create"}
  /\ \/ /\ importing[i].at = "update" \/ p \notin kept
        /\ Counted(i, FALSE) /\ kept' = kept \cup {p}
        /\ contents' = [contents EXCEPT ![p] = IF importing[i].at = "create" THEN @ + 1 ELSE @]
        /\ UNCHANGED importMishaps
     \/ /\ importing[i].at = "create" /\ p \in kept   \* the unique index refuses
        /\ Counted(i, TRUE) /\ UNCHANGED <<kept, contents, importMishaps>>
     \/ ImportMishap /\ Counted(i, TRUE) /\ UNCHANGED <<kept, contents>>
  /\ UNCHANGED <<asking, sync, progress, importJob, board>>

(* The cursor of the next page and the counters, in one update.            *)
StoreProgress(i) ==
  LET next == IF importing[i].cursor + PageSize < MaxListed THEN importing[i].cursor + PageSize ELSE 0
      more == next # 0 /\ \A p \in importing[i].page : p <= Cutoff IN
  /\ importing[i].at = "import" /\ importing[i].missing = {}
  /\ progress' = [progress EXCEPT ![i] =
       [cursor |-> next, scanned |-> importing[i].scanned, failed |-> importing[i].failed]]
  /\ importing' = [importing EXCEPT ![i].at = IF more THEN "list" ELSE "finish",
                                    ![i].cursor = next, ![i].page = {}]
  /\ UNCHANGED <<asking, sync, importJob, board, kept, contents, importMishaps>>

FinishSync(i) ==
  /\ importing[i].at = "finish" /\ Step(i, "report")
  /\ sync' = [sync EXCEPT ![i] = "COMPLETED"]
  /\ UNCHANGED <<asking, progress, importJob, board, kept, contents, importMishaps>>

ReportSync(i) ==
  /\ importing[i].at = "report" /\ importing' = [importing EXCEPT ![i] = Asleep]
  /\ board' = [board EXCEPT ![i] = "COMPLETED"] /\ importJob' = [importJob EXCEPT ![i].state = "done"]
  /\ UNCHANGED <<asking, sync, progress, kept, contents, importMishaps>>

(* An error outside importPost ends the attempt: the account is away, the  *)
(* platform or the database fails.  The last attempt fails the row, even   *)
(* one that is COMPLETED when the error comes from the report.             *)
FailSync(i) ==
  /\ importing[i].at \in {"list", "finish", "report"} \/ (importing[i].at = "import" /\ importing[i].missing = {})
  /\ ImportMishap /\ importing' = [importing EXCEPT ![i] = Asleep]
  /\ LET dead == importJob[i].tries = ImportTries IN
     /\ sync' = [sync EXCEPT ![i] = IF dead THEN "FAILED" ELSE @]
     /\ board' = [board EXCEPT ![i] = IF dead THEN "DEAD" ELSE "FAILED"]
     /\ importJob' = [importJob EXCEPT ![i].state = IF dead THEN "dead" ELSE "waiting"]
  /\ UNCHANGED <<asking, progress, kept, contents>>

(* The worker dies.  BullMQ gives the job out again once, then fails it.   *)
SyncerDies(i) ==
  /\ importing[i].at # "idle" /\ ImportMishap /\ importing' = [importing EXCEPT ![i] = Asleep]
  /\ importJob' = [importJob EXCEPT ![i] = [state |-> IF @.stalled THEN "dead" ELSE "waiting",
                                            tries |-> @.tries - 1, stalled |-> TRUE]]
  /\ UNCHANGED <<asking, sync, progress, board, kept, contents>>
-----------------------------------------------------------------------------
(* The user clears the failed jobs, or those queued for ten minutes.       *)
ClearFailed ==
  /\ board' = [i \in Importer |-> IF board[i] \in {"FAILED", "DEAD"} THEN "none" ELSE board[i]]
  /\ board' # board
  /\ UNCHANGED <<asking, sync, progress, importJob, importing, kept, contents, importMishaps>>

ClearStaleQueued ==
  /\ \E old \in SUBSET {i \in Importer : board[i] = "QUEUED"} : /\ old # {}
       /\ board' = [i \in Importer |-> IF i \in old THEN "none" ELSE board[i]]
  /\ UNCHANGED <<asking, sync, progress, importJob, importing, kept, contents, importMishaps>>

ImportNext ==
  \/ \E i \in Importer :
       \/ TriggerCheck(i) \/ TriggerCreate(i) \/ TriggerQueue(i) \/ TakeSync(i) \/ ListPage(i)
       \/ LookUp(i) \/ Import(i) \/ StoreProgress(i) \/ FinishSync(i) \/ ReportSync(i)
       \/ FailSync(i) \/ SyncerDies(i)
  \/ ClearFailed \/ ClearStaleQueued

ImportSpec == ImportInit /\ [][ImportNext]_importVars
-----------------------------------------------------------------------------
(* A completed sync leaves no recent post out but the ones it counted as   *)
(* failed, wherever its attempts broke off.                                *)
CompletedIsThorough ==
  \A i \in Importer : sync[i] = "COMPLETED" =>
    Cardinality({p \in Listed : p <= Cutoff} \ kept) <= progress[i].failed

(* Two syncs of one account, which triggerSyncExternalPosts may let        *)
(* through, import a post once: every content has its row.                 *)
ContentsHaveRows == \A p \in Listed : contents[p] = (IF p \in kept THEN 1 ELSE 0)

(* The worker's report updates a row it needs: the lists a user clears     *)
(* never hold a job that is being worked on.                               *)
ReportFindsItsRow == \A i \in Importer : importing[i].at # "idle" => board[i] = "RUNNING"

(* What a completed import reports is what the database holds.             *)
ImportsAreTrue == CompletedIsThorough /\ ContentsHaveRows /\ ReportFindsItsRow
=============================================================================
