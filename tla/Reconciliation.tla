--------------------------- MODULE Reconciliation ---------------------------
(***************************************************************************)
(* The reconcile-platform-post processor, apps/worker/src/processors/      *)
(* reconciliation.processor.ts, beside the publish workers of              *)
(* PublishWorker.  An attempt that ended REMOTE_RESULT_UNKNOWN leaves a    *)
(* job (its id is fixed by the publish job, and it is kept when it is      *)
(* done, so there is one per publish job); 60 seconds later the processor  *)
(* asks the platform whether the post is there.  It takes no lock.         *)
(* No adapter of this commit implements reconcilePublish: Supported is {}  *)
(* for the program as it is.                                               *)
(***************************************************************************)
EXTENDS PublishWorker

CONSTANTS Supported,      \* posts whose adapter implements reconcilePublish
          Indeterminate,  \* may it answer INDETERMINATE?
          ReviewAfter,    \* attempts after which a person must look: 5
          MaxTries,       \* attempts of the job: 5
          MaxThrows       \* bound on the times the processor throws or dies

ASSUME ReconciliationAssumption ==
  /\ Supported \subseteq Post /\ Indeterminate \in BOOLEAN
  /\ ReviewAfter \in Nat \ {0} /\ MaxTries \in Nat \ {0} /\ MaxThrows \in Nat

VARIABLES tries,      \* attemptsMade of each reconcile job
          attempts,   \* PlatformPost.reconciliationAttempts
          manual,     \* PlatformPost.requiresManualReview
          found,      \* what a running job knows: see NoFinding
          throws

reconVars == <<tries, attempts, manual, found, throws>>
allVars == <<vars, reconVars>>

(* The attempts the job read, the copy the platform told it of (0: none),  *)
(* the statuses of the children it read.                                   *)
NoFinding == [base |-> 0, copy |-> 0, seen |-> {}]

ReconTypeOK ==
  /\ tries \in [Job -> 0..MaxTries]
  /\ attempts \in [Post -> Nat]
  /\ manual \in [Post -> BOOLEAN]
  /\ found \in [Job -> [base : Nat, copy : Nat, seen : SUBSET PlatformPostStatuses]]
  /\ throws \in 0..MaxThrows

ReconInit ==
  /\ Init
  /\ tries = [j \in Job |-> 0]
  /\ attempts = [p \in Post |-> 0]
  /\ manual = [p \in Post |-> FALSE]
  /\ found = [j \in Job |-> NoFinding]
  /\ throws = 0
-----------------------------------------------------------------------------
ReconGo(j, step) == recon' = [recon EXCEPT ![j] = step]

(* What a reconcile job leaves alone.                                      *)
Untouched == <<fence, bg, lock, deliveries, remote, pc, run, lost, failures,
               throws>>

(* getFreshAccessToken before the platform is asked: a refresh marks the   *)
(* account CONNECTED.                                                      *)
AskWithFreshToken(p) ==
  \E c \in {connected[p], TRUE} : connected' = [connected EXCEPT ![p] = c]

(* The job runs: it loads the post, and stops here if the outcome is known *)
(* by now or has been asked for too often.                                 *)
ReconRead(j) ==
  LET p == j[1] IN
  /\ recon[j] = "waiting"
  /\ \/ /\ status[p] # "REMOTE_RESULT_UNKNOWN"
        /\ ReconGo(j, "finish") /\ UNCHANGED <<manual, found>>
     \/ /\ status[p] = "REMOTE_RESULT_UNKNOWN" /\ attempts[p] >= ReviewAfter
        /\ manual' = [manual EXCEPT ![p] = TRUE]
        /\ ReconGo(j, "finish") /\ UNCHANGED found
     \/ /\ status[p] = "REMOTE_RESULT_UNKNOWN" /\ attempts[p] < ReviewAfter
        /\ found' = [found EXCEPT ![j].base = attempts[p]]
        /\ ReconGo(j, "asked") /\ UNCHANGED manual
  /\ UNCHANGED <<status, ext, connected, parent, tries, attempts, Untouched>>

(* Nothing learnt, for want of an adapter or of an answer: one attempt     *)
(* more.  The processor returns, so BullMQ does not try the job again.     *)
ReconNothing(j) ==
  LET p == j[1]  n == found[j].base + 1 IN
  /\ recon[j] = "asked"
  /\ \/ p \notin Supported /\ UNCHANGED connected
     \/ p \in Supported /\ Indeterminate /\ AskWithFreshToken(p)
  /\ attempts' = [attempts EXCEPT ![p] = n]
  /\ manual' = [manual EXCEPT ![p] = n >= ReviewAfter]
  /\ found' = [found EXCEPT ![j] = NoFinding]
  /\ ReconGo(j, "finish")
  /\ UNCHANGED <<status, ext, parent, tries, Untouched>>

(* The adapter answers FOUND, with the copy, or CONFIRMED_ABSENT.          *)
ReconAnswer(j) ==
  /\ recon[j] = "asked" /\ j[1] \in Supported
  /\ AskWithFreshToken(j[1])
  /\ found' = [found EXCEPT ![j].copy = remote[j[1]]]
  /\ ReconGo(j, "answered")
  /\ UNCHANGED <<status, ext, parent, tries, attempts, manual, Untouched>>

(* The answer is written, without another look at the row.                 *)
(* Mutant: the two answers are mixed up.                                   *)
ReconRecordSwapped(j) ==
  LET p == j[1] IN
  /\ recon[j] = "answered"
  /\ status' = [status EXCEPT ![p] = IF found[j].copy # 0 THEN "FAILED" ELSE "PUBLISHED"]
  /\ ext' = [ext EXCEPT ![p] = IF found[j].copy # 0 THEN found[j].copy ELSE @]
  /\ attempts' = [attempts EXCEPT ![p] = @ + 1]
  /\ manual' = [manual EXCEPT ![p] = FALSE]
  /\ ReconGo(j, "parentRead")
  /\ UNCHANGED <<connected, parent, tries, found, Untouched>>

ReconRecord(j) ==
  LET p == j[1] IN
  /\ recon[j] = "answered"
  /\ status' = [status EXCEPT ![p] = IF found[j].copy # 0 THEN "PUBLISHED" ELSE "FAILED"]
  /\ ext' = [ext EXCEPT ![p] = IF found[j].copy # 0 THEN found[j].copy ELSE @]
  /\ attempts' = [attempts EXCEPT ![p] = @ + 1]
  /\ manual' = [manual EXCEPT ![p] = FALSE]
  /\ ReconGo(j, "parentRead")
  /\ UNCHANGED <<connected, parent, tries, found, Untouched>>

ReconParentRead(j) ==
  /\ recon[j] = "parentRead"
  /\ found' = [found EXCEPT ![j].seen = {status[p] : p \in Post}]
  /\ ReconGo(j, "parentWrite")
  /\ UNCHANGED <<status, ext, connected, parent, tries, attempts, manual, Untouched>>

ReconParentWrite(j) ==
  /\ recon[j] = "parentWrite"
  /\ parent' = DeriveContentPostStatus(found[j].seen)
  /\ found' = [found EXCEPT ![j] = NoFinding]
  /\ ReconGo(j, "finish")
  /\ UNCHANGED <<status, ext, connected, tries, attempts, manual, Untouched>>

(* BullMQ completes the job, and keeps it.                                 *)
ReconFinish(j) ==
  /\ recon[j] = "finish"
  /\ ReconGo(j, "done")
  /\ UNCHANGED <<status, ext, connected, parent, tries, attempts, manual, found, Untouched>>

(* A token refresh (which may disconnect the account), the platform, the   *)
(* database or the process fails: the job is tried again from the start    *)
(* while it has attempts left.                                             *)
(* Mutant: it is tried once too often.                                     *)
ReconThrowOnceMore(j) ==
  /\ recon[j] \notin {"none", "waiting", "done"}
  /\ throws < MaxThrows /\ throws' = throws + 1
  /\ tries' = [tries EXCEPT ![j] = @ + 1]
  /\ ReconGo(j, IF tries[j] < MaxTries THEN "waiting" ELSE "done")
  /\ found' = [found EXCEPT ![j] = NoFinding]
  /\ \E c \in {connected[j[1]], recon[j] # "asked" /\ connected[j[1]]} :
       connected' = [connected EXCEPT ![j[1]] = c]
  /\ UNCHANGED <<status, ext, parent, attempts, manual, fence, bg, lock, deliveries,
                 remote, pc, run, lost, failures>>

ReconThrow(j) ==
  /\ recon[j] \notin {"none", "waiting", "done"}
  /\ throws < MaxThrows /\ throws' = throws + 1
  /\ tries' = [tries EXCEPT ![j] = @ + 1]
  /\ ReconGo(j, IF tries[j] + 1 < MaxTries THEN "waiting" ELSE "done")
  /\ found' = [found EXCEPT ![j] = NoFinding]
  /\ \E c \in {connected[j[1]], recon[j] # "asked" /\ connected[j[1]]} :
       connected' = [connected EXCEPT ![j[1]] = c]
  /\ UNCHANGED <<status, ext, parent, attempts, manual, fence, bg, lock, deliveries,
                 remote, pc, run, lost, failures>>
-----------------------------------------------------------------------------
Reconcile(j) ==
  \/ ReconRead(j) \/ ReconNothing(j) \/ ReconAnswer(j) \/ ReconRecord(j)
  \/ ReconParentRead(j) \/ ReconParentWrite(j) \/ ReconFinish(j)

ReconNext ==
  \/ Next /\ UNCHANGED reconVars
  \/ \E j \in Job : Reconcile(j) \/ ReconThrow(j)

ReconSpec == ReconInit /\ [][ReconNext]_allVars
-----------------------------------------------------------------------------
ReconQuiet == Quiet /\ \A j \in Job : recon[j] \in {"none", "done"}

(* Reconciliation settles every lost answer of a publish job that is not   *)
(* retried meanwhile, in spite of its own failures: when all is over a     *)
(* post is PUBLISHED if and only if it is on its platform - unless the     *)
(* platform was asked in vain or the last attempt failed.                  *)
ReconciliationRepairs ==
  ReconQuiet /\ Orderly /\ crashes = 0 /\ MaxAttempts = 1 =>
    \A p \in Supported \ MultiStep :
      \/ status[p] = "PUBLISHED" <=> remote[p] > 0
      \/ /\ status[p] = "REMOTE_RESULT_UNKNOWN"
         /\ attempts[p] > 0 \/ \E j \in Job : j[1] = p /\ tries[j] = MaxTries
=============================================================================
