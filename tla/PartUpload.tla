----------------------------- MODULE PartUpload -----------------------------
(***************************************************************************)
(* One file on its way from the browser into the media library: a small    *)
(* one in a single PUT, with the API as the way round, a large one in      *)
(* parts that several workers upload at once, each with its retries; then  *)
(* the completion and the abort at the API and at S3.                      *)
(***************************************************************************)
EXTENDS Naturals, Sequences, FiniteSets

CONSTANTS
  Parts,        \* number of parts of the file
  MaxAttempts,  \* retries of a part
  MaxWorkers,   \* parts under way at once
  MaxFailures   \* bound on failing requests

ASSUME UploadAssumption ==
  Parts \in Nat \ {0} /\ MaxAttempts \in Nat /\ MaxWorkers \in Nat \ {0, 1} /\ MaxFailures \in Nat

VARIABLES
  sending,      \* what the page does
  part,         \* part -> waiting, sent, stored, asleep, done, left
  attempts,     \* part -> failed attempts
  allowance,    \* currentConcurrency
  hasFailed,    \* the workers take no more parts
  etags,        \* completedParts
  pile,         \* S3's multipart upload: none, open, completed, aborted
  object,       \* the parts of the object in S3
  asset,        \* the row; "unqueued" says PROCESSING and has no thumbnail job
  completer, aborter,  \* the API's two requests
  failures, answerLost

workers == <<part, attempts, allowance, hasFailed, etags>>
store == <<pile, object, asset>>
uploadVars == <<sending, workers, store, completer, aborter, failures, answerLost>>

Part == 1..Parts
Waiting(s) == {p \in Part : s[p] = "waiting"}
Working(s) == {p \in Part : s[p] \in {"sent", "stored", "asleep"}}
-----------------------------------------------------------------------------
UploadInit ==
  /\ sending = "creating"
  /\ part = [p \in Part |-> "waiting"] /\ attempts = [p \in Part |-> 0]
  /\ allowance = 2 /\ hasFailed = FALSE /\ etags = <<>>
  /\ pile = "none" /\ object = {} /\ asset = "none" /\ completer = "idle" /\ aborter = "idle"
  /\ failures = 0 /\ answerLost = FALSE

UploadTypeOK ==
  /\ sending \in {"creating", "putting", "roundabout", "confirming", "parts", "completing", "aborting",
                  "done", "failed"}
  /\ part \in [Part -> {"waiting", "sent", "stored", "asleep", "done", "left"}]
  /\ attempts \in [Part -> 0..MaxAttempts + 1] /\ allowance \in 1..MaxWorkers
  /\ Cardinality(Working(part)) <= MaxWorkers /\ etags \in Seq(Part)
  /\ pile \in {"none", "open", "completed", "aborted"} /\ object \subseteq Part
  /\ asset \in {"none", "PENDING_UPLOAD", "PROCESSING", "FAILED", "unqueued", "gone"}
  /\ completer \in {"idle", "checked", "merged", "confirmed", "refused"}
  /\ aborter \in {"idle", "checked", "dropping"}

Failure == failures < MaxFailures /\ failures' = failures + 1

(* startNext: parts are taken up to the allowance; the promise resolves    *)
(* when all are taken and no worker is under way.                          *)
StartNextEagerly(s) ==
  LET free == IF hasFailed' \/ Cardinality(Working(s)) >= allowance' THEN 0
              ELSE allowance' - Cardinality(Working(s))
      taken == {p \in Waiting(s) : Cardinality({q \in Waiting(s) : q < p}) < free}
  IN /\ part' = [p \in Part |-> IF p \in taken THEN "sent" ELSE s[p]]
     /\ sending' = IF ~hasFailed' /\ Waiting(s) = {} THEN "completing" ELSE sending

StartNext(s) ==
  LET free == IF hasFailed' \/ Cardinality(Working(s)) >= allowance' THEN 0
              ELSE allowance' - Cardinality(Working(s))
      taken == {p \in Waiting(s) : Cardinality({q \in Waiting(s) : q < p}) < free}
  IN /\ part' = [p \in Part |-> IF p \in taken THEN "sent" ELSE s[p]]
     /\ sending' = IF ~hasFailed' /\ Waiting(s) = {} /\ Working(s) = {} THEN "completing" ELSE sending

(* createUpload, createMultipartUpload: the row, S3's upload and the URLs. *)
CreateSmall ==
  /\ sending = "creating" /\ sending' = "putting" /\ asset' = "PENDING_UPLOAD"
  /\ UNCHANGED <<workers, pile, object, completer, aborter, failures, answerLost>>

CreateMultipart ==
  /\ sending = "creating" /\ asset' = "PENDING_UPLOAD" /\ pile' = "open"
  /\ UNCHANGED <<attempts, allowance, hasFailed, etags, object, completer, aborter, failures, answerLost>>
  /\ part' = [p \in Part |-> IF p <= allowance THEN "sent" ELSE "waiting"] /\ sending' = "parts"

(* uploadSmallFile: straight to S3, or through the API.                    *)
PutFile ==
  /\ sending \in {"putting", "roundabout"} /\ sending' = "confirming" /\ object' = Part
  /\ UNCHANGED <<workers, pile, asset, completer, aborter, failures, answerLost>>

PutFileFails ==
  /\ sending \in {"putting", "roundabout"} /\ Failure
  /\ sending' \in (IF sending = "putting" THEN {"roundabout", "failed"} ELSE {"failed"})
  /\ UNCHANGED <<workers, store, completer, aborter, answerLost>>

(* A part reaches S3, unless its upload is over.                           *)
StorePart(p) ==
  /\ part[p] = "sent" /\ pile = "open" /\ part' = [part EXCEPT ![p] = "stored"]
  /\ UNCHANGED <<sending, attempts, allowance, hasFailed, etags, store, completer, aborter, failures, answerLost>>

(* processPart, its finally and startNext.                                 *)
PartDone(p) ==
  /\ part[p] = "stored" /\ etags' = Append(etags, p)
  /\ allowance' = IF attempts[p] = 0 /\ allowance < MaxWorkers THEN allowance + 1 ELSE allowance
  /\ UNCHANGED hasFailed /\ StartNext([part EXCEPT ![p] = "done"])
  /\ UNCHANGED <<attempts, store, completer, aborter, failures, answerLost>>

PartFails(p) ==
  /\ part[p] \in {"sent", "stored"} /\ (pile = "open" => Failure) /\ (pile # "open" => UNCHANGED failures)
  /\ attempts' = [attempts EXCEPT ![p] = @ + 1] /\ allowance' = 1
  /\ IF attempts[p] < MaxAttempts
     THEN part' = [part EXCEPT ![p] = "asleep"] /\ UNCHANGED <<hasFailed, sending>>
     ELSE part' = [part EXCEPT ![p] = "left"] /\ hasFailed' = TRUE
            /\ sending' = IF hasFailed THEN sending ELSE "aborting"
  /\ UNCHANGED <<etags, store, completer, aborter, answerLost>>

PartWakes(p) ==
  /\ part[p] = "asleep" /\ part' = [part EXCEPT ![p] = IF hasFailed THEN "left" ELSE "sent"]
  /\ UNCHANGED <<sending, attempts, allowance, hasFailed, etags, store, completer, aborter, failures, answerLost>>
-----------------------------------------------------------------------------
(* completeMultipartUpload: the row is read, S3 joins the listed parts,    *)
(* confirmUpload looks at the row again.                                   *)
CheckCompletion ==
  /\ sending = "completing" /\ completer = "idle"
  /\ completer' = IF asset = "PENDING_UPLOAD" THEN "checked" ELSE "refused"
  /\ UNCHANGED <<sending, workers, store, aborter, failures, answerLost>>

JoinParts ==
  /\ completer = "checked"
  /\ \/ pile = "open" /\ completer' = "merged" /\ pile' = "completed" /\ UNCHANGED failures
        /\ object' = {p \in Part : \E i \in DOMAIN etags : etags[i] = p}
     \/ pile # "open" /\ completer' = "refused" /\ UNCHANGED <<pile, object, failures>>
     \/ Failure /\ completer' = "refused" /\ UNCHANGED <<pile, object>>
  /\ UNCHANGED <<sending, workers, asset, aborter, answerLost>>

(* A video's thumbnail is queued after the row says PROCESSING; when that  *)
(* fails the row says FAILED, unless this cannot be written either.        *)
ConfirmUpload ==
  /\ completer = "merged" \/ (sending = "confirming" /\ completer = "idle")
  /\ \/ asset # "gone" /\ completer' = "confirmed" /\ asset' = "PROCESSING" /\ UNCHANGED failures
     \/ asset = "gone" /\ completer' = "refused" /\ UNCHANGED <<asset, failures>>
     \/ Failure /\ completer' = "refused" /\ UNCHANGED asset
     \/ asset # "gone" /\ Failure /\ completer' = "refused" /\ asset' \in {"FAILED", "unqueued"}
  /\ UNCHANGED <<sending, workers, pile, object, aborter, answerLost>>

Answered ==
  /\ sending \in {"completing", "confirming"} /\ completer \in {"confirmed", "refused"}
  /\ sending' = IF completer = "confirmed" THEN "done" ELSE IF sending = "completing" THEN "aborting" ELSE "failed"
  /\ UNCHANGED <<workers, store, completer, aborter, failures, answerLost>>

(* The connection breaks; the API goes on.                                 *)
LoseAnswer ==
  /\ sending \in {"completing", "confirming"} /\ completer # "idle" /\ Failure /\ answerLost' = TRUE
  /\ sending' = IF sending = "completing" THEN "aborting" ELSE "failed"
  /\ UNCHANGED <<workers, store, completer, aborter>>

(* abortMultipartUpload; the page ignores its errors.                      *)
Abort ==
  /\ sending = "aborting" /\ aborter = "idle"
  /\ \/ asset = "PENDING_UPLOAD" /\ aborter' = "checked" /\ UNCHANGED <<sending, failures>>
     \/ asset # "PENDING_UPLOAD" /\ sending' = "failed" /\ UNCHANGED <<aborter, failures>>
     \/ Failure /\ sending' = "failed" /\ UNCHANGED aborter
  /\ UNCHANGED <<workers, store, completer, answerLost>>

AbortAtS3 ==
  /\ aborter = "checked" /\ aborter' = "dropping"
  /\ \/ pile' = (IF pile = "open" THEN "aborted" ELSE pile) /\ UNCHANGED failures
     \/ Failure /\ UNCHANGED pile
  /\ UNCHANGED <<sending, workers, object, asset, completer, answerLost>>

DropAborted ==
  /\ aborter = "dropping" /\ aborter' = "idle" /\ sending' = "failed"
  /\ \/ asset' = "gone" /\ UNCHANGED failures
     \/ Failure /\ UNCHANGED asset
  /\ UNCHANGED <<workers, pile, object, completer, answerLost>>

UploadNext ==
  \/ CreateSmall \/ CreateMultipart \/ PutFile \/ PutFileFails
  \/ \E p \in Part : StorePart(p) \/ PartDone(p) \/ PartFails(p) \/ PartWakes(p)
  \/ CheckCompletion \/ JoinParts \/ ConfirmUpload \/ Answered \/ LoseAnswer
  \/ Abort \/ AbortAtS3 \/ DropAborted

UploadSpec == UploadInit /\ [][UploadNext]_uploadVars
-----------------------------------------------------------------------------
(* What the library takes in is the whole file: the parts the page lists   *)
(* are all of them, each once, and none is still under way; an upload that *)
(* was given up is never completed; and what the page calls uploaded is    *)
(* there.  A file it calls failed is taken in only when the answer of the  *)
(* API was lost on the way.                                                *)
UploadsAreWhole ==
  /\ asset \in {"PROCESSING", "unqueued"} => object = Part
  /\ sending = "completing" => Len(etags) = Parts /\ Working(part) = {}
  /\ hasFailed => pile # "completed"
  /\ sending = "done" => asset = "PROCESSING"
  /\ sending = "failed" /\ asset = "PROCESSING" => answerLost
=============================================================================
