------------------------------ MODULE Comments ------------------------------
(***************************************************************************)
(* The inbox of one social account: a comment of a customer under a        *)
(* published post, the messages the team sends (a reply at once, a reply   *)
(* through the queue, a comment of its own through the queue), moderation, *)
(* and the sync that copies what the platform shows.  Each actor reads     *)
(* rows, calls the platform, and writes rows later.                        *)
(***************************************************************************)
EXTENDS Naturals

CONSTANTS Message,         \* messages the team may send
          MaxSends,        \* attempts of a queued message, 3 in the code
          MaxLostAnswers   \* bound on lost answers, crashes, failed writes

ASSUME CommentsAssumption == MaxSends \in Nat \ {0} /\ MaxLostAnswers \in Nat

SendKinds == {"direct", "reply", "comment"}

VARIABLES
  customer,     \* the customer's comment: [here: its row, shown, status]
  there,        \* the platform: [exists, hidden] for that comment
  message,      \* [kind, row: CommentReply.status, step, tries]
  copies,       \* how often the platform shows each message
  copyRow,      \* whether the inbox has a row for the message
  page,         \* what a running sync has fetched, or NoPage
  moderation,   \* the moderating request between platform and database
  connected,    \* the account is CONNECTED
  stalled,      \* an execution of the message's job that BullMQ has given up,
                \* and that goes on all the same: where it is
  lostAnswers

inboxVars ==
  <<customer, there, message, copies, copyRow, page, moderation, connected, stalled, lostAnswers>>

NoPage == [fetched |-> FALSE, exists |-> FALSE, hidden |-> FALSE, ours |-> {}]
NoMessage == [kind |-> "none", row |-> "none", step |-> "none", tries |-> 0]
Unsent == {"none", "done", "dead"}       \* steps at which nothing is under way

InboxTypeOK ==
  /\ customer \in [here : {"none", "live", "removed"}, hidden : BOOLEAN,
                   status : {"OPEN", "RESOLVED"}]
  /\ there \in [exists : BOOLEAN, hidden : BOOLEAN]
  /\ message \in [Message -> [kind : SendKinds \cup {"none"},
                              row : {"none", "PENDING", "SENT", "FAILED"},
                              step : Unsent \cup {"waiting", "call", "store"},
                              tries : 0..MaxSends]]
  /\ copies \in [Message -> 0..MaxSends + 1] /\ copyRow \in [Message -> {"none", "live", "removed"}]
  /\ page \in [fetched : BOOLEAN, exists : BOOLEAN, hidden : BOOLEAN, ours : SUBSET Message]
  /\ moderation \in {"none", "hide", "show", "delete"}
  /\ connected \in BOOLEAN /\ lostAnswers \in 0..MaxLostAnswers
  /\ stalled \in [Message -> {"never", "call", "store", "over"}]

InboxInit ==
  /\ customer = [here |-> "none", hidden |-> FALSE, status |-> "OPEN"]
  /\ there = [exists |-> TRUE, hidden |-> FALSE]
  /\ message = [m \in Message |-> NoMessage] /\ copies = [m \in Message |-> 0]
  /\ copyRow = [m \in Message |-> "none"] /\ page = NoPage /\ moderation = "none"
  /\ connected = TRUE /\ stalled = [m \in Message |-> "never"] /\ lostAnswers = 0

AnswerLost == lostAnswers < MaxLostAnswers /\ lostAnswers' = lostAnswers + 1
OnlyMessages == UNCHANGED <<customer, there, copyRow, page, moderation, connected>>
At(m, step, kinds) == message[m].step = step /\ message[m].kind \in kinds
-----------------------------------------------------------------------------
(* reply, queueReplyToComment, createPlatformComment: checked, a row for a *)
(* reply, and a job unless the request itself sends it.  The bulk forms    *)
(* do this once per target, and report the refusals.                       *)
Send(m, kind) ==
  /\ message[m] = NoMessage /\ connected
  /\ kind # "comment" => customer.here = "live"
  /\ message' = [message EXCEPT ![m] =
       [kind |-> kind, row |-> IF kind = "comment" THEN "none" ELSE "PENDING",
        step |-> IF kind = "direct" THEN "call" ELSE "waiting",
        tries |-> IF kind = "direct" THEN 1 ELSE 0]]
  /\ OnlyMessages /\ UNCHANGED <<copies, stalled, lostAnswers>>

(* The worker loads what the message is about.  What is gone ends the job, *)
(* as a success, and leaves the reply PENDING.                             *)
Deliverable(m) ==
  /\ connected
  /\ message[m].kind = "reply" => customer.here = "live" /\ message[m].row # "none"

\* Mutant of LoadMessage: what the message answers is not looked up again.
LoadBlindly(m) ==
  /\ At(m, "waiting", {"reply", "comment"})
  /\ message' = [message EXCEPT ![m].step = "call", ![m].tries = @ + 1]
  /\ OnlyMessages /\ UNCHANGED <<copies, stalled, lostAnswers>>

LoadMessage(m) ==
  /\ At(m, "waiting", {"reply", "comment"})
  /\ message' = [message EXCEPT ![m].step = IF Deliverable(m) THEN "call" ELSE "done",
                                ![m].tries = @ + 1]
  /\ OnlyMessages /\ UNCHANGED <<copies, stalled, lostAnswers>>

(* Who sends: the job, as BullMQ knows it (a request itself for a direct   *)
(* reply), or the execution that has stalled and goes on.  The outcome of  *)
(* the latter is in the rows, and nowhere else: BullMQ refuses it.         *)
Executor == {"job", "stalled"}
StepOf(m, x) == IF x = "job" THEN message[m].step ELSE stalled[m]

ComesTo(m, x, row, step) ==
  /\ message' = [message EXCEPT ![m].row = IF @ = "none" THEN "none" ELSE row,
                                 ![m].step = IF x = "job" THEN step ELSE @]
  /\ stalled' = IF x = "job" THEN stalled
                ELSE [stalled EXCEPT ![m] = IF step = "store" THEN step ELSE "over"]

(* A send that failed: the reply is FAILED, the job is over, or tried      *)
(* again when the error is retryable and attempts are left.                *)
SendFailed(m, x, retryable) ==
  ComesTo(m, x, "FAILED",
          IF message[m].kind = "direct" \/ ~retryable \/ message[m].tries = MaxSends
          THEN "dead" ELSE "waiting")

(* replyToComment and createComment of the adapter.                        *)
CallPlatform(m, x) ==
  /\ StepOf(m, x) = "call"
  /\ \/ /\ message[m].kind = "comment" \/ there.exists
        /\ copies' = [copies EXCEPT ![m] = @ + 1]
        /\ \/ ComesTo(m, x, message[m].row, "store") /\ UNCHANGED lostAnswers
           \/ AnswerLost /\ SendFailed(m, x, TRUE)
     \/ \E retryable \in BOOLEAN :
          SendFailed(m, x, retryable) /\ UNCHANGED <<copies, lostAnswers>>
  /\ OnlyMessages

(* The transaction: the reply is SENT, the comment RESOLVED, and a row for *)
(* what was said is there, revived if need be.  It fails when the comment  *)
(* has been deleted meanwhile, its replies with it.                        *)
StoreSent(m, x) ==
  /\ StepOf(m, x) = "store"
  /\ IF message[m].kind # "comment" /\ (customer.here = "none" \/ message[m].row = "none")
     THEN SendFailed(m, x, TRUE) /\ UNCHANGED <<customer, copyRow>>
     ELSE /\ ComesTo(m, x, "SENT", "done")
          /\ copyRow' = [copyRow EXCEPT ![m] = "live"]
          /\ customer' = IF message[m].kind = "comment" THEN customer
                         ELSE [customer EXCEPT !.status = "RESOLVED"]
  /\ UNCHANGED <<there, copies, page, moderation, connected, lostAnswers>>

(* BullMQ hands a job out again, once, whose worker has not renewed its    *)
(* lock for 30 s, whether it is dead or only slow; the second time the job *)
(* is over.  Nothing in the worker looks whether the first one still runs. *)
Again(m) == message' = [message EXCEPT ![m].step = "waiting", ![m].tries = @ - 1]

Stall(m) ==
  /\ message[m].step \in {"call", "store"} /\ message[m].kind # "direct"
  /\ IF stalled[m] = "never"
     THEN stalled' = [stalled EXCEPT ![m] = message[m].step] /\ Again(m)
     ELSE message' = [message EXCEPT ![m].tries = MaxSends] /\ UNCHANGED stalled
  /\ OnlyMessages /\ UNCHANGED <<copies, lostAnswers>>

(* The worker dies, or the request.                                        *)
SenderDies(m) ==
  /\ message[m].step \in {"call", "store"} /\ AnswerLost
  /\ IF message[m].kind # "direct" /\ stalled[m] = "never"
     THEN stalled' = [stalled EXCEPT ![m] = "over"] /\ Again(m)
     ELSE message' = [message EXCEPT ![m].step = "dead"] /\ UNCHANGED stalled
  /\ OnlyMessages /\ UNCHANGED copies
-----------------------------------------------------------------------------
(* updateStatus, and deleteComment for the inbox alone.                    *)
UpdateStatus ==
  /\ customer.here = "live"
  /\ \E s \in {"OPEN", "RESOLVED"} : customer' = [customer EXCEPT !.status = s]
  /\ UNCHANGED <<there, message, copies, copyRow, page, moderation, connected, stalled, lostAnswers>>

RemoveFromInbox ==
  /\ customer.here = "live" /\ customer' = [customer EXCEPT !.here = "removed"]
  /\ copyRow' = [m \in Message |-> IF copyRow[m] = "live" /\ message[m].kind # "comment"
                                   THEN "removed" ELSE copyRow[m]]
  /\ UNCHANGED <<there, message, copies, page, moderation, connected, stalled, lostAnswers>>

(* updateVisibility, deleteComment on the platform: first there (YouTube   *)
(* hides a customer's comment where the others delete it) ...              *)
Moderate(how) ==
  /\ customer.here = "live" /\ connected /\ moderation = "none" /\ moderation' = how
  /\ there' \in IF how = "delete"
       THEN {[there EXCEPT !.exists = FALSE], [there EXCEPT !.hidden = TRUE]}
       ELSE {[there EXCEPT !.hidden = (how = "hide")]}
  /\ UNCHANGED <<customer, message, copies, copyRow, page, connected, stalled, lostAnswers>>

(* ... then in the database, where the replies go with their comment.      *)
StoreModeration ==
  /\ moderation # "none" /\ moderation' = "none"
  /\ IF moderation = "delete"
     THEN /\ customer' = [customer EXCEPT !.here = "none"]
          /\ message' = [m \in Message |-> [message[m] EXCEPT !.row = "none"]]
          /\ copyRow' = [m \in Message |-> IF message[m].kind = "comment" THEN copyRow[m]
                                           ELSE "none"]
     ELSE /\ customer' = IF customer.here = "none" THEN customer
                         ELSE [customer EXCEPT !.hidden = (moderation = "hide")]
          /\ UNCHANGED <<message, copyRow>>
  /\ UNCHANGED <<there, copies, page, connected, stalled, lostAnswers>>

-----------------------------------------------------------------------------
(* syncPlatformPostComments: the platform's page, then its rows.           *)
FetchPage ==
  /\ ~page.fetched /\ connected
  /\ page' = [fetched |-> TRUE, exists |-> there.exists, hidden |-> there.hidden,
              ours |-> {m \in Message : /\ copies[m] > 0
                                        /\ there.exists \/ message[m].kind = "comment"}]
  /\ UNCHANGED <<customer, there, message, copies, copyRow, moderation, connected, stalled, lostAnswers>>

Upserted(state, removedToo) ==
  IF state = "none" \/ removedToo THEN "live" ELSE state

StoreAs(removedToo) ==
  /\ page.fetched /\ page' = NoPage
  /\ customer' = IF page.exists
       THEN [here |-> Upserted(customer.here, removedToo), hidden |-> page.hidden,
             status |-> IF customer.here = "none" THEN "OPEN" ELSE customer.status]
       ELSE customer
  /\ copyRow' = [m \in Message |-> IF m \in page.ours THEN Upserted(copyRow[m], removedToo)
                                   ELSE copyRow[m]]
  /\ UNCHANGED <<there, message, copies, moderation, connected, stalled, lostAnswers>>

\* Mutant of StorePage: what a user removed is shown again.
StoreReviving == StoreAs(TRUE)
StorePage == StoreAs(FALSE)

Disconnects ==
  /\ connected' = ~connected
  /\ UNCHANGED <<customer, there, message, copies, copyRow, page, moderation, stalled, lostAnswers>>

InboxNext ==
  \/ \E m \in Message : \/ \E kind \in SendKinds : Send(m, kind)
                        \/ \E x \in Executor : CallPlatform(m, x) \/ StoreSent(m, x)
                        \/ LoadMessage(m) \/ Stall(m) \/ SenderDies(m)
  \/ UpdateStatus \/ RemoveFromInbox \/ \E how \in {"hide", "show", "delete"} : Moderate(how)
  \/ StoreModeration \/ FetchPage \/ StorePage \/ Disconnects

InboxSpec == InboxInit /\ [][InboxNext]_inboxVars
-----------------------------------------------------------------------------
(* Unless an answer was lost, customers never read a message twice: a job  *)
(* whose result could not be stored, because somebody deleted the comment, *)
(* is tried again and finds nothing to answer.  One whose worker stalls is *)
(* sent twice at most.                                                     *)
NoMessageTwice ==
  lostAnswers = 0 => \A m \in Message : copies[m] <= IF stalled[m] = "never" THEN 1 ELSE 2

(* Unless an answer was lost or a worker stalled, a reply shown as FAILED, *)
(* with no attempt left, is one the customer never saw.                    *)
FailedIsUnseen ==
  lostAnswers = 0 => \A m \in Message :
    stalled[m] = "never" /\ message[m].row = "FAILED" /\ message[m].step \in Unsent
      => copies[m] = 0

(* What a user removed from the inbox stays removed: the syncs that go on  *)
(* seeing it on the platform do not bring it back.                         *)
RemovedStaysRemoved ==
  [][customer.here = "removed" => customer'.here # "live"]_inboxVars

(* The inbox tells the truth about what customers have read.              *)
InboxTellsTheTruth == NoMessageTwice /\ FailedIsUnseen
=============================================================================
