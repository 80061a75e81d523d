------------------------------ MODULE Webhooks ------------------------------
(***************************************************************************)
(* From a platform's webhook to the comments it announces.  The API stores *)
(* an event once (unique on platform and identity), queues process-webhook *)
(* for it and answers; the worker queues one sync-comments job per account *)
(* the event concerns, whose id is made of the target and the second the   *)
(* event happened in, and which is kept in Redis for good: events of one   *)
(* second and target share it.  Platforms deliver again what was not       *)
(* answered with 200, and sometimes what was.                              *)
(***************************************************************************)
EXTENDS Naturals

CONSTANTS Event,          \* events, by the hash of their content
          SyncJob,        \* ids of sync-comments jobs
          SyncOf,         \* the jobs an event asks for; none: not understood
          MaxHookTries,   \* attempts of process-webhook, 5 in the code
          MaxHookMishaps  \* bound on crashes and on Redis being away

ASSUME WebhooksAssumption ==
  /\ SyncOf \in [Event -> SUBSET SyncJob]
  /\ MaxHookTries \in Nat \ {0} /\ MaxHookMishaps \in Nat

VARIABLES event,      \* the WebhookEvent rows
          answer,     \* the last answer the platform got for an event
          hookJob,    \* the process-webhook jobs
          hookTries,  \* the attempts they have made
          request,    \* the requests between storing and queueing
          syncJob,    \* the sync-comments jobs
          asked,      \* the jobs a running process-webhook has asked for
          hookMishaps

hookVars == <<event, answer, hookJob, hookTries, request, syncJob, asked, hookMishaps>>

HookTypeOK ==
  /\ event \in [Event -> {"none", "RECEIVED", "PROCESSING", "PROCESSED", "IGNORED", "FAILED"}]
  /\ answer \in [Event -> {"none", "accepted", "duplicate", "error"}]
  /\ hookJob \in [Event -> {"none", "waiting", "running", "marked", "done", "dead"}]
  /\ hookTries \in [Event -> 0..MaxHookTries]
  /\ request \in [Event -> BOOLEAN]
  /\ syncJob \in [SyncJob -> {"none", "waiting", "done", "dead"}]
  /\ asked \in [Event -> SUBSET SyncJob]
  /\ hookMishaps \in 0..MaxHookMishaps

HookInit ==
  /\ event = [e \in Event |-> "none"] /\ answer = [e \in Event |-> "none"]
  /\ hookJob = [e \in Event |-> "none"] /\ hookTries = [e \in Event |-> 0]
  /\ request = [e \in Event |-> FALSE] /\ syncJob = [s \in SyncJob |-> "none"]
  /\ asked = [e \in Event |-> {}] /\ hookMishaps = 0

HookMishap == hookMishaps < MaxHookMishaps /\ hookMishaps' = hookMishaps + 1
-----------------------------------------------------------------------------
(* receive: the row, or, when there is one, the answer that it is known.   *)
Receive(e) ==
  /\ ~request[e]
  /\ IF event[e] = "none"
     THEN /\ event' = [event EXCEPT ![e] = "RECEIVED"]
          /\ request' = [request EXCEPT ![e] = TRUE]
          /\ UNCHANGED answer
     ELSE answer' = [answer EXCEPT ![e] = "duplicate"] /\ UNCHANGED <<event, request>>
  /\ UNCHANGED <<hookJob, hookTries, syncJob, asked, hookMishaps>>

QueueEvent(e) ==
  /\ request[e]
  /\ request' = [request EXCEPT ![e] = FALSE]
  /\ \/ /\ hookJob' = [hookJob EXCEPT ![e] = "waiting"]
        /\ answer' = [answer EXCEPT ![e] = "accepted"]
        /\ UNCHANGED hookMishaps
     \/ /\ HookMishap    \* Redis is away, or the API dies
        /\ answer' = [answer EXCEPT ![e] = "error"]
        /\ UNCHANGED hookJob
  /\ UNCHANGED <<event, hookTries, syncJob, asked>>

(* The worker takes the job; an event that is done is left alone.          *)
TakeEvent(e) ==
  /\ hookJob[e] = "waiting"
  /\ IF event[e] \in {"PROCESSED", "IGNORED"}
     THEN hookJob' = [hookJob EXCEPT ![e] = "done"] /\ UNCHANGED <<event, hookTries>>
     ELSE /\ hookJob' = [hookJob EXCEPT ![e] = "running"]
          /\ event' = [event EXCEPT ![e] = "PROCESSING"]
          /\ hookTries' = [hookTries EXCEPT ![e] = @ + 1]
  /\ asked' = [asked EXCEPT ![e] = {}]
  /\ UNCHANGED <<answer, request, syncJob, hookMishaps>>

(* One sync-comments job; an id Redis knows changes nothing.               *)
AskSync(e, s) ==
  /\ hookJob[e] = "running" /\ s \in SyncOf[e] \ asked[e]
  /\ syncJob' = [syncJob EXCEPT ![s] = IF @ = "none" THEN "waiting" ELSE @]
  /\ asked' = [asked EXCEPT ![e] = @ \cup {s}]
  /\ UNCHANGED <<event, answer, hookJob, hookTries, request, hookMishaps>>

\* Mutant of MarkWebhookDone: the event is marked before its jobs are asked for.
MarkEarly(e) ==
  /\ hookJob[e] = "running"
  /\ event' = [event EXCEPT ![e] = IF SyncOf[e] = {} THEN "IGNORED" ELSE "PROCESSED"]
  /\ hookJob' = [hookJob EXCEPT ![e] = "marked"]
  /\ UNCHANGED <<answer, hookTries, request, syncJob, asked, hookMishaps>>

MarkWebhookDone(e) ==
  /\ hookJob[e] = "running" /\ asked[e] = SyncOf[e]
  /\ event' = [event EXCEPT ![e] = IF SyncOf[e] = {} THEN "IGNORED" ELSE "PROCESSED"]
  /\ hookJob' = [hookJob EXCEPT ![e] = "marked"]
  /\ UNCHANGED <<answer, hookTries, request, syncJob, asked, hookMishaps>>

EndHook(e) ==
  /\ hookJob[e] = "marked" /\ hookJob' = [hookJob EXCEPT ![e] = "done"]
  /\ UNCHANGED <<event, answer, hookTries, request, syncJob, asked, hookMishaps>>

(* An error while processing: FAILED for good after the last attempt.      *)
FailHook(e) ==
  /\ hookJob[e] = "running" /\ HookMishap
  /\ LET last == hookTries[e] = MaxHookTries IN
     /\ event' = [event EXCEPT ![e] = IF last THEN "FAILED" ELSE "PROCESSING"]
     /\ hookJob' = [hookJob EXCEPT ![e] = IF last THEN "dead" ELSE "waiting"]
  /\ UNCHANGED <<answer, hookTries, request, syncJob, asked>>

(* The worker dies: BullMQ gives the job to another one, once more.        *)
WorkerDies(e) ==
  /\ hookJob[e] \in {"running", "marked"} /\ HookMishap
  /\ hookJob' = [hookJob EXCEPT ![e] = "waiting"]
  /\ hookTries' = [hookTries EXCEPT ![e] = @ - 1]
  /\ UNCHANGED <<event, answer, request, syncJob, asked>>

(* sync-comments, queued without options: one attempt.                     *)
SyncRuns(s) ==
  /\ syncJob[s] = "waiting" /\ syncJob' \in {[syncJob EXCEPT ![s] = r] : r \in {"done", "dead"}}
  /\ UNCHANGED <<event, answer, hookJob, hookTries, request, asked, hookMishaps>>

HookNext ==
  \/ \E e \in Event : \/ Receive(e) \/ QueueEvent(e) \/ TakeEvent(e) \/ MarkWebhookDone(e)
                      \/ EndHook(e) \/ FailHook(e) \/ WorkerDies(e)
                      \/ \E s \in SyncJob : AskSync(e, s)
  \/ \E s \in SyncJob : SyncRuns(s)

HookSpec == HookInit /\ [][HookNext]_hookVars
-----------------------------------------------------------------------------
(* A processed event has asked for every sync it calls for, whatever died  *)
(* on the way.                                                             *)
ProcessedHasAsked ==
  \A e \in Event : event[e] = "PROCESSED" => \A s \in SyncOf[e] : syncJob[s] # "none"
=============================================================================
