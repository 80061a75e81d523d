------------------------------- MODULE JobLock -------------------------------
(***************************************************************************)
(* JobLockService of apps/worker/src/queue/job-lock.ts for one resource: a *)
(* Redis key set with SET NX PX under a random token, deleted and extended *)
(* by scripts that compare the token, and withLock, which runs a function  *)
(* under the lock while a timer extends the key every 30 seconds.          *)
(*                                                                         *)
(* A client is one call of withLock.  Time passes in ticks: the key's time *)
(* to live and the clients' heartbeat timers count down together.  A timer *)
(* may be served late, by at most MaxLate ticks: the event loop is busy or *)
(* the command is still on its way to Redis.  When RedisFaults is TRUE a   *)
(* command may fail, before or after Redis has executed it.                *)
(***************************************************************************)
EXTENDS Integers

CONSTANTS Client,       \* the calls of withLock for this resource
          Nobody,       \* the key does not exist
          Orphan,       \* the key holds a token no running call knows
          Ttl,          \* ttlMs, in ticks
          Period,       \* the heartbeat interval, 30000 ms, in ticks
          MaxLate,      \* bound on the lateness of a heartbeat, in ticks
          RedisFaults   \* may a Redis command fail?

ASSUME JobLockAssumption ==
  /\ Nobody \notin Client /\ Orphan \notin Client /\ Nobody # Orphan
  /\ Ttl \in Nat \ {0} /\ Period \in Nat \ {0} /\ MaxLate \in Nat
  /\ RedisFaults \in BOOLEAN

VARIABLES value,   \* the token stored under the key: a client names its own
          ttl,     \* ticks until Redis removes the key
          pc,      \* where each call of withLock is
          owned,   \* lockOwned, what isOwned() tells the function
          due      \* ticks until the heartbeat timer fires; negative: late

vars == <<value, ttl, pc, owned, due>>

Tokens == Client \cup {Nobody, Orphan}

TypeOK ==
  /\ value \in Tokens
  /\ ttl \in 0..Ttl
  /\ pc \in [Client -> {"idle", "running", "releasing"}]
  /\ owned \in [Client -> BOOLEAN]
  /\ due \in [Client -> (-MaxLate)..Period]

Init ==
  /\ value = Nobody
  /\ ttl = 0
  /\ pc = [c \in Client |-> "idle"]
  /\ owned = [c \in Client |-> FALSE]
  /\ due = [c \in Client |-> Period]
-----------------------------------------------------------------------------
(* withLock: acquire succeeded, the heartbeat timer is armed and fn runs.  *)
(* (When the key exists acquire returns null, fn does not run and nothing  *)
(* changes.)                                                               *)
(* Mutant: SET without PX, a key that never expires.                       *)
AcquireWithoutExpiry(c) ==
  /\ pc[c] = "idle" /\ value = Nobody
  /\ value' = c /\ ttl' = 0
  /\ pc' = [pc EXCEPT ![c] = "running"]
  /\ owned' = [owned EXCEPT ![c] = TRUE]
  /\ due' = [due EXCEPT ![c] = Period]

Acquire(c) ==
  /\ pc[c] = "idle" /\ value = Nobody
  /\ value' = c /\ ttl' = Ttl
  /\ pc' = [pc EXCEPT ![c] = "running"]
  /\ owned' = [owned EXCEPT ![c] = TRUE]
  /\ due' = [due EXCEPT ![c] = Period]

(* Redis set the key but the reply was lost: acquire throws, so does       *)
(* withLock, and nobody holds the token that is now stored.                *)
AcquireReplyLost(c) ==
  /\ RedisFaults
  /\ pc[c] = "idle" /\ value = Nobody
  /\ value' = Orphan /\ ttl' = Ttl
  /\ UNCHANGED <<pc, owned, due>>

(* The timer's extend: pexpire if the key still holds this token,          *)
(* otherwise lockOwned becomes false - and stays false.                    *)
(* Mutant: the script adds to the time to live instead of setting it.      *)
HeartbeatAdding(c) ==
  /\ pc[c] = "running" /\ due[c] <= 0
  /\ due' = [due EXCEPT ![c] = Period]
  /\ ttl' = IF value = c THEN ttl + Ttl ELSE ttl
  /\ owned' = [owned EXCEPT ![c] = @ /\ value = c]
  /\ UNCHANGED <<value, pc>>

Heartbeat(c) ==
  /\ pc[c] = "running" /\ due[c] <= 0
  /\ due' = [due EXCEPT ![c] = Period]
  /\ ttl' = IF value = c THEN Ttl ELSE ttl
  /\ owned' = [owned EXCEPT ![c] = @ /\ value = c]
  /\ UNCHANGED <<value, pc>>

(* extend threw: lockOwned becomes false, and Redis may have extended the  *)
(* key all the same.  Mutant: the error is ignored.                        *)
HeartbeatErrorIgnored(c) ==
  /\ RedisFaults
  /\ pc[c] = "running" /\ due[c] <= 0
  /\ due' = [due EXCEPT ![c] = Period]
  /\ UNCHANGED <<value, ttl, pc, owned>>

HeartbeatError(c) ==
  /\ RedisFaults
  /\ pc[c] = "running" /\ due[c] <= 0
  /\ due' = [due EXCEPT ![c] = Period]
  /\ \/ ttl' = ttl
     \/ value = c /\ ttl' = Ttl
  /\ owned' = [owned EXCEPT ![c] = FALSE]
  /\ UNCHANGED <<value, pc>>

(* fn returned or threw: finally clears the timer, then calls release.     *)
(* (due and owned mean nothing without a running function: they go back to *)
(* the values they had before it.)                                         *)
Finish(c) ==
  /\ pc[c] = "running"
  /\ pc' = [pc EXCEPT ![c] = "releasing"]
  /\ owned' = [owned EXCEPT ![c] = FALSE]
  /\ due' = [due EXCEPT ![c] = Period]
  /\ UNCHANGED <<value, ttl>>

(* Mutant: plain DEL, without comparing the token.                         *)
ReleaseAnything(c) ==
  /\ pc[c] = "releasing"
  /\ pc' = [pc EXCEPT ![c] = "idle"]
  /\ value' = Nobody /\ ttl' = 0
  /\ UNCHANGED <<owned, due>>

(* release: the key is deleted only if it still holds this token.          *)
Release(c) ==
  /\ pc[c] = "releasing"
  /\ pc' = [pc EXCEPT ![c] = "idle"]
  /\ IF value = c THEN value' = Nobody /\ ttl' = 0 ELSE UNCHANGED <<value, ttl>>
  /\ UNCHANGED <<owned, due>>

(* release failed and .catch(() => {}) swallowed it: the token stays in    *)
(* Redis until it expires.                                                 *)
ReleaseError(c) ==
  /\ RedisFaults
  /\ pc[c] = "releasing"
  /\ pc' = [pc EXCEPT ![c] = "idle"]
  /\ value' = IF value = c THEN Orphan ELSE value
  /\ UNCHANGED <<ttl, owned, due>>

(* The process dies: the call is gone, its token stays until it expires.   *)
Crash(c) ==
  /\ pc[c] # "idle"
  /\ pc' = [pc EXCEPT ![c] = "idle"]
  /\ value' = IF value = c THEN Orphan ELSE value
  /\ owned' = [owned EXCEPT ![c] = FALSE]
  /\ due' = [due EXCEPT ![c] = Period]
  /\ UNCHANGED ttl

(* Time passes, unless a heartbeat is already as late as it can be; Redis  *)
(* removes the key when its time to live is over.                          *)
Tick ==
  /\ \A c \in Client : pc[c] = "running" => due[c] > -MaxLate
  /\ ttl' = IF ttl > 0 THEN ttl - 1 ELSE 0
  /\ value' = IF ttl = 1 THEN Nobody ELSE value
  /\ due' = [c \in Client |-> IF pc[c] = "running" THEN due[c] - 1 ELSE due[c]]
  /\ UNCHANGED <<pc, owned>>

Next ==
  \/ Tick
  \/ \E c \in Client :
       \/ Acquire(c) \/ AcquireReplyLost(c)
       \/ Heartbeat(c) \/ HeartbeatError(c)
       \/ Finish(c) \/ Release(c) \/ ReleaseError(c)
       \/ Crash(c)

(* Time and Redis' expiry do not depend on the workers; timers are served; *)
(* fn ends (every await in the processors is bounded by a timeout) and     *)
(* finally runs.                                                           *)
Fairness ==
  /\ WF_vars(Tick)
  /\ \A c \in Client : /\ WF_vars(Heartbeat(c))
                       /\ WF_vars(Finish(c))
                       /\ WF_vars(Release(c))

Spec == Init /\ [][Next]_vars

FairSpec == Spec /\ Fairness
-----------------------------------------------------------------------------
(* The calls whose function runs and is told that it owns the lock.        *)
Confident(c) == pc[c] = "running" /\ owned[c]

(* A heartbeat always reaches Redis before the key it extends is gone.     *)
Timely == Period + MaxLate < Ttl

(* isOwned() never misleads two functions at once: if heartbeats are       *)
(* timely, at most one running function is told that it owns the lock,     *)
(* whatever commands fail, replies get lost or processes die.              *)
OneConfidentOwner ==
  Timely => \A c, d \in Client : Confident(c) /\ Confident(d) => c = d

(* And it is told so only while its own token is in Redis.                 *)
ConfidenceIsBacked ==
  Timely => \A c \in Client : Confident(c) => value = c

(* "Two workers get the same job, only one executes": no two functions run *)
(* under the same lock.  The code needs this one, for no processor asks    *)
(* isOwned() or assertOwned(); it takes timely heartbeats AND a Redis that *)
(* never fails.                                                            *)
ExclusiveExecution ==
  \A c, d \in Client : pc[c] = "running" /\ pc[d] = "running" => c = d

ExclusiveWhenHealthy == Timely /\ ~RedisFaults => ExclusiveExecution

(* A token left behind by a crash or a lost reply does not lock the        *)
(* resource for ever.                                                      *)
OrphanExpires == (value = Orphan) ~> (value # Orphan)

(* The confident owner, seen as the state of the abstract mutex.           *)
OwnerNow ==
  IF \E c \in Client : Confident(c) THEN CHOOSE c \in Client : Confident(c)
                                    ELSE Nobody

Mutex == INSTANCE ConfidentMutex WITH owner <- OwnerNow

ImplementsMutex == Mutex!Spec
=============================================================================
