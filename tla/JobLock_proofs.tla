---------------------------- MODULE JobLock_proofs ----------------------------
(***************************************************************************)
(* Proofs about JobLock, for every number of clients and all durations.    *)
(***************************************************************************)
EXTENDS JobLock, TLAPS

(* The key is there exactly as long as it has time to live.                *)
KeyLives == value = Nobody <=> ttl = 0

(* A confident client's token is in Redis, and the key will not go before  *)
(* its next heartbeat: ttl has run down no further than the timer has.     *)
LeaseCovers ==
  Timely => \A c \in Client : Confident(c) => value = c /\ ttl >= Ttl - Period + due[c]

(* With a Redis that answers, who runs is confident.                       *)
RunnersAreConfident ==
  Timely /\ ~RedisFaults => \A c \in Client : pc[c] = "running" => owned[c]

(* The inductive invariant.                                                *)
LockInv == TypeOK /\ KeyLives /\ LeaseCovers /\ RunnersAreConfident

(* A step of client c leaves the timers, flags and control points of the   *)
(* others alone, so the goal is about c and about the key.                 *)
LEMMA InitLockInv == Init => LockInv
  BY JobLockAssumption
     DEF Init, LockInv, TypeOK, Tokens, KeyLives, LeaseCovers, Confident,
         RunnersAreConfident

LEMMA TickKeepsLockInv == LockInv /\ Tick => LockInv'
<1> SUFFICES ASSUME LockInv, Tick PROVE LockInv'
  OBVIOUS
<1> USE JobLockAssumption DEF LockInv, TypeOK, Tick
<1>1. TypeOK'
  BY DEF Tokens
<1>2. KeyLives'
  BY DEF KeyLives, Tokens
<1>3. LeaseCovers'
  <2> SUFFICES ASSUME Timely, NEW c \in Client, Confident(c)'
               PROVE  value' = c /\ ttl' >= Ttl - Period + due'[c]
    BY DEF LeaseCovers, Timely
  <2>1. Confident(c) /\ due[c] > -MaxLate /\ due'[c] = due[c] - 1
    BY DEF Confident
  <2>2. value = c /\ ttl >= Ttl - Period + due[c]
    BY <2>1 DEF LeaseCovers
  <2>3. ttl > 1
    BY <2>1, <2>2 DEF Timely
  <2>4. QED
    BY <2>1, <2>2, <2>3
<1>4. RunnersAreConfident'
  BY DEF RunnersAreConfident, Timely
<1>5. QED
  BY <1>1, <1>2, <1>3, <1>4

LEMMA ClientStepKeepsLockInv ==
  ASSUME NEW c \in Client, LockInv,
         \/ Acquire(c) \/ AcquireReplyLost(c)
         \/ Heartbeat(c) \/ HeartbeatError(c)
         \/ Finish(c) \/ Release(c) \/ ReleaseError(c)
         \/ Crash(c)
  PROVE  LockInv'
<1> USE JobLockAssumption DEF LockInv, TypeOK, Tokens, KeyLives, LeaseCovers,
                              RunnersAreConfident, Confident, Timely
<1>1. CASE Acquire(c)
  BY <1>1 DEF Acquire
<1>2. CASE AcquireReplyLost(c)
  BY <1>2 DEF AcquireReplyLost
<1>3. CASE Heartbeat(c)
  BY <1>3 DEF Heartbeat
<1>4. CASE HeartbeatError(c)
  BY <1>4 DEF HeartbeatError
<1>5. CASE Finish(c)
  BY <1>5 DEF Finish
<1>6. CASE Release(c)
  BY <1>6 DEF Release
<1>7. CASE ReleaseError(c)
  BY <1>7 DEF ReleaseError
<1>8. CASE Crash(c)
  BY <1>8 DEF Crash
<1>9. QED
  BY <1>1, <1>2, <1>3, <1>4, <1>5, <1>6, <1>7, <1>8

LEMMA NextKeepsLockInv == LockInv /\ [Next]_vars => LockInv'
<1> SUFFICES ASSUME LockInv, [Next]_vars PROVE LockInv'
  OBVIOUS
<1>1. CASE Tick
  BY <1>1, TickKeepsLockInv
<1>2. CASE \E c \in Client :
             \/ Acquire(c) \/ AcquireReplyLost(c)
             \/ Heartbeat(c) \/ HeartbeatError(c)
             \/ Finish(c) \/ Release(c) \/ ReleaseError(c)
             \/ Crash(c)
  BY <1>2, ClientStepKeepsLockInv
<1>3. CASE UNCHANGED vars
  BY <1>3 DEF vars, LockInv, TypeOK, KeyLives, LeaseCovers, Confident,
              RunnersAreConfident, Timely
<1>4. QED
  BY <1>1, <1>2, <1>3 DEF Next

(* LockInv holds in every behaviour of the lock.                           *)
THEOREM LockInvariant == Spec => []LockInv
  BY InitLockInv, NextKeepsLockInv, PTL DEF Spec

(* job-lock.ts never stores or counts anything outside its types.          *)
THEOREM TypeCorrect == Spec => []TypeOK
<1>1. LockInv => TypeOK
  BY DEF LockInv
<1>2. QED
  BY <1>1, LockInvariant, PTL

(* isOwned(): with timely heartbeats two functions are never told at the   *)
(* same time that they own the lock, in spite of lost replies and crashes. *)
THEOREM ConfidentOwnerIsUnique == Spec => []OneConfidentOwner
<1>1. LockInv => OneConfidentOwner
  BY DEF LockInv, LeaseCovers, OneConfidentOwner, Confident
<1>2. QED
  BY <1>1, LockInvariant, PTL

(* isOwned() is true only while the client's own token is in Redis.        *)
THEOREM ConfidenceIsAlwaysBacked == Spec => []ConfidenceIsBacked
<1>1. LockInv => ConfidenceIsBacked
  BY DEF LockInv, LeaseCovers, ConfidenceIsBacked, Confident
<1>2. QED
  BY <1>1, LockInvariant, PTL

(* withLock excludes: if Redis answers every command and heartbeats are    *)
(* timely, two functions never run under the same lock.                    *)
THEOREM HealthyLockExcludes == Spec => []ExclusiveWhenHealthy
<1>1. LockInv => ExclusiveWhenHealthy
  BY DEF LockInv, LeaseCovers, RunnersAreConfident, ExclusiveWhenHealthy,
         ExclusiveExecution, Confident
<1>2. QED
  BY <1>1, LockInvariant, PTL
-----------------------------------------------------------------------------
(* The confident owner as the abstract mutex sees it.                      *)
LEMMA OwnerIsTheConfidentOne ==
  ASSUME Timely, LockInv
  PROVE  /\ \A c \in Client : Confident(c) => OwnerNow = c
         /\ (\A c \in Client : ~Confident(c)) => OwnerNow = Nobody
<1>1. OneConfidentOwner
  BY DEF LockInv, LeaseCovers, OneConfidentOwner, Confident
<1> QED
  BY <1>1 DEF OwnerNow, OneConfidentOwner

(* Confidence is only lost, or it is gained by an acquirer that is alone.  *)
LEMMA ConfidenceSteps ==
  ASSUME Timely, LockInv, [Next]_vars
  PROVE  \/ \A c \in Client : Confident(c)' => Confident(c)
         \/ \E d \in Client : /\ \A c \in Client : ~Confident(c)
                              /\ \A c \in Client : Confident(c)' <=> c = d
<1> USE DEF LockInv, TypeOK, Confident
<1>1. CASE Tick \/ UNCHANGED vars
  BY <1>1 DEF Tick, vars
<1>2. ASSUME NEW d \in Client, Acquire(d)
      PROVE  /\ \A c \in Client : ~Confident(c)
             /\ \A c \in Client : Confident(c)' <=> c = d
  <2>1. \A c \in Client : ~Confident(c)
    BY <1>2, JobLockAssumption DEF Acquire, LeaseCovers
  <2> QED
    BY <1>2, <2>1 DEF Acquire
<1>3. ASSUME NEW d \in Client,
             \/ AcquireReplyLost(d) \/ Heartbeat(d) \/ HeartbeatError(d)
             \/ Finish(d) \/ Release(d) \/ ReleaseError(d) \/ Crash(d)
      PROVE  \A c \in Client : Confident(c)' => Confident(c)
  BY <1>3 DEF AcquireReplyLost, Heartbeat, HeartbeatError, Finish, Release,
              ReleaseError, Crash
<1> QED
  BY <1>1, <1>2, <1>3 DEF Next

(* Every step of the lock is a step of the mutex, or none.                 *)
LEMMA MutexStep ==
  ASSUME Timely, LockInv, LockInv', [Next]_vars
  PROVE  [Mutex!Next]_OwnerNow
<1>1. /\ \A c \in Client : Confident(c)' => OwnerNow' = c
      /\ (\A c \in Client : ~Confident(c)') => OwnerNow' = Nobody
  <2>1. OneConfidentOwner'
    BY DEF LockInv, LeaseCovers, OneConfidentOwner, Confident, Timely
  <2> QED
    BY <2>1 DEF OwnerNow, OneConfidentOwner, Timely
<1>2. CASE \A c \in Client : Confident(c)' => Confident(c)
  <2>1. OwnerNow' = OwnerNow \/ (OwnerNow' = Nobody /\ OwnerNow # Nobody)
    BY <1>1, <1>2, OwnerIsTheConfidentOne
  <2> QED
    BY <2>1 DEF Mutex!Next, Mutex!GiveUp
<1>3. ASSUME NEW d \in Client,
             \A c \in Client : ~Confident(c),
             \A c \in Client : Confident(c)' <=> c = d
      PROVE  Mutex!Take(d)
  BY <1>1, <1>3, OwnerIsTheConfidentOne DEF Mutex!Take
<1> QED
  BY <1>2, <1>3, ConfidenceSteps DEF Mutex!Next

(* job-lock.ts implements a mutex, if a function asks isOwned() and the    *)
(* heartbeats are timely - whatever commands fail and processes die.       *)
THEOREM LockImplementsMutex ==
  ASSUME Timely PROVE Spec => ImplementsMutex
<1>1. Init => Mutex!Init
  BY DEF Init, OwnerNow, Confident, Mutex!Init
<1>2. LockInv /\ LockInv' /\ [Next]_vars => [Mutex!Next]_OwnerNow
  BY MutexStep
<1> QED
  BY <1>1, <1>2, LockInvariant, PTL DEF Spec, ImplementsMutex, Mutex!Spec
=============================================================================
