---------------------------- MODULE TokenRefresh ----------------------------
(***************************************************************************)
(* The tokens of one social account.  Every part of the system that calls  *)
(* the platform refreshes the access token itself when it has run out:     *)
(*   publish   the publish worker, under the Redis lock token-refresh:<id> *)
(*   job       the refresh-social-token job, under that lock, with a check *)
(*             of updatedAt when it writes                                 *)
(*   sync      the other workers, without the lock                         *)
(*   accounts  the accounts service of the API, with a lock of its own     *)
(*             making on the same key                                      *)
(*   posts     the posts and comments services of the API, no lock         *)
(*   service   TokenRefreshService of social-runtime (wired to nothing at  *)
(*             this commit): reads and writes under the lock               *)
(* Users connect (OAuth) and disconnect the account meanwhile.  A platform *)
(* that rotates refresh tokens accepts only the newest one: tokens are     *)
(* numbered, and the platform knows the number it accepts.                 *)
(***************************************************************************)
EXTENDS Naturals, FiniteSets

CONSTANTS Flow,        \* executions of the functions below
          Refreshers,  \* the kinds of refreshers in use
          MaxGrants,   \* bound on the tokens the platform hands out
          MaxMishaps   \* bound on lapsed locks, lost answers, crashes

ASSUME TokenRefreshAssumption ==
  /\ IsFiniteSet(Flow) /\ {"free", "lost"} \cap Flow = {}
  /\ Refreshers \subseteq {"publish", "job", "sync", "accounts", "posts", "service"}
  /\ MaxGrants \in Nat \ {0} /\ MaxMishaps \in Nat

Locking  == {"publish", "job", "accounts", "service"}
Checking == {"publish", "sync", "accounts"}  \* look again before the call
Reviving == {"publish", "job", "sync"}       \* write CONNECTED with the token
Strict   == {"publish", "sync"}              \* disconnect what they cannot renew

VARIABLES
  token,      \* the SocialToken row, or NoToken
  account,    \* the SocialAccount row; renewable: it has a refresh token and its
              \* platform's adapter knows how to use one (Instagram's does not)
  accepted,   \* the refresh token the platform accepts
  keyHolder,  \* who holds token-refresh:<id> in Redis
  oauthState, \* an OAuth state waits in Redis
  flow,       \* where each execution is
  tainted     \* two executions met, or a mishap happened

tokenVars == <<token, account, accepted, keyHolder, oauthState, flow, tainted>>

Accounts == [status : {"CONNECTED", "DISCONNECTED", "NEEDS_RECONNECT"}, deleted : BOOLEAN,
             renewable : BOOLEAN]
NoToken == [gen |-> 0, fresh |-> FALSE]
\* read: the refresh token it found; got: the one the platform gave it;
\* stale: what changed since it read: the "row" (deleted), the row's "rev"
\* (updatedAt), the account's token "version"
NoFlow == [kind |-> "none", step |-> "idle", read |-> 0, got |-> 0, stale |-> {}]
Free == "free"
Lost == "lost"         \* the key of a process that died

TokenTypeOK ==
  /\ token \in [gen : 0..MaxGrants, fresh : BOOLEAN]
  /\ account \in Accounts
  /\ accepted \in 0..MaxGrants
  /\ keyHolder \in Flow \cup {Free, Lost}
  /\ oauthState \in BOOLEAN
  /\ \A f \in Flow : /\ flow[f].read \in 0..MaxGrants /\ flow[f].got \in 0..MaxGrants
                     /\ flow[f].stale \subseteq {"row", "rev", "version"}
                     /\ (keyHolder = f) => (flow[f].kind \in Locking)
  /\ tainted \in 0..MaxMishaps + 1

TokenInit ==
  /\ token = [gen |-> 1, fresh |-> TRUE]
  /\ account \in {a \in Accounts : a.status = "CONNECTED" /\ ~a.deleted}
  /\ accepted = 1 /\ keyHolder = Free /\ oauthState = FALSE
  /\ flow = [f \in Flow |-> NoFlow] /\ tainted = 0
-----------------------------------------------------------------------------
Taint == tainted' = IF tainted = 0 THEN 1 ELSE tainted
Mishap == tainted <= MaxMishaps /\ tainted' = tainted + 1

Enter(f, kind, s) ==
  /\ flow[f] = NoFlow
  /\ flow' = [flow EXCEPT ![f] = [NoFlow EXCEPT !.kind = kind, !.step = s, !.read = token.gen]]
  /\ IF \A g \in Flow \ {f} : flow[g] = NoFlow THEN UNCHANGED tainted ELSE Taint

(* Everybody under way now knows an outdated row, but g stands for f.      *)
Outdate(f, g, what) ==
  flow' = [h \in Flow |-> IF h = f THEN g
                         ELSE IF flow[h] = NoFlow THEN NoFlow
                         ELSE [flow[h] EXCEPT !.stale = @ \cup what]]

Move(f, s) == flow' = [flow EXCEPT ![f].step = s]
Leave(f) == flow' = [flow EXCEPT ![f] = NoFlow]
Unlock(f) == keyHolder' = IF keyHolder = f THEN Free ELSE keyHolder
AtStep(f, s) == flow[f].step = s

(* getFreshAccessToken: only a token that has run out is refreshed; the    *)
(* job refreshes whatever it finds.  Where nothing can be refreshed, the   *)
(* workers are refused at once and disconnect the account, the job asks    *)
(* for a new connection, the services of the API only report it, and       *)
(* TokenRefreshService finds out under the lock.                           *)
FirstStep(k) ==
  IF account.renewable \/ k = "service"
  THEN IF k \in Locking THEN "lock" ELSE IF k \in Checking THEN "check" ELSE "call"
  ELSE IF k \in Strict THEN "refused" ELSE "unavailable"

StartRefresh(f, k) ==
  /\ token # NoToken
  /\ k = "job" \/ ~token.fresh
  /\ account.renewable \/ k \notin {"accounts", "posts"}
  /\ Enter(f, k, FirstStep(k))
  /\ UNCHANGED <<token, account, accepted, keyHolder, oauthState>>

MarkUnrenewable(f) ==
  /\ AtStep(f, "unavailable") /\ Leave(f)
  /\ account' = [account EXCEPT !.status = "NEEDS_RECONNECT"]
  /\ UNCHANGED <<token, accepted, keyHolder, oauthState, tainted>>

(* The lock, or an error: somebody else refreshes.                         *)
TakeKey(f) ==
  /\ AtStep(f, "lock")
  /\ IF keyHolder = Free
     THEN /\ keyHolder' = f
          /\ Move(f, CASE flow[f].kind = "job"     -> "call"
                       [] flow[f].kind = "service" -> "read"
                       [] OTHER                    -> "check")
     ELSE Leave(f) /\ UNCHANGED keyHolder
  /\ UNCHANGED <<token, account, accepted, oauthState, tainted>>

(* The service reads the row now, and looks at it once.                    *)
ReadUnderKey(f) ==
  /\ AtStep(f, "read")
  /\ IF token = NoToken \/ token.fresh \/ ~account.renewable THEN Leave(f) /\ Unlock(f)
     ELSE /\ flow' = [flow EXCEPT ![f].step = "call", ![f].read = token.gen, ![f].stale = {}]
          /\ UNCHANGED keyHolder
  /\ UNCHANGED <<token, account, accepted, oauthState, tainted>>

(* Has somebody refreshed since?                                           *)
CheckAgain(f) ==
  /\ AtStep(f, "check")
  /\ IF token.fresh THEN Leave(f) /\ Unlock(f) ELSE Move(f, "call") /\ UNCHANGED keyHolder
  /\ UNCHANGED <<token, account, accepted, oauthState, tainted>>

(* A refresh that fails without a verdict; the job counts it in the row,   *)
(* whose updatedAt moves.                                                  *)
GiveUp(f) ==
  /\ Unlock(f)
  /\ IF flow[f].kind = "job" /\ "row" \notin flow[f].stale
     THEN Outdate(f, NoFlow, {"rev"}) ELSE Leave(f)

(* adapter.refreshToken, with the refresh token that was read first.  The  *)
(* platform hands out the next one, refuses one it does not know, or fails *)
(* for another reason; its answer may be lost.  Under a lock of 15 s.      *)
RefreshRemote(f) ==
  /\ AtStep(f, "call")
  /\ \/ /\ flow[f].read = accepted /\ accepted < MaxGrants
        /\ accepted' = accepted + 1
        /\ \/ /\ flow' = [flow EXCEPT ![f].got = accepted + 1,
                          ![f].step = IF flow[f].kind \in Locking \ {"service"}
                                      THEN "release" ELSE "write"]
              /\ UNCHANGED <<keyHolder, tainted>>
           \/ Mishap /\ GiveUp(f)
     \/ /\ flow[f].read # accepted
        /\ CASE flow[f].kind = "service" -> Leave(f) /\ Unlock(f)
             [] flow[f].kind = "job"     -> Move(f, "refused") /\ Unlock(f)
             [] OTHER                    -> Move(f, "refused") /\ UNCHANGED keyHolder
        /\ UNCHANGED <<accepted, tainted>>
     \/ GiveUp(f) /\ UNCHANGED <<accepted, tainted>>
  /\ UNCHANGED <<token, account, oauthState>>

(* AUTH_INVALID disconnects the account, most often under the lock.        *)
MarkDisconnected(f) ==
  /\ AtStep(f, "refused")
  /\ account' = [account EXCEPT !.status = "DISCONNECTED"]
  /\ Leave(f) /\ Unlock(f)
  /\ UNCHANGED <<token, accepted, oauthState, tainted>>

ReleaseKey(f) ==
  /\ AtStep(f, "release") /\ Unlock(f) /\ Move(f, "write")
  /\ UNCHANGED <<token, account, accepted, oauthState, tainted>>

(* The new tokens are stored in the row whose id was read; the job also    *)
(* wants its updatedAt.  The service takes the row the account has now and *)
(* wants a tokenVersion that it alone counts up: a row that came with a    *)
(* new connection meanwhile is overwritten.                                *)
StoreAllowed(f) ==
  IF flow[f].kind = "service"
  THEN token # NoToken /\ "version" \notin flow[f].stale
  ELSE flow[f].stale \cap ({"row"} \cup IF flow[f].kind = "job" THEN {"rev"} ELSE {}) = {}

StoreWhere(f, allowed, gen) ==
  /\ AtStep(f, "write")
  /\ IF allowed
     THEN /\ token' = [gen |-> gen, fresh |-> TRUE]
          /\ account' = [account EXCEPT !.status =
               IF flow[f].kind \in Reviving THEN "CONNECTED" ELSE @]
          /\ Outdate(f, IF flow[f].kind = "accounts"
                        THEN [flow[f] EXCEPT !.step = "profile"] ELSE NoFlow,
                     IF flow[f].kind = "service" THEN {"rev", "version"} ELSE {"rev"})
          /\ Unlock(f)
     ELSE GiveUp(f) /\ UNCHANGED <<token, account>>
  /\ UNCHANGED <<accepted, oauthState, tainted>>

\* Mutants of Store: the rotated refresh token is dropped; the row is
\* created again when it is missing.
StoreAccessOnly(f) == StoreWhere(f, StoreAllowed(f), token.gen)
Store(f) == StoreWhere(f, StoreAllowed(f), flow[f].got)
-----------------------------------------------------------------------------
(* testConnection: with a token that is fresh, or just refreshed, the      *)
(* profile is read and the account marked CONNECTED, deleted or not.       *)
TestConnection(f) ==
  /\ token.fresh /\ ~account.deleted /\ Enter(f, "accounts", "profile")
  /\ UNCHANGED <<token, account, accepted, keyHolder, oauthState>>

StoreProfile(f) ==
  /\ AtStep(f, "profile") /\ Leave(f)
  /\ account' = [account EXCEPT !.status = "CONNECTED"]
  /\ UNCHANGED <<token, accepted, keyHolder, oauthState, tainted>>

(* startOAuth leaves a state in Redis; completeOAuth consumes it, in one   *)
(* script, and exchanges the code: the platform accepts the new grant.     *)
StartOAuth ==
  /\ ~oauthState /\ accepted < MaxGrants /\ oauthState' = TRUE
  /\ UNCHANGED <<token, account, accepted, keyHolder, flow, tainted>>

ConsumeState(f) ==
  /\ oauthState /\ oauthState' = FALSE /\ Enter(f, "connect", "exchange")
  /\ UNCHANGED <<token, account, accepted, keyHolder>>

ExchangeCode(f) ==
  /\ AtStep(f, "exchange")
  /\ IF accepted < MaxGrants
     THEN /\ accepted' = accepted + 1
          /\ flow' = [flow EXCEPT ![f].step = "connect", ![f].got = accepted + 1]
     ELSE Leave(f) /\ UNCHANGED accepted
  /\ UNCHANGED <<token, account, keyHolder, oauthState, tainted>>

(* The transaction of completeOAuth: account and token are upserted.       *)
StoreConnection(f) ==
  /\ AtStep(f, "connect")
  /\ token' = [gen |-> flow[f].got, fresh |-> TRUE]
  /\ account' = [account EXCEPT !.status = "CONNECTED", !.deleted = FALSE]
  /\ Outdate(f, NoFlow, {"rev"})
  /\ UNCHANGED <<accepted, keyHolder, oauthState, tainted>>

(* disconnect: the platform is asked to revoke the token, which may fail,  *)
(* the account's jobs are removed, then token and connection go together.  *)
Revoke(f) ==
  /\ ~account.deleted /\ Enter(f, "disconnect", "drop")
  /\ accepted' \in {accepted, 0}
  /\ UNCHANGED <<token, account, keyHolder, oauthState>>

DropConnection(f) ==
  /\ AtStep(f, "drop")
  /\ token' = NoToken
  /\ account' = [account EXCEPT !.status = "DISCONNECTED", !.deleted = TRUE]
  /\ Outdate(f, NoFlow, {"row"})
  /\ UNCHANGED <<accepted, keyHolder, oauthState, tainted>>
-----------------------------------------------------------------------------
(* Time: the access token runs out; a lock of 15 s with a slow platform.   *)
RunOut == /\ token.fresh /\ token' = [token EXCEPT !.fresh = FALSE]
          /\ UNCHANGED <<account, accepted, keyHolder, oauthState, flow, tainted>>

KeyLapses == /\ keyHolder # Free /\ keyHolder' = Free
             /\ IF keyHolder = Lost THEN UNCHANGED tainted ELSE Mishap
             /\ UNCHANGED <<token, account, accepted, oauthState, flow>>

FlowDies(f) == /\ flow[f] # NoFlow /\ Leave(f) /\ Mishap
               /\ keyHolder' = IF keyHolder = f THEN Lost ELSE keyHolder
               /\ UNCHANGED <<token, account, accepted, oauthState>>

TokenStep(f) ==
  \/ TakeKey(f) \/ ReadUnderKey(f) \/ CheckAgain(f) \/ RefreshRemote(f)
  \/ MarkUnrenewable(f) \/ MarkDisconnected(f) \/ ReleaseKey(f) \/ Store(f)
  \/ TestConnection(f) \/ StoreProfile(f)
  \/ ConsumeState(f) \/ ExchangeCode(f) \/ StoreConnection(f)
  \/ Revoke(f) \/ DropConnection(f) \/ FlowDies(f)

TokenNext ==
  \/ \E f \in Flow : TokenStep(f) \/ \E k \in Refreshers : StartRefresh(f, k)
  \/ StartOAuth \/ RunOut \/ KeyLapses

TokenSpec == TokenInit /\ [][TokenNext]_tokenVars
-----------------------------------------------------------------------------
(* A connection and its token come and go together: no refresh that was    *)
(* under way when the user disconnected brings a token back, and none is   *)
(* missing while the account is there.                                     *)
TokenGoesWithAccount == account.deleted <=> token = NoToken

(* A refresh that meets no other one, and none of the mishaps, never       *)
(* costs the user a connection that can be renewed: the refresh token it   *)
(* leaves is one the platform accepts, whichever of the six                *)
(* implementations ran.  Where nothing can be renewed the connection ends  *)
(* with its access token, or when the job asks for a new one.              *)
Alive ==
  \/ account.status = "CONNECTED" \/ account.deleted
  \/ ~account.renewable /\ (account.status = "NEEDS_RECONNECT" \/ ~token.fresh)

LoneRefreshIsSafe ==
  tainted = 0 => Alive /\ \A f \in Flow : AtStep(f, "refused") => ~account.renewable

(* Neither a disconnect nor a refresh on its own breaks the connection.    *)
ConnectionIsKept == TokenGoesWithAccount /\ LoneRefreshIsSafe
=============================================================================
