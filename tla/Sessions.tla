------------------------------ MODULE Sessions ------------------------------
(***************************************************************************)
(* The sessions and the password of one user (auth.service.ts and the      *)
(* guard).  Passwords are numbered in the order they were set.  Comparing  *)
(* a password takes time: the session is created afterwards.               *)
(***************************************************************************)
EXTENDS Naturals, FiniteSets

CONSTANTS Browser,      \* where the user logs in, each with one cookie
          MaxPasswords, \* bound on the passwords set
          MaxResets     \* bound on the reset tokens asked for

ASSUME SessionsAssumption == IsFiniteSet(Browser) /\ {MaxPasswords, MaxResets} \subseteq Nat \ {0}

VARIABLES
  password, \* the number of the password in force
  session,  \* of each browser: the password it was opened with, 0 without session
  visit,    \* what each browser's request is doing, and which password it verified
  reset,    \* the reset tokens: used or not
  issued,    \* how many there are
  changedBy,\* the token, 0 for changePassword, that set each password
  late      \* the browsers whose session was created after its password was replaced

sessionVars == <<password, session, visit, reset, issued, changedBy, late>>

NoVisit == [doing |-> "none", verified |-> 0, token |-> 0]

SessionsTypeOK ==
  /\ password \in 1..MaxPasswords /\ issued \in 0..MaxResets
  /\ session \in [Browser -> 0..MaxPasswords] /\ reset \in [1..MaxResets -> BOOLEAN]
  /\ \A b \in Browser : /\ visit[b].verified \in 0..password /\ visit[b].token \in 0..issued
                        /\ (visit[b].doing = "none") => (visit[b] = NoVisit)
  /\ changedBy \in [1..MaxPasswords -> 0..MaxResets] /\ late \subseteq Browser

SessionsInit ==   \* register opens the first session
  /\ password = 1 /\ issued = 0 /\ reset = [r \in 1..MaxResets |-> FALSE]
  /\ session \in {s \in [Browser -> {0, 1}] : Cardinality({b \in Browser : s[b] = 1}) = 1}
  /\ visit = [b \in Browser |-> NoVisit] /\ changedBy = [n \in 1..MaxPasswords |-> 0] /\ late = {}
-----------------------------------------------------------------------------
\* Mutant of EndVisit: what the request verified outlives it.
EndVisitLoosely(b) == visit' = [visit EXCEPT ![b].doing = "none"]

StartVisit(b, v) == visit[b] = NoVisit /\ visit' = [visit EXCEPT ![b] = v]
EndVisit(b) == visit' = [visit EXCEPT ![b] = NoVisit]

Verify(b) ==   \* login: the right password at this moment
  /\ StartVisit(b, [NoVisit EXCEPT !.doing = "login", !.verified = password])
  /\ UNCHANGED <<password, session, reset, issued, changedBy, late>>

CreateSession(b) ==
  /\ visit[b].doing = "login" /\ EndVisit(b)
  /\ session' = [session EXCEPT ![b] = visit[b].verified]
  /\ late' = IF visit[b].verified = password THEN late \ {b} ELSE late \cup {b}
  /\ UNCHANGED <<password, reset, issued, changedBy>>

Logout(b) ==
  /\ session[b] # 0 /\ session' = [session EXCEPT ![b] = 0]
  /\ UNCHANGED <<password, visit, reset, issued, changedBy, late>>

ExpireOthers ==   \* forgotPassword marks the user's unused tokens
  /\ \E b \in Browser : StartVisit(b, [NoVisit EXCEPT !.doing = "forgot"])
  /\ reset' = [r \in 1..MaxResets |-> r <= issued] /\ issued < MaxResets
  /\ UNCHANGED <<password, session, issued, changedBy, late>>

CreateReset(b) ==
  /\ visit[b].doing = "forgot" /\ EndVisit(b)
  /\ issued' = IF issued < MaxResets THEN issued + 1 ELSE issued
  /\ UNCHANGED <<password, session, reset, changedBy, late>>

\* A password form is open: resetPassword with a token, changePassword with
\* the current password and the browser's own cookie.
OpenReset(b, r) ==
  /\ r <= issued /\ StartVisit(b, [NoVisit EXCEPT !.doing = "reset", !.token = r])
  /\ UNCHANGED <<password, session, reset, issued, changedBy, late>>
VerifyChange(b) ==
  /\ session[b] # 0
  /\ StartVisit(b, [NoVisit EXCEPT !.doing = "change", !.verified = password])
  /\ UNCHANGED <<password, session, reset, issued, changedBy, late>>

NewPassword(token) ==
  /\ password < MaxPasswords /\ password' = password + 1
  /\ changedBy' = [changedBy EXCEPT ![password + 1] = token]

\* Mutant of ResetPassword: the token was looked at when the form was opened.
ResetUnchecked(b) ==
  LET r == visit[b].token IN
  /\ visit[b].doing = "reset" /\ EndVisit(b)
  /\ NewPassword(r) /\ reset' = [reset EXCEPT ![r] = TRUE]
  /\ session' = [x \in Browser |-> 0] /\ UNCHANGED <<issued, late>>

(* One transaction: the token is consumed by an update that matches only   *)
(* an unused one, the password changes and every session ends.             *)
ResetPassword(b) ==
  LET r == visit[b].token IN
  /\ visit[b].doing = "reset" /\ EndVisit(b)
  /\ \/ /\ ~reset[r] /\ NewPassword(r) /\ reset' = [reset EXCEPT ![r] = TRUE]
        /\ session' = [x \in Browser |-> 0] /\ UNCHANGED <<issued, late>>
     \/ /\ UNCHANGED <<password, session, reset, issued, changedBy, late>>   \* used or expired

(* Every session but the caller's ends.  Whoever changed the password      *)
(* since it was verified is overwritten.                                   *)
ChangePassword(b) ==
  /\ visit[b].doing = "change" /\ EndVisit(b) /\ NewPassword(0)
  /\ session' = [x \in Browser |-> IF x = b /\ session[b] # 0 THEN password + 1 ELSE 0]
  /\ UNCHANGED <<reset, issued, late>>

SessionsNext ==
  \/ ExpireOthers
  \/ \E b \in Browser : \/ Verify(b) \/ CreateSession(b) \/ Logout(b) \/ CreateReset(b)
                        \/ VerifyChange(b) \/ ResetPassword(b) \/ ChangePassword(b)
                        \/ \E r \in 1..MaxResets : OpenReset(b, r)

SessionsSpec == SessionsInit /\ [][SessionsNext]_sessionVars
-----------------------------------------------------------------------------
(* A reset token sets one password at most, however many forms it is open  *)
(* in at the same time.                                                    *)
ResetTokenWorksOnce ==
  \A m, n \in 2..password : changedBy[m] = changedBy[n] /\ changedBy[m] # 0 => m = n

(* After the password was changed or reset, no session lives on that was   *)
(* opened with an earlier one, but one whose login had already compared    *)
(* the old password and was stored afterwards.                             *)
SessionsEndWithPassword == \A b \in Browser : session[b] \in {0, password} \/ b \in late

(* A password change leaves no earlier secret in force.                    *)
OldSecretsAreDead == SessionsEndWithPassword /\ ResetTokenWorksOnce
=============================================================================
