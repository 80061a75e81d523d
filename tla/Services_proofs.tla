-------------------------- MODULE Services_proofs ---------------------------
(***************************************************************************)
(* What holds of the components that serve requests and of the pages, each *)
(* for every value of its constants: of the webhook intake, token refresh, *)
(* the inbox, sessions, workspaces and roles; and of the post editor, the  *)
(* composer, an upload, the inbox page and what the pages offer.           *)
(*                                                                         *)
(* Every part has an inductive invariant of its own, which says what is    *)
(* known between the steps of the handlers; the properties follow from it. *)
(***************************************************************************)
EXTENDS MCServices, FiniteSetTheorems, SequenceTheorems, WellFoundedInduction, TLAPS

-----------------------------------------------------------------------------
(* For any number of events, syncs, attempts and mishaps: the types of the *)
(* webhook intake, and that a processed event has asked for its syncs.     *)

(* What a running process-webhook remembers to have asked for is queued:   *)
(* no action takes a sync out of Redis.                                    *)
AskedIsQueued == \A e \in Event : \A s \in asked[e] : syncJob[s] # "none"

(* The counts of attempts: a job that waits has one left, one that runs    *)
(* has made one, and an event whose request is under way has no job yet.   *)
TriesFit ==
  \A e \in Event :
    /\ event[e] = "none" => hookJob[e] = "none" /\ ~request[e]
    /\ request[e] => hookJob[e] = "none"
    /\ hookJob[e] = "none" => hookTries[e] = 0
    /\ hookJob[e] = "waiting" => hookTries[e] < MaxHookTries
    /\ hookJob[e] \in {"running", "marked"} => hookTries[e] > 0

(* The inductive invariant.                                                *)
HookInv == HookTypeOK /\ TriesFit /\ AskedIsQueued /\ ProcessedHasAsked

(* The rows and jobs of the intake start empty.                            *)
LEMMA HookInvInit == HookInit => HookInv
<1> SUFFICES ASSUME HookInit PROVE HookInv
  OBVIOUS
<1>1. HookTypeOK
  BY WebhooksAssumption DEF HookInit, HookTypeOK
<1>2. TriesFit
  BY WebhooksAssumption DEF HookInit, TriesFit
<1>3. AskedIsQueued /\ ProcessedHasAsked
  BY DEF HookInit, AskedIsQueued, ProcessedHasAsked
<1> QED
  BY <1>1, <1>2, <1>3 DEF HookInv

(* Types and counts are kept by every step.                                *)
LEMMA TypesAndTries ==
  ASSUME HookTypeOK, TriesFit, [HookNext]_hookVars
  PROVE  HookTypeOK' /\ TriesFit'
<1> USE WebhooksAssumption DEF HookTypeOK, TriesFit
<1>1. ASSUME NEW e \in Event, Receive(e)
      PROVE  HookTypeOK' /\ TriesFit'
  BY ZenonT(30), <1>1 DEF Receive
<1>2. ASSUME NEW e \in Event, QueueEvent(e)
      PROVE  HookTypeOK' /\ TriesFit'
  BY <1>2 DEF QueueEvent, HookMishap
<1>3. ASSUME NEW e \in Event, TakeEvent(e)
      PROVE  HookTypeOK' /\ TriesFit'
  BY <1>3 DEF TakeEvent
<1>4. ASSUME NEW e \in Event, MarkWebhookDone(e)
      PROVE  HookTypeOK' /\ TriesFit'
  BY <1>4 DEF MarkWebhookDone
<1>5. ASSUME NEW e \in Event, EndHook(e)
      PROVE  HookTypeOK' /\ TriesFit'
  BY <1>5 DEF EndHook
<1>6. ASSUME NEW e \in Event, FailHook(e)
      PROVE  HookTypeOK' /\ TriesFit'
  BY <1>6 DEF FailHook, HookMishap
<1>7. ASSUME NEW e \in Event, WorkerDies(e)
      PROVE  HookTypeOK' /\ TriesFit'
  BY <1>7 DEF WorkerDies, HookMishap
<1>8. ASSUME NEW e \in Event, NEW s \in SyncJob, AskSync(e, s)
      PROVE  HookTypeOK' /\ TriesFit'
  BY <1>8 DEF AskSync
<1>9. ASSUME NEW s \in SyncJob, SyncRuns(s)
      PROVE  HookTypeOK' /\ TriesFit'
  BY <1>9 DEF SyncRuns
<1>10. CASE UNCHANGED hookVars
  BY <1>10 DEF hookVars
<1> QED
  BY <1>1, <1>2, <1>3, <1>4, <1>5, <1>6, <1>7, <1>8, <1>9, <1>10 DEF HookNext

(* A step takes no sync out of Redis, and adds to what an attempt has      *)
(* asked for only a sync that it has queued.                               *)
LEMMA SyncsStay ==
  ASSUME HookTypeOK, [HookNext]_hookVars
  PROVE  /\ \A s \in SyncJob : syncJob[s] # "none" => syncJob'[s] # "none"
         /\ \A e \in Event : \A s \in asked'[e] : s \in asked[e] \/ syncJob'[s] # "none"
<1> USE DEF HookTypeOK
<1>1. CASE \E e \in Event : \E s \in SyncJob : AskSync(e, s)
  BY <1>1 DEF AskSync
<1>2. CASE \E s \in SyncJob : SyncRuns(s)
  BY <1>2 DEF SyncRuns
<1>3. CASE \E e \in Event : TakeEvent(e)
  BY <1>3 DEF TakeEvent
<1>4. CASE UNCHANGED <<syncJob, asked>>
  BY <1>4
<1> QED
  BY <1>1, <1>2, <1>3, <1>4
  DEF HookNext, hookVars, Receive, QueueEvent, MarkWebhookDone, EndHook, FailHook, WorkerDies

(* An event that becomes PROCESSED has asked for all it calls for.         *)
LEMMA ProcessedAfterAsking ==
  ASSUME HookTypeOK, [HookNext]_hookVars, NEW e \in Event,
         event'[e] = "PROCESSED", event[e] # "PROCESSED"
  PROVE  asked[e] = SyncOf[e]
BY DEF HookTypeOK, HookNext, hookVars, Receive, QueueEvent, TakeEvent, MarkWebhookDone,
       EndHook, FailHook, WorkerDies, AskSync, SyncRuns

(* The invariant is kept by every step.                                    *)
LEMMA HookInvStep == HookInv /\ [HookNext]_hookVars => HookInv'
<1> SUFFICES ASSUME HookInv, [HookNext]_hookVars PROVE HookInv'
  OBVIOUS
<1>1. HookTypeOK' /\ TriesFit'
  BY TypesAndTries DEF HookInv
<1>2. /\ \A s \in SyncJob : syncJob[s] # "none" => syncJob'[s] # "none"
      /\ \A e \in Event : \A s \in asked'[e] : s \in asked[e] \/ syncJob'[s] # "none"
  BY SyncsStay DEF HookInv
<1>3. AskedIsQueued'
  BY <1>1, <1>2 DEF HookInv, AskedIsQueued, HookTypeOK
<1>4. ASSUME NEW e \in Event, event'[e] = "PROCESSED", NEW s \in SyncOf[e]
      PROVE  syncJob'[s] # "none"
  <2>1. s \in SyncJob
    BY WebhooksAssumption
  <2>2. CASE event[e] = "PROCESSED"
    BY <1>2, <2>1, <2>2 DEF HookInv, ProcessedHasAsked
  <2>3. CASE event[e] # "PROCESSED"
    BY <1>2, <1>4, <2>1, <2>3, ProcessedAfterAsking DEF HookInv, AskedIsQueued
  <2> QED
    BY <2>2, <2>3
<1> QED
  BY <1>1, <1>3, <1>4 DEF HookInv, ProcessedHasAsked

(* The intake and its worker keep their types, whatever dies.              *)
THEOREM HooksAreTyped == HookSpec => []HookTypeOK
<1>1. HookInv => HookTypeOK
  BY DEF HookInv
<1> QED
  BY <1>1, HookInvInit, HookInvStep, PTL DEF HookSpec

(* An event marked PROCESSED has queued every sync it calls for, through   *)
(* any number of attempts that died before, between and after the adds.    *)
THEOREM ProcessedEventsHaveAsked == HookSpec => []ProcessedHasAsked
<1>1. HookInv => ProcessedHasAsked
  BY DEF HookInv
<1> QED
  BY <1>1, HookInvInit, HookInvStep, PTL DEF HookSpec
-----------------------------------------------------------------------------
(* Token refresh, for any number of executions and any number of mishaps.  *)
(* What keeps the connection is that, as long as no two executions met and *)
(* nothing went wrong, the one there is knows the token that the platform  *)
(* accepts.                                                                *)

(* The kinds and steps of an execution, and which of them refresh.         *)
Kinds == Locking \cup {"none", "sync", "posts", "connect", "disconnect"}
Steps == {"idle", "lock", "read", "check", "call", "refused", "unavailable", "release", "write",
          "profile", "exchange", "connect", "drop"}
Flows == [kind : Kinds, step : Steps,
          read : 0..MaxGrants, got : 0..MaxGrants, stale : SUBSET {"row", "rev", "version"}]

(* The steps of a refresh that has the lock, and of any.                   *)
HoldingSteps == {"read", "check", "call", "refused", "release", "write"}
RefreshSteps == HoldingSteps \cup {"lock"}

(* The executions: who waits for the key or holds it is one that locks,    *)
(* and what is about to be stored is a token the platform gave.            *)
FlowsFit ==
  /\ flow \in [Flow -> Flows]
  /\ \A f \in Flow : /\ AtStep(f, "lock") => flow[f].kind \in Locking
                     /\ flow[f].step \in {"release", "write", "connect"} => flow[f].got # 0
                     /\ keyHolder = f => /\ flow[f].kind \in Locking
                                         /\ flow[f].step \in HoldingSteps
  /\ token = NoToken \/ token.gen # 0

(* A refresh knows when the row it read has been deleted.                  *)
RowsAreKnown ==
  \A f \in Flow : flow[f].step \in RefreshSteps /\ "row" \notin flow[f].stale => token # NoToken

(* As long as no two executions met and nothing went wrong, there is one   *)
(* at most, nothing it read has changed, and it knows the token that the   *)
(* platform accepts; between two of them the row has that token.           *)
InStep == account.deleted \/ token.gen = accepted

LoneKnows(f) ==
  LET s == flow[f].step IN
  /\ s = "refused" => ~account.renewable /\ ~token.fresh
  /\ s = "unavailable" => ~account.renewable
  /\ s \in {"check", "call", "release", "write"} => account.renewable
  /\ s = "lock" /\ flow[f].kind # "service" => account.renewable
  /\ flow[f].stale = {}
  /\ s \in {"lock", "read", "check", "call"} => flow[f].read = accepted
  /\ s \in {"lock", "read", "check", "call", "refused", "unavailable", "profile", "exchange"} => InStep
  /\ s \in {"release", "write", "connect"} => flow[f].got = accepted

Undisturbed ==
  tainted = 0 =>
    /\ Alive
    /\ \A f, g \in Flow : flow[f] # NoFlow /\ flow[g] # NoFlow => f = g
    /\ \A f \in Flow : flow[f] # NoFlow => LoneKnows(f)
    /\ (\A f \in Flow : flow[f] = NoFlow) => InStep

(* The inductive invariant.                                                *)
TokenInv == TokenTypeOK /\ FlowsFit /\ TokenGoesWithAccount /\ RowsAreKnown /\ Undisturbed

(* A step gives the execution it belongs to a new record; the others know  *)
(* at most that more of what they read is outdated.                        *)
Becomes(f, g) ==
  /\ flow' \in [Flow -> Flows] /\ flow'[f] = g
  /\ \A h \in Flow \ {f} :
       /\ flow[h] = NoFlow => flow'[h] = NoFlow
       /\ flow'[h].kind = flow[h].kind /\ flow'[h].step = flow[h].step
       /\ flow'[h].got = flow[h].got /\ flow[h].stale \subseteq flow'[h].stale

(* Nobody at work is of the type.                                          *)
LEMMA NoFlowFits == NoFlow \in Flows /\ NoFlow.step = "idle" /\ NoFlow.kind = "none" /\ NoFlow.read = 0
                    /\ NoFlow.got = 0 /\ NoFlow.stale = {}
BY TokenRefreshAssumption DEF Flows, Kinds, Steps, NoFlow

(* An execution that takes a new record leaves the others alone.           *)
LEMMA FlowsMove ==
  ASSUME FlowsFit, NEW f \in Flow, NEW g \in Flows, flow' = [flow EXCEPT ![f] = g]
  PROVE  Becomes(f, g)
BY DEF FlowsFit, Becomes

(* One that changes a row tells the others that what they read of it is    *)
(* outdated.                                                               *)
LEMMA FlowsOutdate ==
  ASSUME FlowsFit, NEW f \in Flow, NEW g \in Flows, NEW what \in SUBSET {"row", "rev", "version"},
         Outdate(f, g, what)
  PROVE  /\ Becomes(f, g)
         /\ \A h \in Flow \ {f} : flow[h] # NoFlow => what \subseteq flow'[h].stale
<1>1. flow \in [Flow -> Flows]
  BY DEF FlowsFit
<1>2. \A h \in Flow : flow[h] \in Flows /\ [flow[h] EXCEPT !.stale = @ \cup what] \in Flows
  BY <1>1 DEF Flows, Kinds, Steps
<1>4. \A h \in Flow : flow'[h] = IF h = f THEN g
                                 ELSE IF flow[h] = NoFlow THEN NoFlow
                                 ELSE [flow[h] EXCEPT !.stale = @ \cup what]
  BY DEF Outdate
<1>5. flow' = [h \in Flow |-> flow'[h]]
  BY DEF Outdate
<1>6. \A h \in Flow : flow'[h] \in Flows
  BY <1>2, <1>4, NoFlowFits
<1>7. flow' \in [Flow -> Flows]
  BY <1>5, <1>6
<1>8. \A h \in Flow \ {f} : flow[h] # NoFlow =>
        /\ flow'[h].kind = flow[h].kind /\ flow'[h].step = flow[h].step
        /\ flow'[h].got = flow[h].got /\ flow'[h].stale = flow[h].stale \cup what
  <2> SUFFICES ASSUME NEW h \in Flow \ {f}, flow[h] # NoFlow
               PROVE  /\ flow'[h].kind = flow[h].kind /\ flow'[h].step = flow[h].step
                      /\ flow'[h].got = flow[h].got /\ flow'[h].stale = flow[h].stale \cup what
    OBVIOUS
  <2>1. flow[h] \in Flows /\ flow'[h] = [flow[h] EXCEPT !.stale = @ \cup what]
    BY <1>1, <1>4
  <2> QED
    BY <2>1 DEF Flows, Kinds, Steps
<1> QED
  BY <1>4, <1>7, <1>8 DEF Becomes

(* The conjuncts of the invariant, as conditions on the record of the      *)
(* execution that takes the step.                                          *)
LEMMA FlowsFitKept ==
  ASSUME FlowsFit, NEW f \in Flow, NEW g \in Flows, Becomes(f, g),
         keyHolder' \in {keyHolder, f} \/ keyHolder' \notin Flow,
         g.step = "lock" => g.kind \in Locking,
         g.step \in {"release", "write", "connect"} => g.got # 0,
         keyHolder' = f => g.kind \in Locking /\ g.step \in HoldingSteps,
         token' = NoToken \/ token'.gen # 0
  PROVE  FlowsFit'
BY DEF FlowsFit, Becomes, AtStep

(* The types follow from those of what a step wrote.                       *)
LEMMA TokenTypesKept ==
  ASSUME TokenTypeOK, NEW f \in Flow, NEW g \in Flows, Becomes(f, g), FlowsFit',
         token' \in [gen : 0..MaxGrants, fresh : BOOLEAN],
         account' \in Accounts,
         accepted' \in 0..MaxGrants, keyHolder' \in Flow \cup {Free, Lost}, oauthState' \in BOOLEAN,
         tainted' \in 0..MaxMishaps + 1
  PROVE  TokenTypeOK'
<1>1. \A h \in Flow : flow'[h] \in Flows
  BY DEF Becomes
<1>2. \A h \in Flow : flow'[h].read \in 0..MaxGrants /\ flow'[h].got \in 0..MaxGrants
                      /\ flow'[h].stale \subseteq {"row", "rev", "version"}
  BY <1>1 DEF Flows, Kinds, Steps
<1> QED
  BY <1>2 DEF TokenTypeOK, FlowsFit

(* Who has not been told of a deletion still has a row.                    *)
LEMMA TokenRowsKept ==
  ASSUME RowsAreKnown, NEW f \in Flow, NEW g \in Flows, Becomes(f, g),
         g.step \in RefreshSteps /\ "row" \notin g.stale => token' # NoToken,
         token' = NoToken => token = NoToken
  PROVE  RowsAreKnown'
BY DEF RowsAreKnown, Becomes

(* A lone execution stays alone, unless the step taints.                   *)
LEMMA LoneKept ==
  ASSUME Undisturbed, NEW f \in Flow, NEW g \in Flows, Becomes(f, g),
         tainted' = 0 => /\ tainted = 0
                         /\ flow[f] # NoFlow \/ \A h \in Flow \ {f} : flow[h] = NoFlow
                         /\ Alive'
                         /\ IF g = NoFlow THEN InStep' ELSE LoneKnows(f)'
  PROVE  Undisturbed'
<1> SUFFICES ASSUME tainted' = 0 PROVE Undisturbed'
  BY DEF Undisturbed
<1>1. \A h \in Flow \ {f} : flow[h] = NoFlow
  BY DEF Undisturbed
<1>2. \A h \in Flow \ {f} : flow'[h] = NoFlow
  BY <1>1 DEF Becomes
<1>3. flow'[f] = g
  BY DEF Becomes
<1> QED
  BY <1>2, <1>3 DEF Undisturbed

(* All of them in one place: a step of f that ends in g keeps the          *)
(* invariant when the following holds of the state it leads to.            *)
Lands(f, g) ==
  /\ token' \in [gen : 0..MaxGrants, fresh : BOOLEAN] /\ (token' = NoToken \/ token'.gen # 0)
  /\ account' \in Accounts
  /\ account'.deleted <=> token' = NoToken
  /\ accepted' \in 0..MaxGrants /\ oauthState' \in BOOLEAN /\ tainted' \in 0..MaxMishaps + 1
  /\ keyHolder' \in {keyHolder, f, Free, Lost}
  /\ keyHolder' = f => g.kind \in Locking /\ g.step \in HoldingSteps
  /\ g.step = "lock" => g.kind \in Locking
  /\ g.step \in {"release", "write", "connect"} => g.got # 0
  /\ g.step \in RefreshSteps /\ "row" \notin g.stale => token' # NoToken
  /\ tainted' = 0 => /\ tainted = 0
                     /\ flow[f] # NoFlow \/ \A h \in Flow \ {f} : flow[h] = NoFlow
                     /\ Alive'
                     /\ IF g = NoFlow THEN InStep' ELSE LoneKnows(f)'

(* And that is enough, for a step that deletes no row, or tells everybody. *)
LEMMA LandingKeeps ==
  ASSUME TokenInv, NEW f \in Flow, NEW g \in Flows, Becomes(f, g), Lands(f, g),
         (token' = NoToken => token = NoToken) \/
           (\A h \in Flow \ {f} : flow[h] # NoFlow => "row" \in flow'[h].stale)
  PROVE  TokenInv'
<1>1. Free \notin Flow /\ Lost \notin Flow
  BY TokenRefreshAssumption DEF Free, Lost
<1>2. FlowsFit'
  BY <1>1, FlowsFitKept DEF TokenInv, Lands
<1>3. keyHolder' \in Flow \cup {Free, Lost}
  BY DEF TokenInv, Lands, TokenTypeOK
<1>4. TokenTypeOK'
  BY <1>2, <1>3, TokenTypesKept DEF TokenInv, Lands
<1>5. TokenGoesWithAccount'
  BY DEF Lands, TokenGoesWithAccount
<1>6. RowsAreKnown'
  <2>1. CASE token' = NoToken => token = NoToken
    BY <2>1, TokenRowsKept DEF TokenInv, Lands
  <2>2. CASE \A h \in Flow \ {f} : flow[h] # NoFlow => "row" \in flow'[h].stale
    BY <2>2, NoFlowFits DEF TokenInv, Lands, Becomes, RowsAreKnown, RefreshSteps, HoldingSteps
  <2> QED
    BY <2>1, <2>2
<1>7. Undisturbed'
  BY LoneKept DEF TokenInv, Lands
<1> QED
  BY <1>2, <1>4, <1>5, <1>6, <1>7 DEF TokenInv

(* An execution that ends without writing, or whose write found nothing,   *)
(* has given up the key and leaves the connection as it was.               *)
LEMMA LeavingKeeps ==
  ASSUME TokenInv, NEW f \in Flow, flow[f] # NoFlow, Becomes(f, NoFlow),
         UNCHANGED <<token, account, oauthState>>, accepted' \in 0..MaxGrants,
         keyHolder' \in {keyHolder, Free, Lost}, keyHolder' # f, tainted' \in 0..MaxMishaps + 1,
         tainted' = 0 => tainted = 0 /\ InStep'
  PROVE  TokenInv'
<1>1. tainted = 0 => Alive'
  BY DEF TokenInv, Undisturbed, Alive
<1>2. Lands(f, NoFlow)
  BY <1>1, NoFlowFits DEF Lands, TokenInv, TokenTypeOK, FlowsFit, TokenGoesWithAccount,
     RefreshSteps, HoldingSteps
<1> QED
  BY <1>2, NoFlowFits, LandingKeeps

(* One that goes on as the record g says, the rows unchanged.              *)
LEMMA MovingKeeps ==
  ASSUME TokenInv, NEW f \in Flow, flow[f] # NoFlow, NEW g \in Flows, Becomes(f, g), g # NoFlow,
         UNCHANGED <<token, account, oauthState, tainted>>, accepted' \in 0..MaxGrants,
         keyHolder' \in {keyHolder, f, Free, Lost},
         keyHolder' = f => g.kind \in Locking /\ g.step \in HoldingSteps,
         g.step = "lock" => g.kind \in Locking,
         g.step \in {"release", "write", "connect"} => g.got # 0,
         g.step \in RefreshSteps /\ "row" \notin g.stale => token # NoToken,
         tainted = 0 => LoneKnows(f)'
  PROVE  TokenInv'
<1>1. tainted = 0 => Alive'
  BY DEF TokenInv, Undisturbed, Alive
<1>2. Lands(f, g)
  BY <1>1 DEF Lands, TokenInv, TokenTypeOK, FlowsFit, TokenGoesWithAccount
<1> QED
  BY <1>2, LandingKeeps

(* Going to another step changes the step alone.                           *)
LEMMA MoveFits ==
  ASSUME FlowsFit, NEW f \in Flow, NEW s \in Steps, Move(f, s)
  PROVE  /\ flow'[f] \in Flows /\ Becomes(f, flow'[f])
         /\ flow'[f].step = s /\ flow'[f].kind = flow[f].kind /\ flow'[f].read = flow[f].read
         /\ flow'[f].got = flow[f].got /\ flow'[f].stale = flow[f].stale
<1> DEFINE g == [flow[f] EXCEPT !.step = s]
<1>1. flow[f] \in Flows
  BY DEF FlowsFit
<1>2. g \in Flows /\ g.step = s /\ g.kind = flow[f].kind /\ g.read = flow[f].read
      /\ g.got = flow[f].got /\ g.stale = flow[f].stale
  BY <1>1 DEF Flows
<1>3. flow' = [flow EXCEPT ![f] = g]
  BY DEF Move
<1> HIDE DEF g
<1>4. Becomes(f, g)
  BY <1>2, <1>3, FlowsMove
<1>5. flow'[f] = g
  BY <1>4 DEF Becomes
<1> QED
  BY <1>2, <1>4, <1>5

(* Leaving is to become nobody.                                            *)
LEMMA LeaveFits ==
  ASSUME FlowsFit, NEW f \in Flow, Leave(f)
  PROVE  Becomes(f, NoFlow)
BY NoFlowFits, FlowsMove DEF Leave

(* One that begins: it has met nobody, or it is the meeting that taints.   *)
LEMMA EnterFits ==
  ASSUME TokenInv, NEW f \in Flow, NEW k \in Kinds, NEW s \in Steps, Enter(f, k, s)
  PROVE  /\ flow'[f] \in Flows /\ Becomes(f, flow'[f])
         /\ flow'[f].kind = k /\ flow'[f].step = s /\ flow'[f].read = token.gen
         /\ flow'[f].got = 0 /\ flow'[f].stale = {}
         /\ flow[f] = NoFlow /\ keyHolder # f /\ tainted' \in 0..MaxMishaps + 1
         /\ tainted' = 0 => /\ tainted = 0 /\ \A h \in Flow : flow[h] = NoFlow
                            /\ InStep /\ Alive
<1> DEFINE g == [NoFlow EXCEPT !.kind = k, !.step = s, !.read = token.gen]
<1>1. token.gen \in 0..MaxGrants /\ tainted \in 0..MaxMishaps + 1 /\ FlowsFit
  BY DEF TokenInv, TokenTypeOK
<1>2. flow[f] = NoFlow /\ flow' = [flow EXCEPT ![f] = g]
  BY DEF Enter
<1> HIDE DEF g
<1>3. g \in Flows /\ g.kind = k /\ g.step = s /\ g.read = token.gen /\ g.got = 0 /\ g.stale = {}
  <2>1. g = [NoFlow EXCEPT !.kind = k, !.step = s, !.read = token.gen]
    BY DEF g
  <2> QED
    BY <2>1, <1>1, NoFlowFits DEF Flows
<1>4. Becomes(f, g)
  BY <1>1, <1>2, <1>3, FlowsMove
<1>5. flow'[f] = g
  BY <1>4 DEF Becomes
<1>6. keyHolder # f
  BY <1>1, <1>2, NoFlowFits DEF FlowsFit, HoldingSteps
<1>7. /\ tainted' \in 0..MaxMishaps + 1
      /\ tainted' = 0 => tainted = 0 /\ \A h \in Flow : flow[h] = NoFlow
  BY <1>1, <1>2, TokenRefreshAssumption DEF Enter, Taint
<1>8. tainted' = 0 => InStep /\ Alive
  BY <1>7 DEF TokenInv, Undisturbed
<1> QED
  BY <1>2, <1>3, <1>4, <1>5, <1>6, <1>7, <1>8

(* Initially nobody is at work and the row has the accepted token.         *)
LEMMA TokenInvInit == TokenInit => TokenInv
<1> SUFFICES ASSUME TokenInit PROVE TokenInv
  OBVIOUS
<1>2. flow \in [Flow -> Flows] /\ \A f \in Flow : flow[f] = NoFlow
  BY NoFlowFits DEF TokenInit
<1>0. /\ 0 \in 0..MaxGrants /\ 1 \in 0..MaxGrants /\ 0 \in 0..MaxMishaps + 1
      /\ Free \notin Flow /\ Lost \notin Flow
  BY TokenRefreshAssumption DEF Free, Lost
<1>3. TokenTypeOK
  <2>1. \A f \in Flow : /\ flow[f].read \in 0..MaxGrants /\ flow[f].got \in 0..MaxGrants
                        /\ flow[f].stale \subseteq {"row", "rev", "version"} /\ keyHolder # f
    BY <1>0, <1>2, NoFlowFits DEF TokenInit
  <2> QED
    BY <1>0, <2>1 DEF TokenInit, TokenTypeOK
<1>4. FlowsFit
  BY NoFlowFits, <1>0, <1>2 DEF TokenInit, FlowsFit, AtStep
<1>5. RowsAreKnown /\ TokenGoesWithAccount
  BY NoFlowFits, <1>2 DEF TokenInit, RowsAreKnown, RefreshSteps, HoldingSteps,
     TokenGoesWithAccount, NoToken
<1>6. Undisturbed
  BY <1>2 DEF TokenInit, Undisturbed, InStep, Alive
<1> QED
  BY <1>3, <1>4, <1>5, <1>6 DEF TokenInv

(* One step per action.                                                    *)
LEMMA TokenInvStep ==
  ASSUME TokenInv, [TokenNext]_tokenVars
  PROVE  TokenInv'
<1>0. /\ TokenTypeOK /\ FlowsFit /\ TokenGoesWithAccount /\ RowsAreKnown /\ Undisturbed
      /\ flow \in [Flow -> Flows] /\ Free \notin Flow /\ Lost \notin Flow
  BY TokenRefreshAssumption DEF TokenInv, FlowsFit, Free, Lost
<1>a. ASSUME NEW f \in Flow PROVE flow[f] \in Flows
  BY <1>0
<1>r. ASSUME NEW f \in Flow, NEW k \in Refreshers, StartRefresh(f, k) PROVE TokenInv'
  <2> DEFINE s == FirstStep(k)
  <2>1. /\ Enter(f, k, s) /\ s \in {"lock", "check", "call", "refused", "unavailable"}
        /\ s = "lock" => k \in Locking
    BY <1>r DEF StartRefresh, FirstStep
  <2>2. k \in Kinds /\ s \in Steps /\ s # "idle"
    BY <2>1, TokenRefreshAssumption DEF Locking, Kinds, Steps
  <2>3. token # NoToken /\ UNCHANGED <<token, account, accepted, keyHolder, oauthState>>
    BY <1>r DEF StartRefresh
  <2>6. /\ s = "refused" => ~account.renewable /\ ~token.fresh
        /\ s = "unavailable" => ~account.renewable
        /\ s \in {"check", "call"} \/ (s = "lock" /\ k # "service") => account.renewable
    BY <1>r DEF StartRefresh, FirstStep, Strict, Locking, Checking
  <2> HIDE DEF s
  <2>7. /\ flow'[f].kind = k /\ flow'[f].step = s /\ flow'[f].read = token.gen
        /\ flow'[f].stale = {}
        /\ tainted' = 0 => InStep /\ Alive
    BY <2>1, <2>2, EnterFits
  <2>8. tainted' = 0 => Alive' /\ InStep' /\ token.gen = accepted
    BY <1>0, <2>3, <2>7 DEF InStep, TokenGoesWithAccount, Alive
  <2>4. tainted' = 0 => Alive' /\ InStep' /\ LoneKnows(f)'
    <3>1. /\ flow'[f].step \in {"lock", "check", "call", "refused", "unavailable"}
          /\ flow'[f].step = "refused" => ~account'.renewable /\ ~token'.fresh
          /\ flow'[f].step = "unavailable" => ~account'.renewable
          /\ flow'[f].step \in {"check", "call"} => account'.renewable
          /\ flow'[f].step = "lock" /\ flow'[f].kind # "service" => account'.renewable
      <4>1. flow'[f].step = s /\ flow'[f].kind = k /\ account' = account /\ token' = token
        BY <2>3, <2>7
      <4>2. s \in {"lock", "check", "call", "refused", "unavailable"}
        BY <2>1
      <4> QED
        BY <4>1, <4>2, <2>6
    <3>2. tainted' = 0 => flow'[f].read = accepted' /\ flow'[f].stale = {}
      BY <2>3, <2>7, <2>8
    <3>3. ASSUME tainted' = 0 PROVE LoneKnows(f)'
      BY <2>8, <3>1, <3>2, <3>3, SMTT(30) DEF LoneKnows
    <3> QED
      BY <2>8, <3>3
  <2>5. Lands(f, flow'[f])
    <3>1. /\ token' \in [gen : 0..MaxGrants, fresh : BOOLEAN] /\ token'.gen # 0
          /\ account' \in Accounts
          /\ account'.deleted <=> token' = NoToken
          /\ accepted' \in 0..MaxGrants /\ oauthState' \in BOOLEAN
      BY <1>0, <2>3 DEF TokenTypeOK, FlowsFit, TokenGoesWithAccount
    <3> QED
      BY <3>1, <2>1, <2>2, <2>3, <2>4, EnterFits, NoFlowFits DEF Lands
  <2> QED
    BY <2>1, <2>2, <2>3, <2>5, EnterFits, LandingKeeps
<1>b. ASSUME NEW f \in Flow, flow[f].step # "idle" PROVE flow[f] # NoFlow
  BY <1>b, NoFlowFits
<1>l. ASSUME NEW f \in Flow, tainted = 0, flow[f] # NoFlow PROVE LoneKnows(f)
  BY <1>0, <1>l DEF Undisturbed
<1>k. ASSUME NEW f \in Flow, Unlock(f) PROVE keyHolder' \in {keyHolder, Free, Lost} /\ keyHolder' # f
  BY <1>0, <1>k DEF Unlock
<1>t. tainted \in 0..MaxMishaps + 1 /\ accepted \in 0..MaxGrants
  BY <1>0 DEF TokenTypeOK
<1>1. ASSUME NEW f \in Flow, TakeKey(f) PROVE TokenInv'
  <2>1. flow[f].step = "lock" /\ flow[f].kind \in Locking /\ flow[f] # NoFlow /\ keyHolder # f
    BY <1>1, <1>0, <1>b DEF TakeKey, AtStep, FlowsFit, HoldingSteps
  <2>2. UNCHANGED <<token, account, accepted, oauthState, tainted>>
    BY <1>1 DEF TakeKey
  <2>3. CASE keyHolder = Free
    <3>1. PICK s \in {"call", "read", "check"} :
            Move(f, s) /\ (flow[f].kind = "service" => s = "read")
      BY <1>1, <2>3 DEF TakeKey
    <3>2. keyHolder' = f
      BY <1>1, <2>3 DEF TakeKey
    <3>3. s \in Steps
      BY <3>1 DEF Steps
    <3>4. tainted = 0 => LoneKnows(f)'
      BY <1>0, <2>1, <2>2, <3>1, <3>3, <1>l, MoveFits DEF LoneKnows, InStep
    <3>5. "row" \notin flow[f].stale => token # NoToken
      BY <1>0, <2>1 DEF RowsAreKnown, RefreshSteps
    <3> QED
      BY <1>0, <1>t, <2>1, <2>2, <3>1, <3>2, <3>3, <3>4, <3>5, NoFlowFits, MoveFits, MovingKeeps
         DEF HoldingSteps
  <2>4. CASE keyHolder # Free
    <3>1. Leave(f) /\ UNCHANGED keyHolder
      BY <1>1, <2>4 DEF TakeKey
    <3>2. tainted = 0 => InStep'
      BY <1>l, <2>1, <2>2 DEF LoneKnows, InStep
    <3> QED
      BY <1>0, <1>t, <2>1, <2>2, <3>1, <3>2, LeaveFits, LeavingKeeps
  <2> QED
    BY <2>3, <2>4
<1>2. ASSUME NEW f \in Flow, ReadUnderKey(f) PROVE TokenInv'
  <2>1. flow[f].step = "read" /\ flow[f] # NoFlow
    BY <1>2, <1>b DEF ReadUnderKey, AtStep
  <2>2. UNCHANGED <<token, account, accepted, oauthState, tainted>>
    BY <1>2 DEF ReadUnderKey
  <2> DEFINE idle == token = NoToken \/ token.fresh \/ ~account.renewable
  <2>3. CASE idle
    <3>1. Leave(f) /\ Unlock(f)
      BY <1>2, <2>3 DEF ReadUnderKey
    <3>2. tainted = 0 => InStep'
      BY <1>l, <2>1, <2>2 DEF LoneKnows, InStep
    <3> QED
      BY <1>0, <1>t, <1>k, <2>1, <2>2, <3>1, <3>2, LeaveFits, LeavingKeeps
  <2>4. CASE ~idle
    <3> DEFINE g == [flow[f] EXCEPT !.step = "call", !.read = token.gen, !.stale = {}]
    <3>1. token.gen \in 0..MaxGrants /\ flow[f] \in Flows /\ "call" \in Steps
      BY <1>0, <1>a DEF TokenTypeOK, Steps
    <3>2. /\ g \in Flows /\ g.step = "call" /\ g.read = token.gen /\ g.stale = {}
          /\ g.kind = flow[f].kind
      BY <3>1 DEF Flows
    <3>3. flow' = [flow EXCEPT ![f] = g] /\ UNCHANGED keyHolder
      BY <1>2, <2>4, <1>0 DEF ReadUnderKey
    <3> HIDE DEF g
    <3>4. Becomes(f, g) /\ g # NoFlow
      BY <1>0, <3>2, <3>3, FlowsMove, NoFlowFits
    <3>5. tainted = 0 => LoneKnows(f)'
      <4>1. flow'[f] = g
        BY <3>4 DEF Becomes
      <4>2. tainted = 0 => InStep
        BY <1>l, <2>1 DEF LoneKnows
      <4>3. tainted = 0 => token.gen = accepted /\ InStep'
        BY <4>2, <1>0, <2>2, <2>4 DEF InStep, TokenGoesWithAccount
      <4> QED
        BY <2>2, <2>4, <3>2, <4>1, <4>2, <4>3 DEF LoneKnows
    <3>6. keyHolder = f => g.kind \in Locking /\ g.step \in HoldingSteps
      BY <1>0, <3>2 DEF FlowsFit, HoldingSteps
    <3> QED
      BY <1>t, <2>1, <2>2, <2>4, <3>2, <3>3, <3>4, <3>5, <3>6, MovingKeeps
  <2> QED
    BY <2>3, <2>4
<1>3. ASSUME NEW f \in Flow, CheckAgain(f) PROVE TokenInv'
  <2>1. flow[f].step = "check" /\ flow[f] # NoFlow
    BY <1>3, <1>b DEF CheckAgain, AtStep
  <2>2. UNCHANGED <<token, account, accepted, oauthState, tainted>>
    BY <1>3 DEF CheckAgain
  <2>3. tainted = 0 => InStep' /\ LoneKnows(f)
    BY <1>l, <2>1, <2>2 DEF LoneKnows, InStep
  <2>4. CASE token.fresh
    <3>1. Leave(f) /\ Unlock(f)
      BY <1>3, <2>4 DEF CheckAgain
    <3> QED
      BY <1>0, <1>t, <1>k, <2>1, <2>2, <2>3, <3>1, LeaveFits, LeavingKeeps
  <2>5. CASE ~token.fresh
    <3>1. Move(f, "call") /\ UNCHANGED keyHolder /\ "call" \in Steps
      BY <1>3, <2>5 DEF CheckAgain, Steps
    <3>2. keyHolder = f => flow[f].kind \in Locking
      BY <1>0 DEF FlowsFit
    <3>3. tainted = 0 => LoneKnows(f)'
      BY <1>0, <2>1, <2>2, <2>3, <3>1, MoveFits DEF LoneKnows, InStep
    <3>5. "row" \notin flow[f].stale => token # NoToken
      BY <1>0, <2>1 DEF RowsAreKnown, RefreshSteps, HoldingSteps
    <3> QED
      BY <1>0, <1>t, <2>1, <2>2, <3>1, <3>2, <3>3, <3>5, NoFlowFits, MoveFits, MovingKeeps
         DEF HoldingSteps
  <2> QED
    BY <2>4, <2>5
<1>g. ASSUME NEW f \in Flow, GiveUp(f)
      PROVE  Becomes(f, NoFlow) /\ keyHolder' \in {keyHolder, Free, Lost} /\ keyHolder' # f
  <2>1. Leave(f) \/ Outdate(f, NoFlow, {"rev"})
    BY <1>g DEF GiveUp
  <2> QED
    BY <1>g, <2>1, <1>0, <1>k, NoFlowFits, LeaveFits, FlowsOutdate DEF GiveUp
<1>4. ASSUME NEW f \in Flow, RefreshRemote(f) PROVE TokenInv'
  <2>1. flow[f].step = "call" /\ flow[f] # NoFlow
    BY <1>4, <1>b DEF RefreshRemote, AtStep
  <2>2. UNCHANGED <<token, account, oauthState>>
    BY <1>4 DEF RefreshRemote
  <2>3. tainted = 0 => InStep /\ LoneKnows(f) /\ flow[f].read = accepted
    BY <1>l, <2>1 DEF LoneKnows
  <2>4. CASE /\ accepted < MaxGrants /\ accepted' = accepted + 1 /\ UNCHANGED <<keyHolder, tainted>>
             /\ flow' = [flow EXCEPT ![f].got = accepted + 1,
                          ![f].step = IF flow[f].kind \in Locking \ {"service"}
                                      THEN "release" ELSE "write"]
    <3>1. PICK s \in {"release", "write"} : flow' = [flow EXCEPT ![f].got = accepted + 1, ![f].step = s]
      BY <2>4
    <3> DEFINE g == [flow[f] EXCEPT !.got = accepted + 1, !.step = s]
    <3>2. accepted + 1 \in 0..MaxGrants /\ accepted + 1 # 0 /\ flow[f] \in Flows /\ s \in Steps
      BY <1>t, <1>a, <2>4, TokenRefreshAssumption DEF Steps
    <3>3. /\ g \in Flows /\ g.step = s /\ g.got = accepted + 1 /\ g.stale = flow[f].stale
          /\ g.kind = flow[f].kind
      BY <3>2 DEF Flows
    <3>4. flow' = [flow EXCEPT ![f] = g]
      BY <3>1, <1>0
    <3> HIDE DEF g
    <3>5. Becomes(f, g) /\ g # NoFlow
      BY <1>0, <3>1, <3>3, <3>4, FlowsMove, NoFlowFits
    <3>6. tainted = 0 => LoneKnows(f)'
      <4>1. tainted = 0 => account.renewable /\ flow[f].stale = {}
        BY <2>1, <2>3 DEF LoneKnows
      <4>2. flow'[f] = g
        BY <3>5 DEF Becomes
      <4> QED
        BY <2>2, <2>4, <3>1, <3>3, <4>1, <4>2 DEF LoneKnows
    <3>7. keyHolder = f => g.kind \in Locking /\ g.step \in HoldingSteps
      BY <1>0, <3>1, <3>3 DEF FlowsFit, HoldingSteps
    <3>8. "row" \notin g.stale => token # NoToken
      BY <1>0, <2>1, <3>3 DEF RowsAreKnown, RefreshSteps, HoldingSteps
    <3> QED
      BY <2>1, <2>2, <2>4, <3>1, <3>2, <3>3, <3>5, <3>6, <3>7, <3>8, MovingKeeps
  <2>5. CASE accepted < MaxGrants /\ accepted' = accepted + 1 /\ Mishap /\ GiveUp(f)
    <3>1. accepted' \in 0..MaxGrants /\ tainted' \in 0..MaxMishaps + 1 /\ tainted' # 0
      BY <1>t, <2>5, TokenRefreshAssumption DEF Mishap
    <3> QED
      BY <3>1, <1>g, <2>1, <2>2, <2>5, LeavingKeeps
  <2>6. CASE flow[f].read # accepted /\ UNCHANGED <<accepted, tainted>> /\ Leave(f) /\ Unlock(f)
    <3>1. tainted = 0 => InStep'
      BY <2>3, <2>6
    <3> QED
      BY <1>0, <1>t, <1>k, <2>1, <2>2, <2>6, <3>1, LeaveFits, LeavingKeeps
  <2>7. CASE flow[f].read # accepted /\ UNCHANGED <<accepted, tainted>> /\ Move(f, "refused")
             /\ (Unlock(f) \/ UNCHANGED keyHolder)
    <3>1. keyHolder' \in {keyHolder, Free, Lost} /\ "refused" \in Steps
          /\ (keyHolder' = f => flow[f].kind \in Locking)
      BY <1>0, <1>k, <2>7 DEF FlowsFit, Steps
    <3>2. tainted # 0
      BY <2>3, <2>7
    <3>5. "row" \notin flow[f].stale => token # NoToken
      BY <1>0, <2>1 DEF RowsAreKnown, RefreshSteps, HoldingSteps
    <3> QED
      BY <1>0, <1>t, <2>1, <2>2, <2>7, <3>1, <3>2, <3>5, NoFlowFits, MoveFits, MovingKeeps
         DEF HoldingSteps
  <2>8. CASE GiveUp(f) /\ UNCHANGED <<accepted, tainted>>
    <3>1. tainted = 0 => InStep'
      BY <2>2, <2>3, <2>8 DEF InStep
    <3> QED
      BY <1>t, <1>g, <2>1, <2>2, <2>8, <3>1, LeavingKeeps
  <2> QED
    BY <1>4, <2>4, <2>5, <2>6, <2>7, <2>8 DEF RefreshRemote
<1>5. ASSUME NEW f \in Flow, MarkDisconnected(f) PROVE TokenInv'
  <2>1. flow[f].step = "refused" /\ flow[f] # NoFlow
    BY <1>5, <1>b DEF MarkDisconnected, AtStep
  <2>2. UNCHANGED <<token, accepted, oauthState, tainted>> /\ Leave(f) /\ Unlock(f)
    BY <1>5 DEF MarkDisconnected
  <2>3. /\ account' \in Accounts
        /\ account'.deleted = account.deleted /\ account'.renewable = account.renewable
    BY <1>5, <1>0 DEF MarkDisconnected, TokenTypeOK, Accounts
  <2>4. tainted = 0 => Alive' /\ InStep'
    BY <1>l, <2>1, <2>2, <2>3 DEF LoneKnows, InStep, Alive
  <2>5. Becomes(f, NoFlow)
    BY <1>0, <2>2, LeaveFits
  <2>6. Lands(f, NoFlow)
    BY <1>0, <1>k, <2>1, <2>2, <2>3, <2>4, NoFlowFits
       DEF Lands, TokenTypeOK, FlowsFit, TokenGoesWithAccount, RefreshSteps, HoldingSteps
  <2> QED
    BY <2>2, <2>5, <2>6, NoFlowFits, LandingKeeps
<1>17. ASSUME NEW f \in Flow, MarkUnrenewable(f) PROVE TokenInv'
  <2>1. flow[f].step = "unavailable" /\ flow[f] # NoFlow /\ keyHolder # f
    BY <1>17, <1>0, <1>b DEF MarkUnrenewable, AtStep, FlowsFit, HoldingSteps
  <2>2. UNCHANGED <<token, accepted, keyHolder, oauthState, tainted>> /\ Leave(f)
    BY <1>17 DEF MarkUnrenewable
  <2>3. /\ account' \in Accounts /\ account'.status = "NEEDS_RECONNECT"
        /\ account'.deleted = account.deleted /\ account'.renewable = account.renewable
    BY <1>17, <1>0 DEF MarkUnrenewable, TokenTypeOK, Accounts
  <2>4. tainted = 0 => Alive' /\ InStep'
    BY <1>l, <2>1, <2>2, <2>3 DEF LoneKnows, InStep, Alive
  <2>5. Becomes(f, NoFlow)
    BY <1>0, <2>2, LeaveFits
  <2>6. Lands(f, NoFlow)
    BY <1>0, <2>1, <2>2, <2>3, <2>4, NoFlowFits
       DEF Lands, TokenTypeOK, FlowsFit, TokenGoesWithAccount, RefreshSteps, HoldingSteps
  <2> QED
    BY <2>2, <2>5, <2>6, NoFlowFits, LandingKeeps
<1>6. ASSUME NEW f \in Flow, ReleaseKey(f) PROVE TokenInv'
  <2>1. flow[f].step = "release" /\ flow[f] # NoFlow
    BY <1>6, <1>b DEF ReleaseKey, AtStep
  <2>2. UNCHANGED <<token, account, accepted, oauthState, tainted>> /\ Move(f, "write") /\ Unlock(f)
        /\ "write" \in Steps
    BY <1>6 DEF ReleaseKey, Steps
  <2>3. tainted = 0 => LoneKnows(f)'
    BY <1>0, <1>l, <2>1, <2>2, MoveFits DEF LoneKnows, InStep
  <2>4. flow[f].got # 0 /\ ("row" \notin flow[f].stale => token # NoToken)
    BY <1>0, <2>1 DEF FlowsFit, RowsAreKnown, RefreshSteps, HoldingSteps
  <2> QED
    BY <1>0, <1>t, <1>k, <2>1, <2>2, <2>3, <2>4, NoFlowFits, MoveFits, MovingKeeps
<1>7. ASSUME NEW f \in Flow, Store(f) PROVE TokenInv'
  <2>1. flow[f].step = "write" /\ flow[f] # NoFlow
    BY <1>7, <1>b DEF Store, StoreWhere, AtStep
  <2>2. Unlock(f) /\ UNCHANGED <<accepted, oauthState, tainted>>
    BY <1>7 DEF Store, StoreWhere, GiveUp
  <2>l. tainted = 0 => flow[f].stale = {} /\ flow[f].got = accepted /\ account.renewable
    BY <1>l, <2>1 DEF LoneKnows
  <2>3. CASE StoreAllowed(f)
    <3>1. flow[f].got # 0 /\ token # NoToken /\ flow[f].got \in 0..MaxGrants
      <4>1. flow[f].kind # "service" => "row" \notin flow[f].stale
        BY <2>3 DEF StoreAllowed
      <4>2. token # NoToken
        BY <1>0, <2>1, <2>3, <4>1 DEF RowsAreKnown, RefreshSteps, HoldingSteps, StoreAllowed
      <4> QED
        BY <1>0, <1>a, <2>1, <4>2 DEF FlowsFit, Flows
    <3>2. /\ token' = [gen |-> flow[f].got, fresh |-> TRUE]
          /\ account' = [account EXCEPT !.status =
               IF flow[f].kind \in Reviving THEN "CONNECTED" ELSE @]
      BY <1>7, <2>3 DEF Store, StoreWhere
    <3>3. /\ token' \in [gen : 0..MaxGrants, fresh : BOOLEAN] /\ token' # NoToken /\ token'.gen # 0
          /\ token'.gen = flow[f].got
      BY <3>1, <3>2 DEF NoToken
    <3>4. /\ account' \in Accounts
          /\ account'.deleted = account.deleted
          /\ account'.renewable = account.renewable
          /\ account'.status = "CONNECTED" \/ account'.status = account.status
      BY <1>0, <3>2 DEF TokenTypeOK, Accounts
    <3>5. PICK what \in SUBSET {"row", "rev", "version"}, g \in Flows :
            /\ Outdate(f, g, what)
            /\ g = NoFlow \/ (g.step = "profile" /\ g.stale = flow[f].stale)
      <4>1. flow[f] \in Flows /\ "profile" \in Steps
        BY <1>a DEF Steps
      <4>2. [flow[f] EXCEPT !.step = "profile"] \in Flows
            /\ [flow[f] EXCEPT !.step = "profile"].step = "profile"
            /\ [flow[f] EXCEPT !.step = "profile"].stale = flow[f].stale
        BY <4>1 DEF Flows
      <4> QED
        BY <1>7, <2>3, <4>2, NoFlowFits DEF Store, StoreWhere
    <3>6. Becomes(f, g)
      BY <1>0, <3>5, FlowsOutdate
    <3>7. tainted = 0 => Alive'
      BY <1>0, <2>l, <3>4 DEF Undisturbed, Alive
    <3>8. tainted = 0 => InStep'
      BY <2>2, <2>l, <3>3 DEF InStep
    <3>9. g # NoFlow => (tainted = 0 => LoneKnows(f)')
      BY <2>l, <3>5, <3>6, <3>8 DEF LoneKnows, Becomes
    <3>10. g.step \notin RefreshSteps /\ g.step # "connect"
      BY <3>5, NoFlowFits DEF RefreshSteps, HoldingSteps
    <3>11. Lands(f, g)
      BY <1>0, <1>t, <1>k, <2>1, <2>2, <3>1, <3>3, <3>4, <3>7, <3>8, <3>9, <3>10
         DEF Lands, TokenTypeOK, TokenGoesWithAccount, RefreshSteps, HoldingSteps
    <3> QED
      BY <3>3, <3>6, <3>11, LandingKeeps
  <2>4. CASE ~StoreAllowed(f)
    <3>1. GiveUp(f) /\ UNCHANGED <<token, account>>
      BY <1>7, <2>4 DEF Store, StoreWhere
    <3>2. tainted # 0
      BY <1>0, <2>1, <2>4, <2>l DEF StoreAllowed, RowsAreKnown, RefreshSteps, HoldingSteps
    <3> QED
      BY <1>0, <1>t, <1>g, <2>1, <2>2, <3>1, <3>2, LeavingKeeps
  <2> QED
    BY <2>3, <2>4
<1>e. ASSUME NEW f \in Flow, NEW k \in {"accounts", "connect", "disconnect"},
             NEW s \in {"profile", "exchange", "drop"}, Enter(f, k, s),
             UNCHANGED <<token, account, keyHolder>>, oauthState' \in BOOLEAN, accepted' \in 0..MaxGrants,
             s # "drop" => UNCHANGED accepted
      PROVE  TokenInv'
  <2>1. k \in Kinds /\ s \in Steps /\ s # "idle"
    BY DEF Locking, Kinds, Steps
  <2>2. tainted' = 0 => LoneKnows(f)' /\ Alive'
    BY <1>e, <2>1, EnterFits DEF LoneKnows, InStep, Alive
  <2>3. Lands(f, flow'[f])
    BY <1>0, <1>e, <2>1, <2>2, EnterFits, NoFlowFits
       DEF Lands, TokenTypeOK, FlowsFit, TokenGoesWithAccount, RefreshSteps, HoldingSteps
  <2> QED
    BY <1>e, <2>1, <2>3, EnterFits, LandingKeeps
<1>8. ASSUME NEW f \in Flow, TestConnection(f) PROVE TokenInv'
  BY <1>8, <1>0, <1>t, <1>e DEF TestConnection, TokenTypeOK
<1>9. ASSUME NEW f \in Flow, ConsumeState(f) PROVE TokenInv'
  BY <1>9, <1>t, <1>e DEF ConsumeState
<1>10. ASSUME NEW f \in Flow, Revoke(f) PROVE TokenInv'
  BY <1>10, <1>0, <1>t, <1>e, TokenRefreshAssumption DEF Revoke, TokenTypeOK
<1>11. ASSUME NEW f \in Flow, StoreProfile(f) PROVE TokenInv'
  <2>1. flow[f].step = "profile" /\ flow[f] # NoFlow /\ keyHolder # f
    BY <1>11, <1>0, <1>b DEF StoreProfile, AtStep, FlowsFit, HoldingSteps
  <2>2. UNCHANGED <<token, accepted, keyHolder, oauthState, tainted>> /\ Leave(f)
    BY <1>11 DEF StoreProfile
  <2>3. /\ account' \in Accounts
        /\ account'.deleted = account.deleted /\ account'.status = "CONNECTED"
    BY <1>11, <1>0 DEF StoreProfile, TokenTypeOK, Accounts
  <2>4. tainted = 0 => InStep' /\ Alive'
    BY <1>l, <2>1, <2>2, <2>3 DEF LoneKnows, InStep, Alive
  <2>5. Becomes(f, NoFlow)
    BY <1>0, <2>2, LeaveFits
  <2>6. Lands(f, NoFlow)
    BY <1>0, <2>1, <2>2, <2>3, <2>4, NoFlowFits
       DEF Lands, TokenTypeOK, FlowsFit, TokenGoesWithAccount, RefreshSteps, HoldingSteps
  <2> QED
    BY <2>2, <2>5, <2>6, NoFlowFits, LandingKeeps
<1>12. ASSUME NEW f \in Flow, ExchangeCode(f) PROVE TokenInv'
  <2>1. flow[f].step = "exchange" /\ flow[f] # NoFlow /\ keyHolder # f
    BY <1>12, <1>0, <1>b DEF ExchangeCode, AtStep, FlowsFit, HoldingSteps
  <2>2. UNCHANGED <<token, account, keyHolder, oauthState, tainted>>
    BY <1>12 DEF ExchangeCode
  <2>3. CASE accepted < MaxGrants
    <3> DEFINE g == [flow[f] EXCEPT !.step = "connect", !.got = accepted + 1]
    <3>1. accepted + 1 \in 0..MaxGrants /\ accepted + 1 # 0 /\ flow[f] \in Flows /\ "connect" \in Steps
      BY <1>t, <1>a, <2>3, TokenRefreshAssumption DEF Steps
    <3>2. g \in Flows /\ g.step = "connect" /\ g.got = accepted + 1 /\ g.stale = flow[f].stale
      BY <3>1 DEF Flows
    <3>3. flow' = [flow EXCEPT ![f] = g] /\ accepted' = accepted + 1
      BY <1>12, <2>3, <1>0 DEF ExchangeCode
    <3> HIDE DEF g
    <3>4. Becomes(f, g) /\ g # NoFlow
      BY <1>0, <3>2, <3>3, FlowsMove, NoFlowFits
    <3>5. tainted = 0 => LoneKnows(f)'
      BY <1>l, <2>1, <2>2, <3>2, <3>3, <3>4 DEF LoneKnows, Becomes
    <3> QED
      BY <2>1, <2>2, <3>1, <3>2, <3>3, <3>4, <3>5, MovingKeeps DEF RefreshSteps, HoldingSteps
  <2>4. CASE ~(accepted < MaxGrants)
    <3>1. Leave(f) /\ UNCHANGED accepted
      BY <1>12, <2>4 DEF ExchangeCode
    <3>2. tainted = 0 => InStep'
      BY <1>l, <2>1, <2>2, <3>1 DEF LoneKnows, InStep
    <3> QED
      BY <1>0, <1>t, <2>1, <2>2, <3>1, <3>2, LeaveFits, LeavingKeeps
  <2> QED
    BY <2>3, <2>4
<1>13. ASSUME NEW f \in Flow, StoreConnection(f) PROVE TokenInv'
  <2>1. flow[f].step = "connect" /\ flow[f] # NoFlow /\ keyHolder # f /\ flow[f].got # 0
        /\ flow[f].got \in 0..MaxGrants
    BY <1>13, <1>0, <1>a, <1>b DEF StoreConnection, AtStep, FlowsFit, HoldingSteps, Flows
  <2>2. /\ UNCHANGED <<accepted, keyHolder, oauthState, tainted>> /\ Outdate(f, NoFlow, {"rev"})
        /\ token' = [gen |-> flow[f].got, fresh |-> TRUE]
        /\ account' = [account EXCEPT !.status = "CONNECTED", !.deleted = FALSE]
    BY <1>13 DEF StoreConnection
  <2>3. /\ token' \in [gen : 0..MaxGrants, fresh : BOOLEAN] /\ token' # NoToken /\ token'.gen # 0
        /\ token'.gen = flow[f].got
        /\ account' \in Accounts
        /\ account'.status = "CONNECTED" /\ ~account'.deleted
    BY <1>0, <2>1, <2>2 DEF NoToken, TokenTypeOK, Accounts
  <2>4. tainted = 0 => InStep' /\ Alive'
    BY <1>l, <2>1, <2>2, <2>3 DEF LoneKnows, InStep, Alive
  <2>5. Becomes(f, NoFlow)
    BY <1>0, <2>2, NoFlowFits, FlowsOutdate
  <2>6. Lands(f, NoFlow)
    BY <1>0, <2>1, <2>2, <2>3, <2>4, NoFlowFits
       DEF Lands, TokenTypeOK, RefreshSteps, HoldingSteps
  <2> QED
    BY <2>3, <2>5, <2>6, NoFlowFits, LandingKeeps
<1>14. ASSUME NEW f \in Flow, DropConnection(f) PROVE TokenInv'
  <2>1. flow[f].step = "drop" /\ flow[f] # NoFlow /\ keyHolder # f
    BY <1>14, <1>0, <1>b DEF DropConnection, AtStep, FlowsFit, HoldingSteps
  <2>2. /\ UNCHANGED <<accepted, keyHolder, oauthState, tainted>> /\ Outdate(f, NoFlow, {"row"})
        /\ token' = NoToken
        /\ account' = [account EXCEPT !.status = "DISCONNECTED", !.deleted = TRUE]
    BY <1>14 DEF DropConnection
  <2>3. /\ token' \in [gen : 0..MaxGrants, fresh : BOOLEAN]
        /\ account' \in Accounts /\ account'.deleted
    <3>1. 0 \in 0..MaxGrants /\ account \in Accounts
      BY <1>0, TokenRefreshAssumption DEF TokenTypeOK
    <3>2. account' \in Accounts /\ account'.deleted
      BY <2>2, <3>1 DEF Accounts
    <3> QED
      BY <2>2, <3>1, <3>2 DEF NoToken
  <2>4. Becomes(f, NoFlow) /\ \A h \in Flow \ {f} : flow[h] # NoFlow => "row" \in flow'[h].stale
    BY <1>0, <2>2, NoFlowFits, FlowsOutdate
  <2>5. Lands(f, NoFlow)
    BY <1>0, <2>1, <2>2, <2>3, NoFlowFits
       DEF Lands, TokenTypeOK, InStep, Alive, RefreshSteps, HoldingSteps
  <2> QED
    BY <2>4, <2>5, NoFlowFits, LandingKeeps
<1>15. ASSUME NEW f \in Flow, FlowDies(f) PROVE TokenInv'
  <2>1. /\ flow[f] # NoFlow /\ Leave(f) /\ Mishap /\ UNCHANGED <<token, account, accepted, oauthState>>
        /\ keyHolder' = IF keyHolder = f THEN Lost ELSE keyHolder
    BY <1>15 DEF FlowDies
  <2>2. tainted' \in 0..MaxMishaps + 1 /\ tainted' # 0
    BY <1>t, <2>1, TokenRefreshAssumption DEF Mishap
  <2>3. keyHolder' # f /\ keyHolder' \in {keyHolder, Free, Lost}
    BY <1>0, <2>1
  <2> QED
    BY <1>0, <1>t, <2>1, <2>2, <2>3, LeaveFits, LeavingKeeps
<1>16. CASE StartOAuth \/ RunOut \/ KeyLapses \/ UNCHANGED tokenVars
  <2>1. UNCHANGED <<account, accepted, flow>>
    BY <1>16 DEF StartOAuth, RunOut, KeyLapses, tokenVars
  <2>2. /\ token' \in [gen : 0..MaxGrants, fresh : BOOLEAN] /\ token'.gen = token.gen
        /\ token'.fresh => token.fresh
        /\ (token' = NoToken) <=> (token = NoToken)
        /\ token' = NoToken \/ token'.gen # 0
    <3>1. CASE UNCHANGED token
      BY <3>1, <1>0 DEF TokenTypeOK, FlowsFit
    <3>2. CASE RunOut
      <4>1. token \in [gen : 0..MaxGrants, fresh : BOOLEAN] /\ token # NoToken /\ token.gen # 0
        BY <3>2, <1>0 DEF RunOut, TokenTypeOK, FlowsFit, NoToken
      <4>2. token' \in [gen : 0..MaxGrants, fresh : BOOLEAN] /\ token'.gen = token.gen /\ ~token'.fresh
        BY <3>2, <4>1 DEF RunOut
      <4> QED
        BY <4>1, <4>2 DEF NoToken
    <3> QED
      BY <1>16, <3>1, <3>2 DEF StartOAuth, KeyLapses, tokenVars
  <2>3. /\ keyHolder' \in {keyHolder, Free} /\ oauthState' \in BOOLEAN
        /\ tainted' \in 0..MaxMishaps + 1
        /\ tainted' = 0 => tainted = 0
    <3>1. oauthState \in BOOLEAN
      BY <1>0 DEF TokenTypeOK
    <3>2. CASE StartOAuth
      BY <3>1, <3>2, <1>t DEF StartOAuth
    <3>3. CASE RunOut \/ UNCHANGED tokenVars
      BY <3>1, <3>3, <1>t DEF RunOut, tokenVars
    <3>4. CASE KeyLapses
      BY <3>1, <3>4, <1>t, TokenRefreshAssumption DEF KeyLapses, Mishap
    <3> QED
      BY <1>16, <3>2, <3>3, <3>4
  <2>4. TokenTypeOK' /\ TokenGoesWithAccount'
    BY <1>0, <2>1, <2>2, <2>3 DEF TokenTypeOK, TokenGoesWithAccount
  <2>5. FlowsFit'
    BY <1>0, <2>1, <2>2, <2>3 DEF FlowsFit, AtStep
  <2>6. RowsAreKnown'
    BY <1>0, <2>1, <2>2 DEF RowsAreKnown
  <2>7. Undisturbed'
    <3>1. tainted = 0 => Alive'
      BY <1>0, <2>1, <2>2 DEF Undisturbed, Alive
    <3>2. InStep' <=> InStep
      BY <2>1, <2>2 DEF InStep
    <3>3. ASSUME NEW f \in Flow, LoneKnows(f) PROVE LoneKnows(f)'
      BY <2>1, <2>2, <3>2, <3>3 DEF LoneKnows
    <3> QED
      BY <1>0, <2>1, <2>3, <3>1, <3>2, <3>3 DEF Undisturbed
  <2> QED
    BY <2>4, <2>5, <2>6, <2>7 DEF TokenInv
<1> QED
  BY <1>r, <1>1, <1>2, <1>3, <1>4, <1>5, <1>6, <1>7, <1>8, <1>9, <1>10, <1>11, <1>12, <1>13,
     <1>14,
     <1>15, <1>16, <1>17 DEF TokenNext, TokenStep

(* Hence it holds throughout.                                              *)
LEMMA TokenInvHolds == TokenSpec => []TokenInv
BY TokenInvInit, TokenInvStep, PTL DEF TokenSpec

(* The types of the tokens of an account.                                  *)
THEOREM TokenTypesHold == TokenSpec => []TokenTypeOK
<1>1. TokenInv => TokenTypeOK
  BY DEF TokenInv
<1> QED
  BY <1>1, TokenInvHolds, PTL

(* A connection and its token come and go together, and a refresh that     *)
(* meets no other and no mishap never costs the user a connection that can *)
(* be renewed.                                                             *)
THEOREM ConnectionHolds == TokenSpec => []ConnectionIsKept
<1>1. TokenInv => ConnectionIsKept
  <2> SUFFICES ASSUME TokenInv PROVE ConnectionIsKept
    OBVIOUS
  <2>1. LoneRefreshIsSafe
    <3> SUFFICES ASSUME tainted = 0, NEW f \in Flow, AtStep(f, "refused") PROVE ~account.renewable
      BY DEF LoneRefreshIsSafe, TokenInv, Undisturbed
    <3>1. flow[f] # NoFlow
      BY NoFlowFits DEF AtStep
    <3> QED
      BY <3>1 DEF TokenInv, Undisturbed, LoneKnows, AtStep
  <2> QED
    BY <2>1 DEF ConnectionIsKept, TokenInv
<1> QED
  BY <1>1, TokenInvHolds, PTL
-----------------------------------------------------------------------------
(* The inbox, for any number of messages and attempts. Unless the answer   *)
(* of a send was lost, what the platform shows of a message is never on    *)
(* its way to it again, but by an execution that BullMQ has given up.      *)

(* What is known of a message, and of its execution that has stalled.      *)
Mails == [kind : SendKinds \cup {"none"}, row : {"none", "PENDING", "SENT", "FAILED"},
          step : Unsent \cup {"waiting", "call", "store"}, tries : 0..MaxSends]
Stalls == {"never", "call", "store", "over"}

One(b) == IF b THEN 1 ELSE 0

(* Of a message r that the platform shows c times, with s its stalled      *)
(* execution: a job that waits has an attempt left; a reply has a row only *)
(* while its comment has one, a comment of the team's own has none; every  *)
(* copy, shown or about to be, is paid for by an attempt, or by the one    *)
(* redelivery BullMQ grants.                                               *)
MailFits(r, c, s, here) ==
  /\ r.step = "waiting" => r.tries < MaxSends
  /\ r.step \in {"call", "store"} => r.tries > 0
  /\ r.kind = "none" => r.step = "none" /\ c = 0 /\ s = "never"
  /\ r.step = "none" => r.kind = "none"
  /\ r.kind \in {"none", "comment"} => r.row = "none"
  /\ r.row # "none" => here # "none"
  /\ c + One(r.step = "call") + One(s = "call") <= r.tries + One(s # "never")

SendsFit == \A m \in Message : MailFits(message[m], copies[m], stalled[m], customer.here)

(* The job may still call the platform: a reply that waits and whose row   *)
(* is gone will not, the worker will find nothing to answer.               *)
MayGoAgain(r) ==
  \/ r.step = "call"
  \/ r.step = "waiting" /\ ~(r.kind = "reply" /\ r.row = "none")

(* Unless an answer was lost: without a stall, what the platform shows is  *)
(* never on its way to it again, and a row that says FAILED is wrong only  *)
(* until the running attempt is stored; with one, the two executions send  *)
(* it once each.                                                           *)
MailIsOnce(r, c, s) ==
  IF s = "never"
  THEN /\ c <= 1
       /\ c # 0 => /\ ~MayGoAgain(r)
                   /\ r.row = "FAILED" => r.step = "store"
  ELSE c + One(s = "call") + One(MayGoAgain(r)) <= 2

SentOnce == lostAnswers = 0 => \A m \in Message : MailIsOnce(message[m], copies[m], stalled[m])

(* The inductive invariant.                                                *)
InboxInv == InboxTypeOK /\ SendsFit /\ SentOnce

(* A step of one message keeps the invariant when its new record does.     *)
LEMMA MailStep ==
  ASSUME InboxInv, NEW m \in Message, NEW r \in Mails, NEW s \in Stalls,
         message' = [message EXCEPT ![m] = r], stalled' = [stalled EXCEPT ![m] = s],
         copies' \in [Message -> Nat], \A n \in Message \ {m} : copies'[n] = copies[n],
         customer' \in [here : {"none", "live", "removed"}, hidden : BOOLEAN, status : {"OPEN", "RESOLVED"}],
         customer'.here = customer.here,
         copyRow' \in [Message -> {"none", "live", "removed"}],
         lostAnswers' \in 0..MaxLostAnswers, UNCHANGED <<there, page, moderation, connected>>,
         MailFits(r, copies'[m], s, customer.here),
         lostAnswers' = 0 => lostAnswers = 0 /\ MailIsOnce(r, copies'[m], s)
  PROVE  InboxInv'
<1>1. /\ message' \in [Message -> Mails] /\ message'[m] = r
      /\ stalled' \in [Message -> Stalls] /\ stalled'[m] = s
      /\ \A n \in Message \ {m} : message'[n] = message[n] /\ stalled'[n] = stalled[n]
  BY DEF InboxInv, InboxTypeOK, Mails, Stalls
<1>2. copies' \in [Message -> 0..MaxSends + 1]
  <2>1. ASSUME NEW n \in Message PROVE copies'[n] \in 0..MaxSends + 1
    <3>1. CASE n = m
      <4>1. r.tries \in 0..MaxSends /\ copies'[m] \in Nat
        BY DEF Mails
      <4>2. copies'[m] + One(r.step = "call") + One(s = "call") <= r.tries + One(s # "never")
        BY DEF MailFits
      <4> QED
        BY <3>1, <4>1, <4>2, CommentsAssumption DEF One
    <3>2. CASE n # m
      BY <3>2 DEF InboxInv, InboxTypeOK
    <3> QED
      BY <3>1, <3>2
  <2> QED
    BY <2>1
<1>3. InboxTypeOK'
  BY <1>1, <1>2 DEF InboxInv, InboxTypeOK, Mails, Stalls
<1>4. SendsFit'
  <2>1. ASSUME NEW n \in Message PROVE MailFits(message'[n], copies'[n], stalled'[n], customer'.here)
    BY <1>1 DEF InboxInv, SendsFit
  <2> QED
    BY <2>1 DEF SendsFit
<1>5. SentOnce'
  <2>1. ASSUME NEW n \in Message, lostAnswers' = 0 PROVE MailIsOnce(message'[n], copies'[n], stalled'[n])
    BY <1>1, <2>1 DEF InboxInv, SentOnce
  <2> QED
    BY <2>1 DEF SentOnce
<1> QED
  BY <1>3, <1>4, <1>5 DEF InboxInv

(* Where an execution comes to, as a record and a step of the stalled one. *)
LEMMA ComingTo ==
  ASSUME InboxInv, NEW m \in Message, NEW x \in Executor,
         NEW row \in {"none", "PENDING", "SENT", "FAILED"},
         NEW step \in {"store", "done", "dead", "waiting"}, ComesTo(m, x, row, step)
  PROVE  \E r \in Mails, s \in Stalls :
           /\ message' = [message EXCEPT ![m] = r] /\ stalled' = [stalled EXCEPT ![m] = s]
           /\ r.kind = message[m].kind /\ r.tries = message[m].tries
           /\ r.row = IF message[m].row = "none" THEN "none" ELSE row
           /\ r.step = IF x = "job" THEN step ELSE message[m].step
           /\ s = IF x = "job" THEN stalled[m] ELSE IF step = "store" THEN "store" ELSE "over"
<1> DEFINE theRow == IF message[m].row = "none" THEN "none" ELSE row
           theStep == IF x = "job" THEN step ELSE message[m].step
           r == [message[m] EXCEPT !.row = theRow, !.step = theStep]
           s == IF x = "job" THEN stalled[m] ELSE IF step = "store" THEN "store" ELSE "over"
<1>1. /\ message \in [Message -> Mails] /\ message[m] \in Mails
      /\ stalled \in [Message -> Stalls] /\ stalled[m] \in Stalls
  BY DEF InboxInv, InboxTypeOK, Mails, Stalls
<1>2. message' = [message EXCEPT ![m] = r]
  BY <1>1 DEF ComesTo
<1>3. stalled' = [stalled EXCEPT ![m] = s] /\ s \in Stalls
  <2>1. CASE x = "job"
    BY <1>1, <2>1 DEF ComesTo
  <2>2. CASE x # "job"
    BY <1>1, <2>2 DEF ComesTo, Stalls
  <2> QED
    BY <2>1, <2>2
<1>4. theRow \in {"none", "PENDING", "SENT", "FAILED"} /\ theStep \in Unsent \cup {"waiting", "call", "store"}
  BY <1>1 DEF Unsent, Mails
<1> HIDE DEF theRow, theStep, s
<1>5. r \in Mails /\ r.kind = message[m].kind /\ r.tries = message[m].tries /\ r.row = theRow /\ r.step = theStep
  BY <1>1, <1>4 DEF Mails
<1> HIDE DEF r
<1> QED
  BY <1>2, <1>3, <1>5 DEF theRow, theStep, s

(* A send that failed waits only when it may be tried again.               *)
LEMMA FailedFits ==
  ASSUME InboxInv, NEW m \in Message, NEW x \in Executor, NEW retryable, SendFailed(m, x, retryable)
  PROVE  \E step \in {"dead", "waiting"} :
           /\ ComesTo(m, x, "FAILED", step)
           /\ step = "waiting" => message[m].tries < MaxSends /\ message[m].kind # "direct"
<1> DEFINE step == IF message[m].kind = "direct" \/ ~retryable \/ message[m].tries = MaxSends
                   THEN "dead" ELSE "waiting"
<1>1. message[m].tries \in 0..MaxSends
  BY DEF InboxInv, InboxTypeOK
<1>2. step \in {"dead", "waiting"} /\ ComesTo(m, x, "FAILED", step)
  BY DEF SendFailed
<1>3. step = "waiting" => message[m].tries < MaxSends /\ message[m].kind # "direct"
  BY <1>1, CommentsAssumption
<1> HIDE DEF step
<1> QED
  BY <1>2, <1>3

(* An execution that comes on keeps the invariant, if a new copy is what   *)
(* it has come from the call with, and only a reply without a row is left  *)
(* to be tried again once it is sent.                                      *)
LEMMA ComingKeeps ==
  ASSUME InboxInv, NEW m \in Message, NEW x \in Executor,
         NEW row \in {"none", "PENDING", "SENT", "FAILED"},
         NEW step \in {"store", "done", "dead", "waiting"}, ComesTo(m, x, row, step),
         StepOf(m, x) \in {"call", "store"},
         step = "waiting" => message[m].tries < MaxSends /\ message[m].kind # "direct",
         copies' \in [Message -> Nat], \A n \in Message \ {m} : copies'[n] = copies[n],
         \/ copies'[m] = copies[m]
         \/ copies'[m] = copies[m] + 1 /\ StepOf(m, x) = "call",
         customer' \in [here : {"none", "live", "removed"}, hidden : BOOLEAN, status : {"OPEN", "RESOLVED"}],
         customer'.here = customer.here,
         copyRow' \in [Message -> {"none", "live", "removed"}],
         lostAnswers' \in 0..MaxLostAnswers, UNCHANGED <<there, page, moderation, connected>>,
         lostAnswers' = 0 =>
           /\ lostAnswers = 0 /\ (step \in {"dead", "waiting"} => copies'[m] = copies[m])
           /\ step = "done" => row = "SENT"
           /\ step \in {"dead", "waiting"} /\ StepOf(m, x) = "store"
                => message[m].row = "none" /\ message[m].kind \in {"direct", "reply"}
  PROVE  InboxInv'
<1>1. PICK r \in Mails, s \in Stalls :
           /\ message' = [message EXCEPT ![m] = r] /\ stalled' = [stalled EXCEPT ![m] = s]
           /\ r.kind = message[m].kind /\ r.tries = message[m].tries
           /\ r.row = IF message[m].row = "none" THEN "none" ELSE row
           /\ r.step = IF x = "job" THEN step ELSE message[m].step
           /\ s = IF x = "job" THEN stalled[m] ELSE IF step = "store" THEN "store" ELSE "over"
  BY ComingTo
<1>2. /\ message[m] \in Mails /\ copies[m] \in Nat /\ copies'[m] \in Nat /\ stalled[m] \in Stalls
      /\ MailFits(message[m], copies[m], stalled[m], customer.here)
      /\ lostAnswers = 0 => MailIsOnce(message[m], copies[m], stalled[m])
  BY CommentsAssumption DEF InboxInv, InboxTypeOK, SendsFit, SentOnce, Mails, Stalls
<1>3. /\ message[m].tries \in 0..MaxSends /\ MaxSends \in Nat
      /\ StepOf(m, x) = IF x = "job" THEN message[m].step ELSE stalled[m]
      /\ x = "job" \/ x = "stalled"
  BY <1>2, CommentsAssumption DEF Mails, StepOf, Executor
<1>4. MailFits(r, copies'[m], s, customer.here)
  <2>1. CASE x = "job"
    BY <1>1, <1>2, <1>3, <2>1 DEF MailFits, One
  <2>2. CASE x = "stalled"
    BY <1>1, <1>2, <1>3, <2>2 DEF MailFits, One
  <2> QED
    BY <1>3, <2>1, <2>2
<1>5. ASSUME lostAnswers' = 0 PROVE MailIsOnce(r, copies'[m], s)
  <2>1. /\ MailIsOnce(message[m], copies[m], stalled[m])
        /\ step \in {"dead", "waiting"} => copies'[m] = copies[m]
        /\ step = "done" => row = "SENT"
        /\ step \in {"dead", "waiting"} /\ StepOf(m, x) = "store"
             => message[m].row = "none" /\ message[m].kind \in {"direct", "reply"}
    BY <1>2, <1>5
  <2>2. CASE x = "job" /\ stalled[m] = "never"
    BY <1>1, <1>2, <1>3, <2>1, <2>2 DEF MailIsOnce, MayGoAgain, One
  <2>3. CASE x = "job" /\ stalled[m] # "never"
    BY <1>1, <1>2, <1>3, <2>1, <2>3 DEF MailIsOnce, MayGoAgain, One
  <2>4. CASE x = "stalled"
    BY <1>1, <1>2, <1>3, <2>1, <2>4 DEF MailIsOnce, MayGoAgain, One
  <2> QED
    BY <1>3, <2>2, <2>3, <2>4
<1> QED
  BY ZenonT(60), <1>1, <1>4, <1>5, MailStep

(* Initially no message has been written.                                  *)
LEMMA InboxInvInit == InboxInit => InboxInv
BY CommentsAssumption
   DEF InboxInit, InboxInv, InboxTypeOK, SendsFit, SentOnce, NoMessage, NoPage, SendKinds, Unsent,
       MailFits, MailIsOnce, MayGoAgain, One

(* One step per action.                                                    *)
LEMMA InboxInvStep ==
  ASSUME InboxInv, [InboxNext]_inboxVars
  PROVE  InboxInv'
<1>0. /\ InboxTypeOK /\ SendsFit /\ SentOnce /\ message \in [Message -> Mails]
      /\ copies \in [Message -> Nat] /\ stalled \in [Message -> Stalls] /\ lostAnswers \in 0..MaxLostAnswers
      /\ copyRow \in [Message -> {"none", "live", "removed"}]
      /\ MaxSends \in Nat \ {0} /\ MaxLostAnswers \in Nat
      /\ customer \in [here : {"none", "live", "removed"}, hidden : BOOLEAN,
                       status : {"OPEN", "RESOLVED"}]
  BY CommentsAssumption DEF InboxInv, InboxTypeOK, Mails, Stalls
<1>m. ASSUME NEW m \in Message
      PROVE  /\ message[m] \in Mails /\ copies[m] \in Nat /\ stalled[m] \in Stalls
             /\ message[m].tries \in 0..MaxSends
             /\ MailFits(message[m], copies[m], stalled[m], customer.here)
             /\ lostAnswers = 0 => MailIsOnce(message[m], copies[m], stalled[m])
  BY <1>0 DEF SendsFit, SentOnce, Mails
<1>s. ASSUME NEW m \in Message, UNCHANGED stalled PROVE stalled' = [stalled EXCEPT ![m] = stalled[m]]
  BY <1>0, <1>s
<1>l. AnswerLost => lostAnswers' \in 0..MaxLostAnswers /\ lostAnswers' # 0
  BY <1>0 DEF AnswerLost
<1>1. ASSUME NEW m \in Message, NEW kind \in SendKinds, Send(m, kind) PROVE InboxInv'
  <2> DEFINE row == IF kind = "comment" THEN "none" ELSE "PENDING"
             step == IF kind = "direct" THEN "call" ELSE "waiting"
             tries == IF kind = "direct" THEN 1 ELSE 0
             r == [kind |-> kind, row |-> row, step |-> step, tries |-> tries]
  <2>0. copies[m] = 0 /\ stalled[m] = "never"
    BY <1>1, <1>m DEF Send, NoMessage, MailFits
  <2>1. /\ row \in {"none", "PENDING", "SENT", "FAILED"} /\ step \in {"call", "waiting"}
        /\ step \in Unsent \cup {"waiting", "call", "store"} /\ tries \in 0..MaxSends
        /\ kind \in SendKinds \cup {"none"} /\ kind # "none"
        /\ step = "call" => tries = 1
        /\ step = "waiting" => tries < MaxSends
        /\ kind = "comment" => row = "none"
        /\ row # "none" => customer.here # "none"
    BY <1>0, <1>1 DEF Send, SendKinds, Unsent
  <2>4. message' = [message EXCEPT ![m] = r]
        /\ UNCHANGED <<customer, there, copies, copyRow, page, moderation, connected, stalled, lostAnswers>>
    BY <1>1 DEF Send, OnlyMessages
  <2> HIDE DEF row, step, tries
  <2>2. r \in Mails /\ r.kind = kind /\ r.row = row /\ r.step = step /\ r.tries = tries
    BY <2>1 DEF Mails
  <2> HIDE DEF r
  <2>3. MailFits(r, copies[m], stalled[m], customer.here) /\ MailIsOnce(r, copies[m], stalled[m])
    BY <2>0, <2>1, <2>2 DEF MailFits, MailIsOnce, One
  <2> QED
    BY ZenonT(60), <1>0, <1>m, <1>s, <2>2, <2>3, <2>4, MailStep
<1>2. ASSUME NEW m \in Message, LoadMessage(m) PROVE InboxInv'
  <2> DEFINE step == IF Deliverable(m) THEN "call" ELSE "done"
             r == [message[m] EXCEPT !.step = step, !.tries = @ + 1]
  <2>1. message[m].step = "waiting" /\ message[m].kind \in {"reply", "comment"}
        /\ UNCHANGED <<customer, there, copies, copyRow, page, moderation, connected, stalled, lostAnswers>>
    BY <1>2 DEF LoadMessage, At, OnlyMessages
  <2>2. message' = [message EXCEPT ![m] = r]
    BY <1>0, <1>2 DEF LoadMessage
  <2>3. step \in {"call", "done"} /\ step \in Unsent \cup {"waiting", "call", "store"}
        /\ message[m].tries + 1 \in 0..MaxSends
    BY <1>0, <1>m, <2>1 DEF Unsent, MailFits
  <2>4. step = "call" /\ message[m].kind = "reply" => message[m].row # "none"
    BY DEF Deliverable
  <2> HIDE DEF step
  <2>5. r \in Mails /\ r.kind = message[m].kind /\ r.row = message[m].row /\ r.step = step
        /\ r.tries = message[m].tries + 1
    BY <1>m, <2>3 DEF Mails
  <2> HIDE DEF r
  <2>6. MailFits(r, copies[m], stalled[m], customer.here)
    BY <1>m, <2>1, <2>3, <2>5 DEF MailFits, One
  <2>7. lostAnswers = 0 => MailIsOnce(r, copies[m], stalled[m])
    BY <1>m, <2>1, <2>3, <2>4, <2>5 DEF MailIsOnce, MayGoAgain, One
  <2> QED
    BY ZenonT(60), <1>0, <1>m, <1>s, <2>1, <2>2, <2>5, <2>6, <2>7, MailStep
<1>3. ASSUME NEW m \in Message, NEW x \in Executor, CallPlatform(m, x) PROVE InboxInv'
  <2>1. StepOf(m, x) = "call" /\ UNCHANGED <<customer, there, copyRow, page, moderation, connected>>
    BY <1>3 DEF CallPlatform, OnlyMessages
  <2>2. /\ message[m].row \in {"none", "PENDING", "SENT", "FAILED"}
        /\ "FAILED" \in {"none", "PENDING", "SENT", "FAILED"}
    BY <1>m DEF Mails
  <2>3. CASE copies' = [copies EXCEPT ![m] = @ + 1]
    <3>1. copies' \in [Message -> Nat] /\ copies'[m] = copies[m] + 1
          /\ \A n \in Message \ {m} : copies'[n] = copies[n]
      BY <1>0, <2>3
    <3>2. CASE ComesTo(m, x, message[m].row, "store") /\ UNCHANGED lostAnswers
      BY <1>0, <2>1, <2>2, <3>1, <3>2, ComingKeeps
    <3>3. CASE AnswerLost /\ SendFailed(m, x, TRUE)
      <4>1. PICK step \in {"dead", "waiting"} :
              /\ ComesTo(m, x, "FAILED", step)
              /\ step = "waiting" => message[m].tries < MaxSends /\ message[m].kind # "direct"
        BY <3>3, FailedFits
      <4> QED
        BY <1>0, <1>l, <2>1, <2>2, <3>1, <3>3, <4>1, ComingKeeps
    <3>4. copies'[m] # copies[m]
      BY <1>m, <3>1
    <3> QED
      BY <1>3, <3>2, <3>3, <3>4 DEF CallPlatform
  <2>4. ASSUME NEW retryable \in BOOLEAN, SendFailed(m, x, retryable), UNCHANGED <<copies, lostAnswers>>
        PROVE  InboxInv'
    <3>1. PICK step \in {"dead", "waiting"} :
            /\ ComesTo(m, x, "FAILED", step)
            /\ step = "waiting" => message[m].tries < MaxSends /\ message[m].kind # "direct"
      BY <2>4, FailedFits
    <3> QED
      BY <1>0, <2>1, <2>2, <2>4, <3>1, ComingKeeps
  <2> QED
    BY <1>3, <2>3, <2>4 DEF CallPlatform
<1>4. ASSUME NEW m \in Message, NEW x \in Executor, StoreSent(m, x) PROVE InboxInv'
  <2>1. StepOf(m, x) = "store" /\ UNCHANGED <<there, copies, page, moderation, connected, lostAnswers>>
    BY <1>4 DEF StoreSent
  <2>2. CASE message[m].kind # "comment" /\ (customer.here = "none" \/ message[m].row = "none")
    <3>1. SendFailed(m, x, TRUE) /\ UNCHANGED <<customer, copyRow>>
      BY <1>4, <2>2 DEF StoreSent
    <3>2. PICK step \in {"dead", "waiting"} :
            /\ ComesTo(m, x, "FAILED", step)
            /\ step = "waiting" => message[m].tries < MaxSends /\ message[m].kind # "direct"
      BY <3>1, FailedFits
    <3>3. message[m].kind # "none"
      BY <1>m, <2>1 DEF MailFits, StepOf
    <3>4. message[m].row = "none" /\ message[m].kind \in {"direct", "reply"}
      BY <1>m, <2>2, <3>3 DEF MailFits, Mails, SendKinds
    <3> QED
      BY <1>0, <2>1, <3>1, <3>2, <3>4, ComingKeeps
  <2>3. CASE ~(message[m].kind # "comment" /\ (customer.here = "none" \/ message[m].row = "none"))
    <3>1. ComesTo(m, x, "SENT", "done")
      BY <1>4, <2>3 DEF StoreSent
    <3>2. /\ copyRow' \in [Message -> {"none", "live", "removed"}] /\ customer'.here = customer.here
          /\ customer' \in [here : {"none", "live", "removed"}, hidden : BOOLEAN,
                            status : {"OPEN", "RESOLVED"}]
      BY <1>0, <1>4, <2>3 DEF StoreSent
    <3> QED
      BY <1>0, <2>1, <3>1, <3>2, ComingKeeps
  <2> QED
    BY <2>2, <2>3
<1>5. ASSUME NEW m \in Message, Stall(m) \/ SenderDies(m) PROVE InboxInv'
  <2>1. /\ message[m].step \in {"call", "store"}
        /\ UNCHANGED <<customer, there, copies, copyRow, page, moderation, connected>>
    BY <1>5 DEF Stall, SenderDies, OnlyMessages
  <2>2. /\ message[m].tries > 0 /\ message[m].tries - 1 \in 0..MaxSends
        /\ message[m].tries - 1 < MaxSends /\ message[m].kind # "none"
    BY <1>0, <1>m, <2>1 DEF MailFits
  <2>3. CASE Again(m)
    <3> DEFINE r == [message[m] EXCEPT !.step = "waiting", !.tries = @ - 1]
    <3>1. message' = [message EXCEPT ![m] = r]
      BY <1>0, <2>3 DEF Again
    <3>2. r \in Mails /\ r.kind = message[m].kind /\ r.row = message[m].row /\ r.step = "waiting"
          /\ r.tries = message[m].tries - 1
      BY <1>m, <2>2 DEF Mails
    <3> HIDE DEF r
    <3>3. stalled[m] = "never"
          /\ \E s \in {"call", "store", "over"} :
               /\ stalled' = [stalled EXCEPT ![m] = s]
               /\ s # "over" => s = message[m].step /\ UNCHANGED lostAnswers
               /\ s = "over" => AnswerLost
      <4>1. message'[m].step = "waiting" /\ message'[m].step # message[m].step
        BY <1>0, <2>1, <3>1, <3>2
      <4>2. CASE Stall(m)
        <5>1. stalled[m] = "never"
          <6>1. ASSUME stalled[m] # "never" PROVE FALSE
            <7>1. message' = [message EXCEPT ![m].tries = MaxSends]
              BY <4>2, <6>1 DEF Stall
            <7> QED
              BY <1>0, <4>1, <7>1
          <6> QED
            BY <6>1
        <5> QED
          BY <2>1, <4>2, <5>1 DEF Stall
      <4>3. CASE SenderDies(m)
        <5>1. stalled[m] = "never"
          <6>1. CASE message[m].kind # "direct" /\ stalled[m] = "never"
            BY <6>1
          <6>2. CASE ~(message[m].kind # "direct" /\ stalled[m] = "never")
            <7>1. message' = [message EXCEPT ![m].step = "dead"]
              BY <4>3, <6>2 DEF SenderDies
            <7> QED
              BY <1>0, <4>1, <7>1
          <6> QED
            BY <6>1, <6>2
        <5>2. message[m].kind # "direct"
          <6>1. ASSUME message[m].kind = "direct" PROVE FALSE
            <7>1. message' = [message EXCEPT ![m].step = "dead"]
              BY <4>3, <6>1 DEF SenderDies
            <7> QED
              BY <1>0, <4>1, <7>1
          <6> QED
            BY <6>1
        <5> QED
          BY <4>3, <5>1, <5>2 DEF SenderDies
      <4> QED
        BY <1>5, <4>2, <4>3
    <3>4. PICK s \in {"call", "store", "over"} :
               /\ stalled' = [stalled EXCEPT ![m] = s]
               /\ s # "over" => s = message[m].step /\ UNCHANGED lostAnswers
               /\ s = "over" => AnswerLost
      BY <3>3
    <3>5. /\ s \in Stalls /\ lostAnswers' \in 0..MaxLostAnswers
          /\ lostAnswers' = 0 => lostAnswers = 0 /\ s = message[m].step
      BY <1>0, <1>l, <3>4 DEF Stalls
    <3>9. /\ MailFits(message[m], copies[m], "never", customer.here) /\ copies[m] \in Nat
          /\ lostAnswers = 0 => MailIsOnce(message[m], copies[m], "never")
          /\ s = "over" \/ s = message[m].step
      BY <1>m, <3>3, <3>4
    <3>6. MailFits(r, copies[m], s, customer.here)
      <4>1. copies[m] + One(message[m].step = "call") <= message[m].tries
            /\ message[m].tries \in 0..MaxSends
        BY <1>m, <3>9 DEF MailFits, One
      <4>2. One(s = "call") <= One(message[m].step = "call") /\ One(s = "call") \in {0, 1}
        BY <3>9 DEF One
      <4>3. One(message[m].step = "call") \in {0, 1} /\ One(r.step = "call") = 0 /\ One(s # "never") = 1
        BY <3>2 DEF One
      <4> HIDE DEF One
      <4>4. copies[m] + One(r.step = "call") + One(s = "call") <= r.tries + One(s # "never")
        BY <3>2, <3>9, <4>1, <4>2, <4>3
      <4> QED
        BY <2>2, <3>2, <3>9, <4>4 DEF MailFits
    <3>7. ASSUME lostAnswers' = 0 PROVE MailIsOnce(r, copies[m], s)
      <4>1. s = message[m].step /\ MailIsOnce(message[m], copies[m], "never")
        BY <3>5, <3>7, <3>9
      <4>2. CASE s = "call"
        <5>1. copies[m] = 0
          BY <3>9, <4>1, <4>2 DEF MailIsOnce, MayGoAgain
        <5> QED
          BY <4>2, <5>1 DEF MailIsOnce, One
      <4>3. CASE s = "store"
        <5>1. copies[m] <= 1
          BY <4>1 DEF MailIsOnce
        <5> QED
          BY <3>9, <4>3, <5>1 DEF MailIsOnce, One
      <4> QED
        BY <2>1, <4>1, <4>2, <4>3
    <3> QED
      BY ZenonT(60), <1>0, <2>1, <3>1, <3>2, <3>4, <3>5, <3>6, <3>7, MailStep
  <2>4. CASE UNCHANGED stalled /\ lostAnswers' \in {lostAnswers, lostAnswers + 1}
             /\ \E t \in {message[m].tries, MaxSends} : \E step \in {message[m].step, "dead"} :
                  /\ message' = [message EXCEPT ![m].tries = t, ![m].step = step]
                  /\ step = "dead" => AnswerLost
                  /\ step # "dead" => UNCHANGED lostAnswers
    <3>1. PICK t \in {message[m].tries, MaxSends} : \E step \in {message[m].step, "dead"} :
                  /\ message' = [message EXCEPT ![m].tries = t, ![m].step = step]
                  /\ step = "dead" => AnswerLost
                  /\ step # "dead" => UNCHANGED lostAnswers
      BY <2>4
    <3>2. PICK step \in {message[m].step, "dead"} :
                  /\ message' = [message EXCEPT ![m].tries = t, ![m].step = step]
                  /\ step = "dead" => AnswerLost
                  /\ step # "dead" => UNCHANGED lostAnswers
      BY <3>1
    <3> DEFINE r == [message[m] EXCEPT !.tries = t, !.step = step]
    <3>3. message' = [message EXCEPT ![m] = r]
      BY <1>0, <3>2
    <3>4. t \in 0..MaxSends /\ t >= message[m].tries /\ step \in Unsent \cup {"waiting", "call", "store"}
      BY <1>0, <1>m, <2>1 DEF Unsent
    <3>5. r \in Mails /\ r.kind = message[m].kind /\ r.row = message[m].row /\ r.step = step /\ r.tries = t
      BY <1>m, <3>4 DEF Mails
    <3> HIDE DEF r
    <3>6. MailFits(r, copies[m], stalled[m], customer.here)
      BY <1>0, <1>m, <2>1, <2>2, <3>4, <3>5 DEF MailFits, One
    <3>7. lostAnswers' \in 0..MaxLostAnswers /\ (lostAnswers' = 0 => lostAnswers = 0 /\ step = message[m].step)
      BY <1>0, <1>l, <2>1, <3>2
    <3>8. lostAnswers' = 0 => MailIsOnce(r, copies[m], stalled[m])
      BY <1>m, <2>1, <3>5, <3>7 DEF MailIsOnce, MayGoAgain, One
    <3>9. stalled[m] \in Stalls /\ stalled' = [stalled EXCEPT ![m] = stalled[m]]
      BY <1>0, <1>m, <1>s, <2>4 DEF InboxInv, InboxTypeOK, Stalls
    <3>10. MailFits(r, copies'[m], stalled[m], customer.here)
           /\ (lostAnswers' = 0 => lostAnswers = 0 /\ MailIsOnce(r, copies'[m], stalled[m]))
      BY <2>1, <3>6, <3>7, <3>8
    <3> HIDE <2>4, <3>6, <3>8
    <3> QED
      BY ZenonT(60), <1>0, <2>1, <3>3, <3>5, <3>7, <3>9, <3>10, MailStep
  <2>5. CASE Stall(m)
    <3>1. UNCHANGED lostAnswers
      BY <2>5 DEF Stall
    <3>2. CASE stalled[m] = "never"
      BY <2>3, <2>5, <3>2 DEF Stall
    <3>3. CASE stalled[m] # "never"
      <4>1. message' = [message EXCEPT ![m].tries = MaxSends] /\ UNCHANGED stalled
        BY <2>5, <3>3 DEF Stall
      <4>2. [message EXCEPT ![m].tries = MaxSends]
              = [message EXCEPT ![m].tries = MaxSends, ![m].step = message[m].step]
        BY <1>0, <1>m DEF Mails
      <4>3. message[m].step # "dead"
        BY <2>1
      <4> QED
        BY <2>4, <3>1, <4>1, <4>2, <4>3
    <3> QED
      BY <3>2, <3>3
  <2>6. CASE SenderDies(m)
    <3>1. AnswerLost
      BY <2>6 DEF SenderDies
    <3>2. CASE message[m].kind # "direct" /\ stalled[m] = "never"
      BY <2>3, <2>6, <3>2 DEF SenderDies
    <3>3. CASE ~(message[m].kind # "direct" /\ stalled[m] = "never")
      <4>1. message' = [message EXCEPT ![m].step = "dead"] /\ UNCHANGED stalled
        BY <2>6, <3>3 DEF SenderDies
      <4>2. [message EXCEPT ![m].step = "dead"]
              = [message EXCEPT ![m].tries = message[m].tries, ![m].step = "dead"]
        BY <1>0, <1>m DEF Mails
      <4> QED
        BY <2>4, <3>1, <4>1, <4>2 DEF AnswerLost
    <3> QED
      BY <3>2, <3>3
  <2> QED
    BY <1>5, <2>5, <2>6
<1>6. CASE UpdateStatus \/ RemoveFromInbox \/ StorePage
  <2>1. /\ UNCHANGED <<there, message, copies, moderation, connected, stalled, lostAnswers>>
        /\ customer.here # "none" => customer'.here # "none"
        /\ page' \in {page, NoPage}
    BY <1>0, <1>6 DEF UpdateStatus, RemoveFromInbox, StorePage, StoreAs, Upserted
  <2>2. customer' \in [here : {"none", "live", "removed"}, hidden : BOOLEAN,
                       status : {"OPEN", "RESOLVED"}]
        /\ copyRow' \in [Message -> {"none", "live", "removed"}]
    <3>1. CASE UpdateStatus
      BY <1>0, <3>1 DEF UpdateStatus
    <3>2. CASE RemoveFromInbox
      BY <1>0, <3>2 DEF RemoveFromInbox
    <3>3. CASE StorePage
      <4>1. page.hidden \in BOOLEAN
        BY <1>0 DEF InboxTypeOK
      <4>2. \A m \in Message : copyRow[m] \in {"none", "live", "removed"}
        BY <1>0
      <4>3. customer' \in [here : {"none", "live", "removed"}, hidden : BOOLEAN, status : {"OPEN", "RESOLVED"}]
        BY <1>0, <3>3, <4>1 DEF StorePage, StoreAs, Upserted
      <4> QED
        BY <3>3, <4>2, <4>3 DEF StorePage, StoreAs, Upserted
    <3> QED
      BY <1>6, <3>1, <3>2, <3>3
  <2>3. page' \in [fetched : BOOLEAN, exists : BOOLEAN, hidden : BOOLEAN, ours : SUBSET Message]
    <3>1. NoPage \in [fetched : BOOLEAN, exists : BOOLEAN, hidden : BOOLEAN, ours : SUBSET Message]
      BY DEF NoPage
    <3> QED
      BY <1>0, <2>1, <3>1 DEF InboxTypeOK
  <2>4. InboxTypeOK'
    BY <1>0, <2>1, <2>2, <2>3 DEF InboxTypeOK
  <2> QED
    BY <1>0, <2>1, <2>4 DEF InboxInv, SendsFit, SentOnce, MailFits
<1>7. CASE StoreModeration
  <2>1. /\ UNCHANGED <<there, copies, page, connected, stalled, lostAnswers>> /\ moderation' = "none"
        /\ moderation # "none"
    BY <1>7 DEF StoreModeration
  <2>2. CASE moderation = "delete"
    <3>1. /\ customer' = [customer EXCEPT !.here = "none"]
          /\ message' = [m \in Message |-> [message[m] EXCEPT !.row = "none"]]
          /\ copyRow' = [m \in Message |-> IF message[m].kind = "comment" THEN copyRow[m] ELSE "none"]
      BY <1>7, <2>2 DEF StoreModeration
    <3>2. \A m \in Message :
            /\ message'[m] \in Mails /\ message'[m].row = "none" /\ message'[m].kind = message[m].kind
            /\ message'[m].step = message[m].step /\ message'[m].tries = message[m].tries
      BY <1>0, <3>1 DEF Mails
    <3>3. message' \in [Message -> Mails]
      BY <3>1, <3>2
    <3>4. customer' \in [here : {"none", "live", "removed"}, hidden : BOOLEAN, status : {"OPEN", "RESOLVED"}]
          /\ copyRow' \in [Message -> {"none", "live", "removed"}]
      BY <1>0, <3>1
    <3>5. InboxTypeOK'
      BY <1>0, <2>1, <3>3, <3>4 DEF InboxTypeOK, Mails
    <3>6. SendsFit'
      BY <1>0, <2>1, <3>2 DEF SendsFit, MailFits
    <3>7. SentOnce'
      <4>1. ASSUME NEW m \in Message, lostAnswers' = 0
            PROVE  MailIsOnce(message'[m], copies'[m], stalled'[m])
        <5>1. MailIsOnce(message[m], copies[m], stalled[m]) /\ copies[m] \in Nat
          BY <1>m, <2>1, <4>1
        <5>2. MayGoAgain(message'[m]) => MayGoAgain(message[m])
          BY <3>2 DEF MayGoAgain
        <5>3. copies'[m] = copies[m] /\ stalled'[m] = stalled[m] /\ message'[m].row # "FAILED"
          BY <2>1, <3>2
        <5> HIDE DEF MayGoAgain
        <5> QED
          BY <5>1, <5>2, <5>3 DEF MailIsOnce, One
      <4> QED
        BY <4>1 DEF SentOnce
    <3> QED
      BY <3>5, <3>6, <3>7 DEF InboxInv
  <2>3. CASE moderation # "delete"
    <3>1. /\ UNCHANGED <<message, copyRow>> /\ customer'.here = customer.here
          /\ customer' \in [here : {"none", "live", "removed"}, hidden : BOOLEAN, status : {"OPEN", "RESOLVED"}]
      BY <1>0, <1>7, <2>3 DEF StoreModeration
    <3> QED
      BY <1>0, <2>1, <3>1 DEF InboxInv, InboxTypeOK, SendsFit, SentOnce
  <2> QED
    BY <2>2, <2>3
<1>8. CASE (\E how \in {"hide", "show", "delete"} : Moderate(how)) \/ FetchPage \/ Disconnects
           \/ UNCHANGED inboxVars
  <2>1. UNCHANGED <<customer, message, copies, copyRow, stalled, lostAnswers>>
    BY <1>8 DEF Moderate, FetchPage, Disconnects, inboxVars
  <2>2. /\ there' \in [exists : BOOLEAN, hidden : BOOLEAN]
        /\ page' \in [fetched : BOOLEAN, exists : BOOLEAN, hidden : BOOLEAN, ours : SUBSET Message]
        /\ moderation' \in {"none", "hide", "show", "delete"} /\ connected' \in BOOLEAN
    <3>1. ASSUME NEW how \in {"hide", "show", "delete"}, Moderate(how)
          PROVE  there' \in [exists : BOOLEAN, hidden : BOOLEAN] /\ moderation' = how
                 /\ UNCHANGED <<page, connected>>
      <4>1. moderation' = how /\ UNCHANGED <<page, connected>>
        BY <3>1 DEF Moderate
      <4>2. \/ there' = [there EXCEPT !.exists = FALSE]
            \/ there' = [there EXCEPT !.hidden = TRUE]
            \/ there' = [there EXCEPT !.hidden = (how = "hide")]
        BY <3>1 DEF Moderate
      <4>3. there \in [exists : BOOLEAN, hidden : BOOLEAN]
        BY <1>0 DEF InboxTypeOK
      <4>4. there' \in [exists : BOOLEAN, hidden : BOOLEAN]
        BY <4>2, <4>3
      <4> QED
        BY <4>1, <4>4
    <3>2. CASE FetchPage
      BY <1>0, <3>2 DEF FetchPage, InboxTypeOK
    <3>3. CASE Disconnects \/ UNCHANGED inboxVars
      BY <1>0, <3>3 DEF Disconnects, inboxVars, InboxTypeOK
    <3> QED
      BY <1>0, <1>8, <3>1, <3>2, <3>3 DEF InboxTypeOK
  <2>3. InboxTypeOK'
    BY <1>0, <2>1, <2>2 DEF InboxTypeOK
  <2> QED
    BY <1>0, <2>1, <2>3 DEF InboxInv, SendsFit, SentOnce, MailFits
<1> QED
  BY <1>1, <1>2, <1>3, <1>4, <1>5, <1>6, <1>7, <1>8 DEF InboxNext

(* Hence it holds throughout.                                              *)
LEMMA InboxInvHolds == InboxSpec => []InboxInv
BY InboxInvInit, InboxInvStep, PTL DEF InboxSpec

(* InboxTypeOK, for every value of the constants.                          *)
THEOREM InboxTypesHold == InboxSpec => []InboxTypeOK
<1>1. InboxInv => InboxTypeOK
  BY DEF InboxInv
<1> QED
  BY <1>1, InboxInvHolds, PTL

(* InboxTellsTheTruth, for every value of the constants: however sends,    *)
(* retries, crashes, page fetches, removals and disconnects interleave, no *)
(* customer reads a message twice and no message marked as failed is on    *)
(* the platform, unless an answer was lost or a worker stalled; one stall  *)
(* or many, the customer reads it twice at most.                           *)
THEOREM CustomersReadOnce == InboxSpec => []InboxTellsTheTruth
<1>1. InboxInv => InboxTellsTheTruth
  BY DEF InboxInv, InboxTypeOK, SentOnce, InboxTellsTheTruth, NoMessageTwice, FailedIsUnseen,
     Unsent, MailIsOnce, One
<1> QED
  BY <1>1, InboxInvHolds, PTL

(* RemovedStaysRemoved: no step brings a comment back that was removed     *)
(* from the inbox, not even the store of a page that was fetched before.   *)
THEOREM RemovedIsKept == InboxSpec => RemovedStaysRemoved
<1>1. ASSUME InboxTypeOK, [InboxNext]_inboxVars, customer.here = "removed" PROVE customer'.here # "live"
  <2>1. CASE \E m \in Message, x \in Executor : StoreSent(m, x)
    BY <1>1, <2>1 DEF StoreSent, InboxTypeOK
  <2>2. CASE UpdateStatus \/ RemoveFromInbox
    BY <1>1, <2>2 DEF UpdateStatus, RemoveFromInbox
  <2>3. CASE StoreModeration
    BY <1>1, <2>3 DEF StoreModeration, InboxTypeOK
  <2>4. CASE StorePage
    BY <1>1, <2>4 DEF StorePage, StoreAs, Upserted
  <2>5. CASE UNCHANGED customer
    BY <1>1, <2>5
  <2> QED
    BY <1>1, <2>1, <2>2, <2>3, <2>4, <2>5
       DEF InboxNext, inboxVars, Send, LoadMessage, CallPlatform, Stall, SenderDies, OnlyMessages, Moderate,
           FetchPage, Disconnects
<1>2. InboxTypeOK /\ [InboxNext]_inboxVars => [customer.here = "removed" => customer'.here # "live"]_inboxVars
  BY <1>1
<1> QED
  BY <1>2, InboxTypesHold, PTL DEF InboxSpec, RemovedStaysRemoved
-----------------------------------------------------------------------------
(* For any number of browsers, passwords and reset tokens: the types, and  *)
(* that a change of the password leaves no earlier secret in force.        *)

Visits == [doing : {"none", "login", "forgot", "reset", "change"},
           verified : 0..MaxPasswords, token : 0..MaxResets]

(* The requests under way; one that resets the password has a token.       *)
VisitsTyped ==
  /\ visit \in [Browser -> Visits]
  /\ \A b \in Browser : visit[b].doing = "reset" => visit[b].token # 0

(* A token that has set a password was issued and is used up.  This is     *)
(* what ResetTokenWorksOnce rests on: a used token stays used, also when   *)
(* forgotPassword marks the others.                                        *)
UsedTokensAreSpent ==
  \A m \in 2..password : changedBy[m] # 0 => changedBy[m] <= issued /\ reset[changedBy[m]]

(* The inductive invariant.                                                *)
SessionsInv ==
  /\ SessionsTypeOK /\ VisitsTyped /\ UsedTokensAreSpent
  /\ SessionsEndWithPassword /\ ResetTokenWorksOnce

(* After the registration there is one password and no token.              *)
LEMMA SessionsInvInit == SessionsInit => SessionsInv
BY SessionsAssumption
   DEF SessionsInit, SessionsInv, SessionsTypeOK, VisitsTyped, Visits, NoVisit,
       UsedTokensAreSpent, SessionsEndWithPassword, ResetTokenWorksOnce

(* A request that begins with what is in force now fits the types.         *)
LEMMA VisitStarts ==
  ASSUME SessionsTypeOK, VisitsTyped, NEW b \in Browser, NEW v \in Visits, StartVisit(b, v),
         v.doing # "none", v.doing = "reset" => v.token # 0,
         v.verified <= password, v.token <= issued,
         UNCHANGED <<password, session, issued, changedBy, late>>,
         reset' \in [1..MaxResets -> BOOLEAN]
  PROVE  SessionsTypeOK' /\ VisitsTyped'
<1> USE DEF VisitsTyped, Visits, StartVisit
<1>1. \A x \in Browser : visit'[x] = IF x = b THEN v ELSE visit[x]
  OBVIOUS
<1>2. VisitsTyped'
  BY <1>1
<1>3. \A x \in Browser : /\ visit'[x].verified \in 0..password /\ visit'[x].token \in 0..issued
                         /\ (visit'[x].doing = "none") => (visit'[x] = NoVisit)
  BY <1>1 DEF SessionsTypeOK
<1> QED
  BY <1>2, <1>3 DEF SessionsTypeOK

(* The types are kept by every step.                                       *)
LEMMA SessionsTypesStep ==
  ASSUME SessionsTypeOK, VisitsTyped, [SessionsNext]_sessionVars
  PROVE  SessionsTypeOK' /\ VisitsTyped'
<1>0. /\ password \in 1..MaxPasswords /\ password \in 0..MaxPasswords /\ issued \in 0..MaxResets
      /\ MaxPasswords \in Nat /\ MaxResets \in Nat /\ reset \in [1..MaxResets -> BOOLEAN]
      /\ \A r \in 1..MaxResets : r \in 0..MaxResets
  BY SessionsAssumption DEF SessionsTypeOK
<1>a. NoVisit \in Visits /\ NoVisit.doing = "none" /\ NoVisit.verified = 0 /\ NoVisit.token = 0
  BY <1>0 DEF Visits, NoVisit
<1>1. CASE ExpireOthers
  <2> DEFINE v == [NoVisit EXCEPT !.doing = "forgot"]
  <2>1. v \in Visits
    BY <1>0, <1>a DEF Visits
  <2>3. v.doing = "forgot" /\ v.verified = 0 /\ v.token = 0
    BY <1>a DEF Visits
  <2>2. (\E b \in Browser : StartVisit(b, v)) /\ reset' \in [1..MaxResets -> BOOLEAN]
    BY <1>0, <1>1 DEF ExpireOthers
  <2> HIDE DEF v
  <2> QED
    BY <1>0, <1>1, <2>1, <2>2, <2>3, VisitStarts DEF ExpireOthers
<1>2. ASSUME NEW b \in Browser, Verify(b) PROVE SessionsTypeOK' /\ VisitsTyped'
  <2> DEFINE v == [NoVisit EXCEPT !.doing = "login", !.verified = password]
  <2>1. v \in Visits
    BY <1>0, <1>a DEF Visits
  <2>3. v.doing = "login" /\ v.verified = password /\ v.token = 0
    BY <1>a DEF Visits
  <2>2. StartVisit(b, v)
    BY <1>2 DEF Verify
  <2> HIDE DEF v
  <2> QED
    BY <1>0, <1>2, <2>1, <2>2, <2>3, VisitStarts DEF Verify
<1>3. ASSUME NEW b \in Browser, VerifyChange(b) PROVE SessionsTypeOK' /\ VisitsTyped'
  <2> DEFINE v == [NoVisit EXCEPT !.doing = "change", !.verified = password]
  <2>1. v \in Visits
    BY <1>0, <1>a DEF Visits
  <2>3. v.doing = "change" /\ v.verified = password /\ v.token = 0
    BY <1>a DEF Visits
  <2>2. StartVisit(b, v)
    BY <1>3 DEF VerifyChange
  <2> HIDE DEF v
  <2> QED
    BY <1>0, <1>3, <2>1, <2>2, <2>3, VisitStarts DEF VerifyChange
<1>4. ASSUME NEW b \in Browser, NEW r \in 1..MaxResets, OpenReset(b, r)
      PROVE  SessionsTypeOK' /\ VisitsTyped'
  <2> DEFINE v == [NoVisit EXCEPT !.doing = "reset", !.token = r]
  <2>1. v \in Visits
    BY <1>0, <1>a DEF Visits
  <2>3. v.doing = "reset" /\ v.verified = 0 /\ v.token = r
    BY <1>a DEF Visits
  <2>2. StartVisit(b, v)
    BY <1>4 DEF OpenReset
  <2> HIDE DEF v
  <2> QED
    BY <1>0, <1>4, <2>1, <2>2, <2>3, VisitStarts DEF OpenReset
<1> USE SessionsAssumption DEF SessionsTypeOK, VisitsTyped, Visits, NoVisit
<1>5. ASSUME NEW b \in Browser, CreateSession(b) PROVE SessionsTypeOK' /\ VisitsTyped'
  BY <1>5 DEF CreateSession, EndVisit
<1>6. ASSUME NEW b \in Browser, Logout(b) PROVE SessionsTypeOK' /\ VisitsTyped'
  BY <1>6 DEF Logout
<1>7. ASSUME NEW b \in Browser, CreateReset(b) PROVE SessionsTypeOK' /\ VisitsTyped'
  BY <1>7 DEF CreateReset, EndVisit
<1>8. ASSUME NEW b \in Browser, ResetPassword(b) PROVE SessionsTypeOK' /\ VisitsTyped'
  <2>1. UNCHANGED issued /\ late' \subseteq Browser
    BY <1>8 DEF ResetPassword, NewPassword
  <2>2. \/ UNCHANGED <<password, session, reset, changedBy>>
        \/ /\ password' = password + 1 /\ password < MaxPasswords
           /\ changedBy' = [changedBy EXCEPT ![password + 1] = visit[b].token]
           /\ reset' = [reset EXCEPT ![visit[b].token] = TRUE]
           /\ session' = [x \in Browser |-> 0]
    BY <1>8 DEF ResetPassword, NewPassword
  <2>3. visit' = [visit EXCEPT ![b] = NoVisit]
    BY <1>8 DEF ResetPassword, EndVisit
  <2>4. visit[b].token \in 0..MaxResets
    OBVIOUS
  <2>5. CASE UNCHANGED <<password, session, reset, changedBy>>
    BY <2>1, <2>3, <2>5
  <2>6. CASE /\ password' = password + 1 /\ password < MaxPasswords
             /\ changedBy' = [changedBy EXCEPT ![password + 1] = visit[b].token]
             /\ reset' = [reset EXCEPT ![visit[b].token] = TRUE]
             /\ session' = [x \in Browser |-> 0]
    <3>1. password' \in 1..MaxPasswords /\ password <= password'
      BY <2>6
    <3>2. session' \in [Browser -> 0..MaxPasswords]
      BY <2>6
    <3>3. reset' \in [1..MaxResets -> BOOLEAN]
      BY <2>6, Zenon
    <3>4. changedBy' \in [1..MaxPasswords -> 0..MaxResets]
      BY <2>4, <2>6
    <3>5. VisitsTyped'
      BY <2>3
    <3>6. \A x \in Browser : /\ visit'[x].verified \in 0..password' /\ visit'[x].token \in 0..issued'
                             /\ (visit'[x].doing = "none") => (visit'[x] = NoVisit)
      BY <2>1, <2>3, <3>1
    <3>7. issued' \in 0..MaxResets
      BY <2>1
    <3> QED
      BY <2>1, <3>1, <3>2, <3>3, <3>4, <3>5, <3>6, <3>7, Zenon
  <2> QED
    BY <2>2, <2>5, <2>6
<1>9. ASSUME NEW b \in Browser, ChangePassword(b) PROVE SessionsTypeOK' /\ VisitsTyped'
  BY <1>9 DEF ChangePassword, EndVisit, NewPassword
<1>10. CASE UNCHANGED sessionVars
  BY <1>10 DEF sessionVars
<1> QED
  BY <1>1, <1>2, <1>3, <1>4, <1>5, <1>6, <1>7, <1>8, <1>9, <1>10 DEF SessionsNext

(* Only a reset and a change touch the passwords and what set them.        *)
LEMMA PasswordSteps ==
  ASSUME SessionsTypeOK, VisitsTyped, [SessionsNext]_sessionVars
  PROVE  \/ UNCHANGED <<password, changedBy>>
         \/ \E b \in Browser : ResetPassword(b) \/ ChangePassword(b)
BY DEF SessionsNext, sessionVars, ExpireOthers, Verify, CreateSession, Logout, CreateReset,
       VerifyChange, OpenReset

(* Spent tokens stay spent, and none sets a second password.               *)
LEMMA TokensStep ==
  ASSUME SessionsInv, [SessionsNext]_sessionVars
  PROVE  UsedTokensAreSpent' /\ ResetTokenWorksOnce'
<1> USE SessionsAssumption DEF SessionsInv, SessionsTypeOK, VisitsTyped, Visits
<1>1. ASSUME NEW b \in Browser, ResetPassword(b)
      PROVE  UsedTokensAreSpent' /\ ResetTokenWorksOnce'
  <2> DEFINE r == visit[b].token
  <2>1. r \in 1..MaxResets /\ r <= issued
    BY <1>1 DEF ResetPassword
  <2>2. CASE UNCHANGED <<password, session, reset, issued, changedBy, late>>
    BY <2>2 DEF UsedTokensAreSpent, ResetTokenWorksOnce
  <2>3. CASE /\ ~reset[r] /\ NewPassword(r) /\ reset' = [reset EXCEPT ![r] = TRUE]
             /\ UNCHANGED issued
    <3>1. /\ password' = password + 1 /\ changedBy'[password + 1] = r
          /\ \A m \in 2..password : changedBy'[m] = changedBy[m] /\ changedBy[m] # r
          /\ reset'[r] /\ \A t \in 1..MaxResets : reset[t] => reset'[t]
      BY <2>1, <2>3 DEF NewPassword, UsedTokensAreSpent
    <3>2. \A m \in 2..password' : m \in 2..password \/ m = password + 1
      BY <3>1
    <3>3. UsedTokensAreSpent'
      <4> SUFFICES ASSUME NEW m \in 2..password', changedBy'[m] # 0
                   PROVE  changedBy'[m] <= issued /\ reset'[changedBy'[m]]
        BY <2>3 DEF UsedTokensAreSpent
      <4>1. CASE m = password + 1
        BY <2>1, <3>1, <4>1
      <4>2. CASE m \in 2..password
        <5>1. /\ changedBy'[m] = changedBy[m] /\ changedBy[m] \in 1..MaxResets
              /\ changedBy[m] <= issued /\ reset[changedBy[m]]
          <6>1. m \in 1..MaxPasswords
            BY <4>2
          <6>2. changedBy[m] \in 0..MaxResets
            BY <6>1
          <6> QED
            BY <3>1, <4>2, <6>2 DEF UsedTokensAreSpent
        <5> QED
          BY <3>1, <5>1
      <4> QED
        BY <3>2, <4>1, <4>2
    <3>4. ResetTokenWorksOnce'
      BY <3>1, <3>2 DEF ResetTokenWorksOnce
    <3> QED
      BY <3>3, <3>4
  <2> QED
    BY <1>1, <2>2, <2>3 DEF ResetPassword
<1>2. ASSUME NEW b \in Browser, ChangePassword(b)
      PROVE  UsedTokensAreSpent' /\ ResetTokenWorksOnce'
  <2>1. /\ password' = password + 1 /\ changedBy'[password + 1] = 0
        /\ \A m \in 2..password : changedBy'[m] = changedBy[m]
        /\ UNCHANGED <<reset, issued>>
    BY <1>2 DEF ChangePassword, NewPassword
  <2>2. \A m \in 2..password' : m \in 2..password \/ m = password + 1
    BY <2>1
  <2>3. UsedTokensAreSpent'
    BY <2>1, <2>2 DEF UsedTokensAreSpent
  <2>4. ResetTokenWorksOnce'
    <3> SUFFICES ASSUME NEW m \in 2..password', NEW n \in 2..password',
                        changedBy'[m] = changedBy'[n], changedBy'[m] # 0
                 PROVE  m = n
      BY DEF ResetTokenWorksOnce
    <3>1. m \in 2..password /\ n \in 2..password
      BY <2>1, <2>2
    <3> QED
      BY <2>1, <3>1 DEF ResetTokenWorksOnce
  <2> QED
    BY <2>3, <2>4
<1>3. CASE UNCHANGED <<password, changedBy>>
  <2>1. /\ issued' \in Nat /\ issued <= issued'
        /\ \A t \in 1..MaxResets : reset[t] /\ t <= issued => reset'[t]
    <3>1. CASE \E b \in Browser : ResetPassword(b)
      BY <3>1, <1>3 DEF ResetPassword, NewPassword
    <3>2. CASE ExpireOthers
      BY <3>2 DEF ExpireOthers
    <3>3. CASE \E b \in Browser : CreateReset(b)
      BY <3>3 DEF CreateReset
    <3>4. CASE UNCHANGED <<reset, issued>>
      BY <3>4
    <3> QED
      BY <3>1, <3>2, <3>3, <3>4
      DEF SessionsNext, sessionVars, Verify, CreateSession, Logout, VerifyChange, OpenReset,
          ChangePassword
  <2>2. UsedTokensAreSpent'
    <3> SUFFICES ASSUME NEW m \in 2..password, changedBy[m] # 0
                 PROVE  changedBy[m] <= issued' /\ reset'[changedBy[m]]
      BY <1>3 DEF UsedTokensAreSpent
    <3>1. changedBy[m] \in 1..MaxResets /\ changedBy[m] <= issued /\ reset[changedBy[m]]
      <4>1. m \in 1..MaxPasswords
        OBVIOUS
      <4>2. changedBy[m] \in 0..MaxResets
        BY <4>1
      <4> QED
        BY <4>2 DEF UsedTokensAreSpent
    <3> QED
      BY <2>1, <3>1
  <2>3. ResetTokenWorksOnce'
    BY <1>3 DEF ResetTokenWorksOnce
  <2> QED
    BY <2>2, <2>3
<1> QED
  BY <1>1, <1>2, <1>3, PasswordSteps

(* A session that outlives its password was stored after the change.       *)
LEMMA SessionsEnd ==
  ASSUME SessionsInv, [SessionsNext]_sessionVars
  PROVE  SessionsEndWithPassword'
<1> USE DEF SessionsInv, SessionsTypeOK, SessionsEndWithPassword
<1>1. ASSUME NEW b \in Browser, CreateSession(b) PROVE SessionsEndWithPassword'
  BY <1>1 DEF CreateSession
<1>2. ASSUME NEW b \in Browser, Logout(b) PROVE SessionsEndWithPassword'
  BY <1>2 DEF Logout
<1>3. ASSUME NEW b \in Browser, ResetPassword(b) PROVE SessionsEndWithPassword'
  BY <1>3 DEF ResetPassword, NewPassword
<1>4. ASSUME NEW b \in Browser, ChangePassword(b) PROVE SessionsEndWithPassword'
  BY <1>4 DEF ChangePassword, NewPassword
<1>5. CASE UNCHANGED <<password, session, late>>
  BY <1>5
<1> QED
  BY <1>1, <1>2, <1>3, <1>4, <1>5
  DEF SessionsNext, sessionVars, ExpireOthers, Verify, CreateReset, VerifyChange, OpenReset

(* The invariant is kept by every step.                                    *)
LEMMA SessionsInvStep == SessionsInv /\ [SessionsNext]_sessionVars => SessionsInv'
BY SessionsTypesStep, TokensStep, SessionsEnd DEF SessionsInv

(* The sessions keep their types.                                          *)
THEOREM SessionsAreTyped == SessionsSpec => []SessionsTypeOK
<1>1. SessionsInv => SessionsTypeOK
  BY DEF SessionsInv
<1> QED
  BY <1>1, SessionsInvInit, SessionsInvStep, PTL DEF SessionsSpec

(* After a change or a reset no earlier password keeps a session alive,    *)
(* but one whose login had compared it before and was stored after, and a  *)
(* reset token sets one password, in however many forms it is open.        *)
THEOREM OldSecretsStayDead == SessionsSpec => []OldSecretsAreDead
<1>1. SessionsInv => OldSecretsAreDead
  BY DEF SessionsInv, OldSecretsAreDead
<1> QED
  BY <1>1, SessionsInvInit, SessionsInvStep, PTL DEF SessionsSpec
-----------------------------------------------------------------------------
(* For any number of people, requests and invitations: a workspace has one *)
(* owner, its founder, and everybody else came by invitation.  The guards  *)
(* decide on roles that may be outdated when the rows are written; what    *)
(* does not go out of date is that nobody but the founder outranks ADMIN.  *)

Rows == [email : Person \cup {"none"}, role : Roles \cup {"none"},
         status : {"none", "PENDING", "ACCEPTED", "EXPIRED"}, pending : BOOLEAN, old : BOOLEAN]
Works == [kind : {"none", "invite", "join", "close", "change", "remove"},
          who : {"none"}, about : Person \cup {"none"}, give : Roles \cup {"none"},
          row : Nat, old : BOOLEAN]

TeamTyped ==
  /\ role \in [Person -> Roles \cup {"none"}] /\ invites \in 0..MaxInvites
  /\ invite \in [Row -> Rows] /\ teamwork \in [TeamRequest -> Works]
  /\ \A i \in Row : (invite[i].status = "none") = (i > invites)

(* What a request still believes when it writes: it makes nobody an owner, *)
(* it is not about the founder, and it knows whose invitation it read.     *)
WorkIsSound ==
  \A q \in TeamRequest : LET w == teamwork[q] IN
    /\ w.row \in 0..invites
    /\ w.kind # "none" => w.about \in Person
    /\ w.kind \in {"invite", "join", "close", "change"} => w.give \in Roles \ {"OWNER"}
    /\ w.kind \in {"change", "remove"} => w.about # Founder
    /\ w.kind \in {"join", "close"} => w.row # 0 /\ invite[w.row].email = w.about

(* Nobody is invited as an owner.                                          *)
NoOwnerInvited == \A i \in Row : i <= invites => invite[i].role \in Roles \ {"OWNER"}

(* Every invitation is addressed to somebody.                              *)
AddressedToPeople == \A i \in Row : i <= invites => invite[i].email \in Person

(* The inductive invariant.                                                *)
TeamInv ==
  TeamTyped /\ WorkIsSound /\ NoOwnerInvited /\ AddressedToPeople /\ MembershipHolds

(* The five roles.                                                         *)
LEMMA TheRoles == Roles = {"VIEWER", "ANALYST", "EDITOR", "ADMIN", "OWNER"}
BY DEF Roles, Rank

(* Who is outranked is not an owner.                                       *)
LEMMA OutrankedIsNoOwner == \A a, b \in Roles : Rank[a] < Rank[b] => a # "OWNER"
BY TheRoles DEF Rank

(* One owner, said of each person.                                         *)
LEMMA OneOwnerEach == OneOwner <=> \A p \in Person : role[p] = "OWNER" <=> p = Founder
BY TeamAssumption DEF OneOwner

(* The founder begins alone.                                               *)
LEMMA TeamInvInit == TeamInit => TeamInv
<1> SUFFICES ASSUME TeamInit PROVE TeamInv
  OBVIOUS
<1> USE TeamAssumption, TheRoles DEF TeamInit, NoInvite, NoWork, Row
<1>1. TeamTyped /\ WorkIsSound /\ NoOwnerInvited /\ AddressedToPeople
  BY DEF TeamTyped, WorkIsSound, NoOwnerInvited, AddressedToPeople, Rows, Works
<1>2. MembershipHolds
  BY OneOwnerEach DEF MembershipHolds, MembersWereInvited, NobodyIsLockedOut
<1> QED
  BY <1>1, <1>2 DEF TeamInv

(* A request that is read while its caller outranks whom it is about.      *)
LEMMA ReadStep ==
  ASSUME TeamInv, NEW q \in TeamRequest, NEW w \in Works, Begin(q, w),
         UNCHANGED <<role, invite, invites>>,
         w.row \in 0..invites, w.about \in Person,
         w.kind \in {"invite", "join", "close", "change"} => w.give \in Roles \ {"OWNER"},
         w.kind \in {"change", "remove"} => w.about # Founder,
         w.kind \in {"join", "close"} => w.row # 0 /\ invite[w.row].email = w.about
  PROVE  TeamInv'
<1>1. /\ teamwork' \in [TeamRequest -> Works]
      /\ \A x \in TeamRequest : teamwork'[x] = IF x = q THEN w ELSE teamwork[x]
  BY DEF TeamInv, TeamTyped, Begin
<1>2. TeamTyped'
  BY <1>1 DEF TeamInv, TeamTyped
<1>3. WorkIsSound'
  BY <1>1 DEF TeamInv, WorkIsSound
<1>4. NoOwnerInvited' /\ AddressedToPeople' /\ MembershipHolds'
  BY DEF TeamInv, NoOwnerInvited, AddressedToPeople, MembershipHolds, OneOwner,
         MembersWereInvited, NobodyIsLockedOut
<1> QED
  BY <1>2, <1>3, <1>4 DEF TeamInv

(* The reads: what the guards saw is enough for the writes.                *)
LEMMA ReadsAreSound ==
  ASSUME TeamInv, NEW q \in TeamRequest, NEW who \in Person, NEW p \in Person, NEW give \in Offered
  PROVE  /\ InviteRead(q, who, p, give) => TeamInv'
         /\ ChangeRoleRead(q, who, p, give) => TeamInv'
<1>1. /\ role[who] \in Roles \cup {"none"} /\ role[p] \in Roles \cup {"none"} /\ give \in Roles
      /\ invites \in Nat /\ p \in Person \cup {"none"} /\ give \in Roles \cup {"none"}
      /\ \A x \in Person : role[x] = "OWNER" <=> x = Founder
  BY TeamAssumption, TheRoles, OneOwnerEach DEF TeamInv, TeamTyped, MembershipHolds
<1>2. /\ NoWork \in Works /\ NoWork.row = 0
      /\ NoWork.kind = "none"
  BY DEF Works, NoWork
<1>3. ASSUME InviteRead(q, who, p, give) PROVE TeamInv'
  <2>1. PICK i \in IF Pending(p) = {} THEN {0} ELSE Pending(p) :
          Begin(q, [NoWork EXCEPT !.kind = "invite", !.about = p, !.give = give, !.row = i,
                                  !.old = IF i = 0 THEN FALSE ELSE invite[i].old])
    BY <1>3 DEF InviteRead
  <2>2. i \in 0..invites /\ i \in Nat /\ (i # 0 => invite[i].old \in BOOLEAN)
    BY <1>1, TeamAssumption DEF Pending, TeamInv, TeamTyped, Row, Rows
  <2>3. (IF i = 0 THEN FALSE ELSE invite[i].old) \in BOOLEAN
    BY <2>2
  <2> DEFINE old == IF i = 0 THEN FALSE ELSE invite[i].old
             w == [NoWork EXCEPT !.kind = "invite", !.about = p, !.give = give, !.row = i, !.old = old]
  <2>4. Begin(q, w)
    BY <2>1
  <2>5. old \in BOOLEAN
    BY <2>3
  <2> HIDE DEF old
  <2>6. w \in Works
    BY <1>1, <1>2, <2>2, <2>5 DEF Works
  <2>7. w.kind = "invite" /\ w.about = p /\ w.give = give /\ w.row = i
    BY <1>2 DEF Works
  <2>8. give # "OWNER" /\ UNCHANGED <<role, invite, invites>>
    BY <1>1, <1>3, OutrankedIsNoOwner, TheRoles DEF InviteRead, CanInvite, Rank
  <2> HIDE DEF w
  <2> QED
    BY <1>1, <2>2, <2>4, <2>6, <2>7, <2>8, ReadStep
<1>4. ASSUME ChangeRoleRead(q, who, p, give) PROVE TeamInv'
  <2> DEFINE w == [NoWork EXCEPT !.kind = "change", !.about = p, !.give = give]
  <2>1. Begin(q, w) /\ UNCHANGED <<role, invite, invites>>
    BY <1>4 DEF ChangeRoleRead
  <2>2. w \in Works
    BY <1>1, <1>2 DEF Works
  <2>3. w.kind = "change" /\ w.about = p /\ w.give = give /\ w.row = 0
    BY <1>2 DEF Works
  <2>4. role[who] \in Roles /\ role[p] \in Roles
    BY <1>1, <1>4 DEF ChangeRoleRead
  <2>5. p # Founder /\ give # "OWNER"
    BY <1>1, <1>4, <2>4, OutrankedIsNoOwner DEF ChangeRoleRead, CanAssign
  <2> HIDE DEF w
  <2> QED
    BY <1>1, <2>1, <2>2, <2>3, <2>5, ReadStep
<1> QED
  BY <1>3, <1>4

(* removeMember's read.                                                    *)
LEMMA RemoveIsSound ==
  ASSUME TeamInv, NEW q \in TeamRequest, NEW who \in Person, NEW p \in Person, RemoveRead(q, who, p)
  PROVE  TeamInv'
<1>1. /\ role[who] \in Roles \cup {"none"} /\ role[p] \in Roles \cup {"none"} /\ invites \in Nat
      /\ p \in Person \cup {"none"} /\ \A x \in Person : role[x] = "OWNER" <=> x = Founder
  BY TeamAssumption, OneOwnerEach DEF TeamInv, TeamTyped, MembershipHolds
<1>2. NoWork \in Works /\ NoWork.row = 0 /\ NoWork.kind = "none"
  BY DEF Works, NoWork
<1> DEFINE w == [NoWork EXCEPT !.kind = "remove", !.about = p]
<1>3. Begin(q, w) /\ UNCHANGED <<role, invite, invites>>
  BY DEF RemoveRead
<1>4. w \in Works
  BY <1>1, <1>2 DEF Works
<1>5. w.kind = "remove" /\ w.about = p /\ w.row = 0
  BY <1>2 DEF Works
<1>6. role[who] \in Roles /\ role[p] \in Roles
  BY <1>1 DEF RemoveRead
<1>7. p # Founder
  BY <1>1, <1>6, OutrankedIsNoOwner DEF RemoveRead, CanRemove
<1> HIDE DEF w
<1> QED
  BY <1>1, <1>3, <1>4, <1>5, <1>7, ReadStep

(* acceptInvitation begins with the row it has found.                      *)
LEMMA AcceptIsSound ==
  ASSUME TeamInv, NEW q \in TeamRequest, NEW i \in Row, AcceptRead(q, i)
  PROVE  TeamInv'
<1>1. /\ invite[i] \in Rows /\ i \in 1..invites /\ i \in Nat /\ i # 0
      /\ invite[i].role \in Roles \ {"OWNER"} /\ invite[i].email \in Person \cup {"none"}
  BY TeamAssumption DEF TeamInv, TeamTyped, NoOwnerInvited, AcceptRead, Row, Rows
<1>2. NoWork \in Works
  BY DEF Works, NoWork
<1> DEFINE kind == IF role[invite[i].email] = "none" THEN "join" ELSE "close"
           w == [NoWork EXCEPT !.kind = kind, !.about = invite[i].email,
                               !.give = invite[i].role, !.row = i]
<1>3. Begin(q, w) /\ UNCHANGED <<role, invite, invites>>
  BY DEF AcceptRead
<1>4. kind \in {"join", "close"}
  OBVIOUS
<1> HIDE DEF kind
<1>5. w \in Works
  BY <1>1, <1>2, <1>4 DEF Works
<1>6. w.kind = kind /\ w.about = invite[i].email /\ w.give = invite[i].role /\ w.row = i
  BY <1>2 DEF Works
<1>7. invite[i].email \in Person
  BY <1>1 DEF AcceptRead, TeamInv, AddressedToPeople
<1> HIDE DEF w
<1> QED
  BY <1>1, <1>3, <1>4, <1>5, <1>6, <1>7, ReadStep

(* A row's request ends; the others keep what they know, as long as the    *)
(* invitations stay where they are and keep their address.                 *)
LEMMA DoneIsSound ==
  ASSUME TeamInv, NEW q \in TeamRequest, Done(q), invites \in Nat, invites' \in Nat, invites <= invites',
         invites' <= MaxInvites, \A i \in 1..invites : invite'[i].email = invite[i].email
  PROVE  teamwork' \in [TeamRequest -> Works] /\ WorkIsSound'
<1>1. NoWork \in Works /\ NoWork.row = 0 /\ NoWork.kind = "none"
  BY DEF Works, NoWork
<1>2. teamwork' = [teamwork EXCEPT ![q] = NoWork] /\ teamwork \in [TeamRequest -> Works]
  BY DEF Done, TeamInv, TeamTyped
<1>3. teamwork' \in [TeamRequest -> Works]
  BY <1>1, <1>2
<1>4. ASSUME NEW r \in TeamRequest
      PROVE  LET w == teamwork'[r] IN
             /\ w.row \in 0..invites'
             /\ w.kind # "none" => w.about \in Person
             /\ w.kind \in {"invite", "join", "close", "change"} => w.give \in Roles \ {"OWNER"}
             /\ w.kind \in {"change", "remove"} => w.about # Founder
             /\ w.kind \in {"join", "close"} => w.row # 0 /\ invite'[w.row].email = w.about
  <2>1. CASE r = q
    BY <1>1, <1>2, <2>1
  <2>2. CASE r # q
    BY <1>2, <2>2 DEF TeamInv, WorkIsSound
  <2> QED
    BY <2>1, <2>2
<1> QED
  BY <1>3, <1>4 DEF WorkIsSound

(* Rows that were given another role, or that have expired, and with them  *)
(* the address they blocked.                                               *)
StillThere(list) ==
  \A i \in Row :
    /\ list[i].email = invite[i].email
    /\ \/ list[i].status = invite[i].status /\ list[i].pending = invite[i].pending
       \/ list[i].status = "EXPIRED" /\ invite[i].status # "none" /\ list[i].pending = FALSE
    /\ list[i].role = invite[i].role \/ list[i].role \in Roles \ {"OWNER"}

(* What such rows keep.                                                    *)
LEMMA RowsKept ==
  ASSUME TeamInv, NEW list \in [Row -> Rows], StillThere(list)
  PROVE  /\ \A i \in Row : (list[i].status = "none") = (i > invites)
         /\ \A i \in Row : i <= invites => list[i].role \in Roles \ {"OWNER"} /\ list[i].email \in Person
         /\ \A p \in Person \ {Founder} : role[p] # "none" =>
              \E i \in Row : list[i].email = p /\ list[i].status \in {"ACCEPTED", "EXPIRED"}
         /\ \A i \in Row : list[i].pending => list[i].status = "PENDING"
<1> USE DEF StillThere
<1>1. \A i \in Row : (list[i].status = "none") = (i > invites)
  BY DEF TeamInv, TeamTyped
<1>2. \A i \in Row : i <= invites => list[i].role \in Roles \ {"OWNER"} /\ list[i].email \in Person
  BY DEF TeamInv, NoOwnerInvited, AddressedToPeople
<1>3. ASSUME NEW p \in Person \ {Founder}, role[p] # "none"
      PROVE  \E i \in Row : list[i].email = p /\ list[i].status \in {"ACCEPTED", "EXPIRED"}
  <2>1. PICK i \in Row : invite[i].email = p /\ invite[i].status \in {"ACCEPTED", "EXPIRED"}
    BY <1>3 DEF TeamInv, MembershipHolds, MembersWereInvited
  <2> QED
    BY <2>1
<1>4. \A i \in Row : list[i].pending => list[i].status = "PENDING"
  BY DEF TeamInv, MembershipHolds, NobodyIsLockedOut
<1> QED
  BY <1>1, <1>2, <1>3, <1>4

\* An invitation that is accepted or has expired.
ClosedRows(list, i, s) == [list EXCEPT ![i].status = s, ![i].pending = FALSE]

(* The row gives its address back; nothing else changes.                   *)
LEMMA RowCloses ==
  ASSUME NEW list \in [Row -> Rows], NEW i \in Row,
         NEW s \in {"none", "PENDING", "ACCEPTED", "EXPIRED"}
  PROVE  LET gone == ClosedRows(list, i, s) IN
         /\ gone \in [Row -> Rows] /\ gone[i].status = s /\ gone[i].pending = FALSE
         /\ gone[i].email = list[i].email /\ gone[i].role = list[i].role
         /\ \A k \in Row : k # i => gone[k] = list[k]
<1> DEFINE a == [list[i] EXCEPT !.status = s]
           b == [a EXCEPT !.pending = FALSE]
           gone == ClosedRows(list, i, s)
<1>1. list[i] \in Rows
  OBVIOUS
<1>2. a \in Rows /\ a.status = s /\ a.email = list[i].email /\ a.role = list[i].role
  BY <1>1 DEF Rows
<1>3. gone = [list EXCEPT ![i] = b]
  BY DEF ClosedRows
<1> HIDE DEF a, gone
<1>4. b \in Rows /\ b.status = s /\ b.email = list[i].email /\ b.role = list[i].role /\ b.pending = FALSE
  BY <1>2 DEF Rows
<1> HIDE DEF b
<1>5. gone \in [Row -> Rows] /\ gone[i] = b /\ \A k \in Row : k # i => gone[k] = list[k]
  BY <1>3, <1>4
<1> QED
  BY <1>4, <1>5 DEF gone

(* createOrRefreshInvitation.                                              *)
LEMMA InviteIsSound ==
  ASSUME TeamInv, NEW q \in TeamRequest, InviteWrite(q)
  PROVE  TeamInv'
<1> DEFINE w == teamwork[q]
           kept == IF w.row # 0 /\ w.old
                   THEN [invite EXCEPT ![w.row].status = "EXPIRED", ![w.row].pending = FALSE]
                   ELSE invite
           new == [email |-> w.about, role |-> w.give, status |-> "PENDING",
                   pending |-> TRUE, old |-> FALSE]
<1>1. /\ w \in Works /\ w.kind = "invite" /\ w.row \in 0..invites /\ w.about \in Person
      /\ w.give \in Roles \ {"OWNER"} /\ invites \in Nat /\ MaxInvites \in Nat /\ invites <= MaxInvites
      /\ invite \in [Row -> Rows] /\ (w.row # 0 => w.row \in Row)
  BY TeamAssumption DEF InviteWrite, TeamInv, TeamTyped, WorkIsSound, Row
<1>2. \A i \in 1..invites : i \in Row
  BY <1>1 DEF Row
<1>3. kept \in [Row -> Rows] /\ StillThere(kept)
  <2>1. CASE w.row # 0 /\ w.old
    <3> DEFINE i == w.row
               gone == ClosedRows(invite, i, "EXPIRED")
    <3>1. i \in Row /\ invite[i].status # "none"
      BY <1>1, <2>1 DEF TeamInv, TeamTyped
    <3>2. kept = gone
      BY <2>1 DEF ClosedRows
    <3> HIDE DEF i, w, kept
    <3>3. /\ gone \in [Row -> Rows] /\ gone[i].status = "EXPIRED" /\ gone[i].pending = FALSE
          /\ gone[i].email = invite[i].email /\ gone[i].role = invite[i].role
          /\ \A k \in Row : k # i => gone[k] = invite[k]
      BY <1>1, <3>1, RowCloses
    <3> HIDE DEF gone
    <3> QED
      BY <3>1, <3>2, <3>3 DEF StillThere
  <2>2. CASE ~(w.row # 0 /\ w.old)
    BY <1>1, <2>2 DEF StillThere
  <2> QED
    BY <2>1, <2>2
<1>5. UNCHANGED role /\ Done(q)
  BY DEF InviteWrite
<1>6. \/ /\ w.row # 0 /\ UNCHANGED invites
         /\ invite' = [invite EXCEPT ![w.row].role = w.give, ![w.row].old = FALSE]
      \/ invite' = kept /\ UNCHANGED invites
      \/ /\ invites < MaxInvites /\ invites' = invites + 1
         /\ invite' = [kept EXCEPT ![invites + 1] = new]
  BY DEF InviteWrite
<1>7. new \in Rows
  BY <1>1 DEF Rows
<1> HIDE DEF kept, w, new
<1>8. CASE invites' = invites /\ (invite' = kept \/
           (w.row # 0 /\ invite' = [invite EXCEPT ![w.row].role = w.give, ![w.row].old = FALSE]))
  <2>1. invite' \in [Row -> Rows] /\ StillThere(invite')
    <3>1. CASE invite' = kept
      BY <1>3, <3>1
    <3>2. CASE w.row # 0 /\ invite' = [invite EXCEPT ![w.row].role = w.give, ![w.row].old = FALSE]
      BY <1>1, <3>2 DEF Rows, StillThere
    <3> QED
      BY <1>8, <3>1, <3>2
  <2>2. teamwork' \in [TeamRequest -> Works] /\ WorkIsSound'
    BY <1>1, <1>2, <1>5, <1>8, <2>1, DoneIsSound DEF StillThere
  <2>3. /\ \A i \in Row : (invite'[i].status = "none") = (i > invites)
        /\ \A i \in Row : i <= invites => invite'[i].role \in Roles \ {"OWNER"} /\ invite'[i].email \in Person
        /\ \A p \in Person \ {Founder} : role[p] # "none" =>
             \E i \in Row : invite'[i].email = p /\ invite'[i].status \in {"ACCEPTED", "EXPIRED"}
        /\ \A i \in Row : invite'[i].pending => invite'[i].status = "PENDING"
    BY <2>1, RowsKept
  <2>4. TeamTyped'
    BY <1>5, <1>8, <2>1, <2>2, <2>3 DEF TeamInv, TeamTyped, Row
  <2>5. NoOwnerInvited' /\ AddressedToPeople'
    BY <1>8, <2>3 DEF NoOwnerInvited, AddressedToPeople, Row
  <2>6. MembershipHolds'
    BY <1>5, <2>3
    DEF TeamInv, MembershipHolds, OneOwner, MembersWereInvited, NobodyIsLockedOut, Row
  <2> QED
    BY <2>2, <2>4, <2>5, <2>6 DEF TeamInv
<1>9. CASE /\ invites < MaxInvites /\ invites' = invites + 1
           /\ invite' = [kept EXCEPT ![invites + 1] = new]
  <2>1. /\ invites + 1 \in Row /\ invite' \in [Row -> Rows] /\ invite'[invites + 1] = new
        /\ \A i \in Row : i # invites + 1 => invite'[i] = kept[i]
    BY <1>1, <1>3, <1>7, <1>9 DEF Row
  <2>2. new.email = w.about /\ new.role = w.give /\ new.status = "PENDING" /\ new.pending = TRUE
    BY DEF new
  <2>3. /\ \A i \in Row : (kept[i].status = "none") = (i > invites)
        /\ \A i \in Row : i <= invites => kept[i].role \in Roles \ {"OWNER"} /\ kept[i].email \in Person
        /\ \A p \in Person \ {Founder} : role[p] # "none" =>
             \E i \in Row : kept[i].email = p /\ kept[i].status \in {"ACCEPTED", "EXPIRED"}
        /\ \A i \in Row : kept[i].pending => kept[i].status = "PENDING"
    BY <1>3, RowsKept
  <2>4. teamwork' \in [TeamRequest -> Works] /\ WorkIsSound'
    BY <1>1, <1>2, <1>3, <1>5, <1>9, <2>1, DoneIsSound DEF StillThere
  <2>5. TeamTyped'
    BY <1>1, <1>5, <1>9, <2>1, <2>2, <2>3, <2>4 DEF TeamInv, TeamTyped, Row
  <2>6. NoOwnerInvited' /\ AddressedToPeople'
    BY <1>1, <1>9, <2>1, <2>2, <2>3 DEF NoOwnerInvited, AddressedToPeople, Row
  <2>7. ASSUME NEW p \in Person \ {Founder}, role[p] # "none"
        PROVE  \E i \in Row : invite'[i].email = p /\ invite'[i].status \in {"ACCEPTED", "EXPIRED"}
    <3>1. PICK i \in Row : kept[i].email = p /\ kept[i].status \in {"ACCEPTED", "EXPIRED"}
      BY <2>3, <2>7
    <3>2. i # invites + 1
      BY <1>1, <2>3, <3>1 DEF Row
    <3> QED
      BY <2>1, <3>1, <3>2
  <2>8. MembershipHolds'
    BY <1>5, <2>1, <2>2, <2>3, <2>7
    DEF TeamInv, MembershipHolds, OneOwner, MembersWereInvited, NobodyIsLockedOut, Row
  <2> QED
    BY <2>4, <2>5, <2>6, <2>8 DEF TeamInv
<1> QED
  BY <1>6, <1>8, <1>9

(* Time passes: an old row is still the same invitation.                   *)
LEMMA AgeingIsSound ==
  ASSUME TeamInv, NEW i \in Row, InviteExpires(i)
  PROVE  TeamInv'
<1> DEFINE r == [invite[i] EXCEPT !.old = TRUE]
<1>1. invite' = [invite EXCEPT ![i] = r] /\ UNCHANGED <<role, invites, teamwork>>
  BY DEF InviteExpires
<1>2. invite[i] \in Rows /\ invite \in [Row -> Rows]
  BY DEF TeamInv, TeamTyped
<1>3. /\ r \in Rows /\ r.email = invite[i].email /\ r.role = invite[i].role
      /\ r.status = invite[i].status /\ r.pending = invite[i].pending
  BY <1>2 DEF Rows
<1> HIDE DEF r
<1>4. /\ invite' \in [Row -> Rows] /\ invite'[i] = r
      /\ \A k \in Row : k # i => invite'[k] = invite[k]
  BY <1>1, <1>2, <1>3
<1>5. \A k \in Row : /\ invite'[k].email = invite[k].email /\ invite'[k].role = invite[k].role
                     /\ invite'[k].status = invite[k].status /\ invite'[k].pending = invite[k].pending
  BY <1>3, <1>4
<1>6. TeamTyped'
  BY <1>1, <1>4, <1>5 DEF TeamInv, TeamTyped
<1>7. invites \in Nat /\ 1..invites \subseteq Row
  BY TeamAssumption DEF TeamInv, TeamTyped, Row
<1>8. ASSUME NEW q \in TeamRequest
      PROVE  LET w == teamwork[q] IN
             /\ w.row \in 0..invites
             /\ w.kind # "none" => w.about \in Person
             /\ w.kind \in {"invite", "join", "close", "change"} => w.give \in Roles \ {"OWNER"}
             /\ w.kind \in {"change", "remove"} => w.about # Founder
             /\ w.kind \in {"join", "close"} => w.row # 0 /\ invite'[w.row].email = w.about
  BY <1>5, <1>7 DEF TeamInv, WorkIsSound
<1>9. WorkIsSound'
  BY <1>1, <1>8 DEF WorkIsSound
<1>10. NoOwnerInvited' /\ AddressedToPeople' /\ OneOwner' /\ NobodyIsLockedOut'
  BY <1>1, <1>5
  DEF TeamInv, NoOwnerInvited, AddressedToPeople, MembershipHolds, OneOwner, NobodyIsLockedOut, Row
<1>11. ASSUME NEW p \in Person \ {Founder}, role[p] # "none"
       PROVE  \E k \in Row : invite'[k].email = p /\ invite'[k].status \in {"ACCEPTED", "EXPIRED"}
  BY <1>5, <1>11 DEF TeamInv, MembershipHolds, MembersWereInvited
<1>12. MembersWereInvited'
  BY <1>1, <1>11 DEF MembersWereInvited, Row
<1> QED
  BY <1>6, <1>9, <1>10, <1>12 DEF TeamInv, MembershipHolds

(* A membership that changes: nobody becomes an owner, the founder stays   *)
(* one, and a new member is one whose invitation is closed as accepted.    *)
LEMMA RolesKept ==
  ASSUME TeamInv, NEW p \in Person, p # Founder, NEW g \in (Roles \ {"OWNER"}) \cup {"none"},
         role' = [role EXCEPT ![p] = g]
  PROVE  /\ role' \in [Person -> Roles \cup {"none"}] /\ OneOwner'
         /\ \A x \in Person : x # p => role'[x] = role[x]
<1>1. role \in [Person -> Roles \cup {"none"}] /\ \A x \in Person : role[x] = "OWNER" <=> x = Founder
  BY OneOwnerEach DEF TeamInv, TeamTyped, MembershipHolds
<1>2. role' \in [Person -> Roles \cup {"none"}] /\ role'[p] = g
      /\ \A x \in Person : x # p => role'[x] = role[x]
  BY <1>1
<1>3. g # "OWNER"
  OBVIOUS
<1>4. \A x \in Person : role'[x] = "OWNER" <=> x = Founder
  BY <1>1, <1>2, <1>3
<1>5. OneOwner'
  BY <1>4, TeamAssumption DEF OneOwner
<1> QED
  BY <1>2, <1>5

(* acceptInvitation writes the membership and the invitation together.     *)
LEMMA AcceptanceIsSound ==
  ASSUME TeamInv, NEW q \in TeamRequest, AcceptWrite(q)
  PROVE  TeamInv'
<1> DEFINE w == teamwork[q]
           i == w.row
<1>1. /\ w \in Works /\ w.kind \in {"join", "close"} /\ i \in 1..invites /\ i \in Row
      /\ w.about \in Person /\ w.give \in Roles \ {"OWNER"} /\ invite[i].email = w.about
      /\ invites \in Nat /\ invites <= MaxInvites /\ invite \in [Row -> Rows]
  BY TeamAssumption DEF AcceptWrite, TeamInv, TeamTyped, WorkIsSound, Row
<1>2. 1..invites \subseteq Row /\ invites' = invites /\ Done(q)
  BY <1>1, TeamAssumption DEF Row, AcceptWrite
<1>3. /\ invite' = invite \/ invite' = ClosedRows(invite, i, "ACCEPTED")
      /\ \/ role' = role
         \/ /\ w.kind = "join" /\ role[w.about] = "none" /\ invite' = ClosedRows(invite, i, "ACCEPTED")
            /\ role' = [role EXCEPT ![w.about] = w.give]
  BY DEF AcceptWrite, Accepted, ClosedRows
<1> HIDE DEF w, i
<1> DEFINE gone == ClosedRows(invite, i, "ACCEPTED")
<1>4. /\ gone \in [Row -> Rows] /\ gone[i].status = "ACCEPTED" /\ gone[i].pending = FALSE
      /\ gone[i].email = invite[i].email /\ gone[i].role = invite[i].role
      /\ \A k \in Row : k # i => gone[k] = invite[k]
  BY <1>1, RowCloses
<1>5. invite' = invite \/ invite' = gone
  BY <1>3
<1> HIDE DEF gone
<1>6. /\ invite' \in [Row -> Rows]
      /\ \A k \in Row : /\ invite'[k].email = invite[k].email /\ invite'[k].role = invite[k].role
                        /\ \/ invite'[k] = invite[k]
                           \/ invite'[k].status = "ACCEPTED" /\ k <= invites /\ invite'[k].pending = FALSE
  <2>1. CASE invite' = invite
    BY <1>1, <2>1
  <2>2. CASE invite' = gone
    <3>1. ASSUME NEW k \in Row
          PROVE  /\ gone[k].email = invite[k].email /\ gone[k].role = invite[k].role
                 /\ \/ gone[k] = invite[k]
                    \/ gone[k].status = "ACCEPTED" /\ k <= invites /\ gone[k].pending = FALSE
      <4>1. CASE k = i
        BY <1>1, <1>4, <4>1
      <4>2. CASE k # i
        BY <1>4, <4>2
      <4> QED
        BY <4>1, <4>2
    <3> QED
      BY <1>4, <2>2, <3>1
  <2> QED
    BY <1>5, <2>1, <2>2
<1>7. teamwork' \in [TeamRequest -> Works] /\ WorkIsSound'
  BY <1>1, <1>2, <1>6, DoneIsSound
<1>8. role' \in [Person -> Roles \cup {"none"}] /\ OneOwner'
  <2>1. CASE role' = role
    BY <2>1 DEF TeamInv, TeamTyped, MembershipHolds, OneOwner
  <2>2. CASE role[w.about] = "none" /\ role' = [role EXCEPT ![w.about] = w.give]
    <3>1. w.about # Founder
      BY <1>1, <2>2, OneOwnerEach DEF TeamInv, MembershipHolds
    <3> QED
      BY <1>1, <2>2, <3>1, RolesKept
  <2> QED
    BY <1>3, <2>1, <2>2
<1>9. \A k \in Row : (invite'[k].status = "none") = (k > invites)
  BY <1>1, <1>6 DEF TeamInv, TeamTyped, Row
<1>10. TeamTyped'
  BY <1>2, <1>6, <1>7, <1>8, <1>9 DEF TeamInv, TeamTyped
<1>11. NoOwnerInvited' /\ AddressedToPeople' /\ NobodyIsLockedOut'
  BY <1>2, <1>6
  DEF TeamInv, NoOwnerInvited, AddressedToPeople, MembershipHolds, NobodyIsLockedOut, Row
<1>12. ASSUME NEW p \in Person \ {Founder}, role'[p] # "none"
       PROVE  \E k \in Row : invite'[k].email = p /\ invite'[k].status \in {"ACCEPTED", "EXPIRED"}
  <2>1. CASE role[p] # "none"
    <3>1. PICK k \in Row : invite[k].email = p /\ invite[k].status \in {"ACCEPTED", "EXPIRED"}
      BY <2>1 DEF TeamInv, MembershipHolds, MembersWereInvited
    <3> QED
      BY <1>6, <3>1
  <2>2. CASE role[p] = "none"
    <3>1. p = w.about /\ invite' = ClosedRows(invite, i, "ACCEPTED")
      BY <1>1, <1>3, <1>12, <2>2 DEF TeamInv, TeamTyped
    <3> QED
      BY <1>1, <1>4, <3>1 DEF gone
  <2> QED
    BY <2>1, <2>2
<1>13. MembersWereInvited'
  BY <1>12 DEF MembersWereInvited, Row
<1> QED
  BY <1>7, <1>8, <1>10, <1>11, <1>13 DEF TeamInv, MembershipHolds

(* changeMemberRole and removeMember.                                      *)
LEMMA MemberWriteIsSound ==
  ASSUME TeamInv, NEW q \in TeamRequest, MemberWrite(q)
  PROVE  TeamInv'
<1> DEFINE w == teamwork[q]
<1>1. /\ w.kind \in {"change", "remove"} /\ w.about \in Person /\ w.about # Founder
      /\ w.kind = "change" => w.give \in Roles \ {"OWNER"}
      /\ invites \in Nat /\ invites <= MaxInvites
  BY TeamAssumption DEF MemberWrite, TeamInv, TeamTyped, WorkIsSound
<1>2. UNCHANGED <<invite, invites>> /\ Done(q)
  BY DEF MemberWrite
<1>3. role' = IF role[w.about] = "none" THEN role
              ELSE [role EXCEPT ![w.about] = IF w.kind = "change" THEN w.give ELSE "none"]
  BY DEF MemberWrite
<1> HIDE DEF w
<1>4. teamwork' \in [TeamRequest -> Works] /\ WorkIsSound'
  BY <1>1, <1>2, DoneIsSound
<1>5. /\ role' \in [Person -> Roles \cup {"none"}] /\ OneOwner'
      /\ \A x \in Person : role'[x] # "none" => role[x] # "none"
  <2>1. CASE role' = role
    BY <2>1 DEF TeamInv, TeamTyped, MembershipHolds, OneOwner
  <2>2. CASE role[w.about] # "none"
    <3> DEFINE g == IF w.kind = "change" THEN w.give ELSE "none"
    <3>1. g \in (Roles \ {"OWNER"}) \cup {"none"} /\ role' = [role EXCEPT ![w.about] = g]
      BY <1>1, <1>3, <2>2
    <3> HIDE DEF g
    <3> QED
      BY <1>1, <2>2, <3>1, RolesKept
  <2> QED
    BY <1>3, <2>1, <2>2
<1>6. TeamTyped'
  BY <1>2, <1>4, <1>5 DEF TeamInv, TeamTyped
<1>7. NoOwnerInvited' /\ AddressedToPeople' /\ NobodyIsLockedOut'
  BY <1>2 DEF TeamInv, NoOwnerInvited, AddressedToPeople, MembershipHolds, NobodyIsLockedOut
<1>8. MembersWereInvited'
  BY <1>2, <1>5 DEF TeamInv, MembershipHolds, MembersWereInvited
<1> QED
  BY <1>4, <1>5, <1>6, <1>7, <1>8 DEF TeamInv, MembershipHolds

(* Every step keeps the invariant.                                         *)
LEMMA TeamInvStep == TeamInv /\ [TeamNext]_teamVars => TeamInv'
<1> SUFFICES ASSUME TeamInv, [TeamNext]_teamVars PROVE TeamInv'
  OBVIOUS
<1>1. CASE UNCHANGED teamVars
  BY <1>1
  DEF teamVars, TeamInv, TeamTyped, WorkIsSound, NoOwnerInvited, AddressedToPeople,
      MembershipHolds, OneOwner, MembersWereInvited, NobodyIsLockedOut
<1>2. CASE \E i \in Row : InviteExpires(i)
  BY <1>2, AgeingIsSound
<1>3. ASSUME NEW q \in TeamRequest, NEW who \in Person, NEW p \in Person, NEW give \in Offered,
             InviteRead(q, who, p, give) \/ ChangeRoleRead(q, who, p, give)
      PROVE  TeamInv'
  BY <1>3, ReadsAreSound
<1>4. ASSUME NEW q \in TeamRequest, NEW who \in Person, NEW p \in Person, RemoveRead(q, who, p)
      PROVE  TeamInv'
  BY <1>4, RemoveIsSound
<1>5. ASSUME NEW q \in TeamRequest, NEW i \in Row, AcceptRead(q, i) PROVE TeamInv'
  BY <1>5, AcceptIsSound
<1>6. ASSUME NEW q \in TeamRequest, InviteWrite(q) \/ AcceptWrite(q) \/ MemberWrite(q)
      PROVE  TeamInv'
  BY <1>6, InviteIsSound, AcceptanceIsSound, MemberWriteIsSound
<1> QED
  BY <1>1, <1>2, <1>3, <1>4, <1>5, <1>6 DEF TeamNext

(* The rows and the requests keep their form: an invitation's place tells  *)
(* whether it exists, and no request knows of one that was not made.       *)
THEOREM TeamIsTyped == TeamSpec => []TeamTypeOK
<1>1. ASSUME TeamInv PROVE TeamTypeOK
  BY <1>1 DEF TeamInv, TeamTyped, WorkIsSound, TeamTypeOK, Rows
<1> QED
  BY <1>1, TeamInvInit, TeamInvStep, PTL DEF TeamSpec

(* In every state of the workspace its founder is its one owner, everybody *)
(* else came by an invitation, and no closed invitation blocks an address, *)
(* for any number of people and of requests under way.                     *)
THEOREM MembersAreSound == TeamSpec => []MembershipHolds
<1>1. TeamInv => MembershipHolds
  BY DEF TeamInv
<1> QED
  BY <1>1, TeamInvInit, TeamInvStep, PTL DEF TeamSpec
-----------------------------------------------------------------------------
(* The post editor, for any number of targets, pictures and saves. What a  *)
(* request says is what the page showed when it was sent, and it says so   *)
(* until the last platform has been told.                                  *)

(* The types of the form, of the rows and of what a request carries.       *)
AnyText == Texts \cup {Blank}
Forms == [page : {"closed", "new", "draft", "published"}, body : AnyText, media : SUBSET Pictures,
          chosen : SUBSET EditTarget]
Articles == [status : {"none", "DRAFT", "PUBLISHED"}, body : AnyText, media : SUBSET Pictures]
PostRows == [status : {"none", "PENDING", "FAILED", "PUBLISHED"}, text : AnyText,
             media : SUBSET Pictures, options : BOOLEAN, thumb : Thumbs]
Overrides == [customized : BOOLEAN, text : AnyText, media : SUBSET Pictures, thumb : Thumbs]
Entries == [text : AnyText, media : SUBSET Pictures, options : BOOLEAN, thumb : Thumbs]
ForSome(S) == UNION {[D -> S] : D \in SUBSET EditTarget}
Savings == [at : {"none", "server", "remote"}, body : AnyText, media : SUBSET Pictures,
            chosen : SUBSET EditTarget, sent : ForSome(Entries), todo : SUBSET EditTarget,
            shown : ForSome(AnyText)]
Commons == [body : AnyText, media : SUBSET Pictures]

(* Each variable has its type; the overrides cover every target.           *)
EditorTyped ==
  /\ article \in Articles /\ rows \in [EditTarget -> PostRows] /\ live \in [EditTarget -> AnyText]
  /\ form \in Forms /\ draft \in [EditTarget -> Overrides] /\ saving \in Savings
  /\ cover.common \in Commons /\ (cover.on => cover.target \in EditTarget)
  /\ saves \in Nat

(* What a request says of the targets is about its own targets.            *)
RequestsAreWhole ==
  /\ DOMAIN saving.sent \subseteq saving.chosen /\ DOMAIN saving.shown \subseteq saving.chosen
  /\ \A t \in EditTarget : rows[t].status = "PUBLISHED" => article.status = "PUBLISHED"
  /\ \A t \in DOMAIN saving.sent : saving.sent[t].media \subseteq saving.media \cup revived

(* What a request will make a target say.                                  *)
WillSay(t) ==
  IF t \in DOMAIN saving.sent /\ saving.sent[t].text # Blank THEN saving.sent[t].text ELSE saving.body

(* What was shown is what the request says, and what the platforms that    *)
(* have been told already show.                                            *)
ShownIsSent ==
  /\ \A t \in DOMAIN saving.shown : saving.shown[t] # Blank /\ saving.shown[t] = WillSay(t)
  /\ saving.at = "remote" =>
       /\ article.status = "PUBLISHED"
       /\ \A t \in DOMAIN saving.shown :
            rows[t].status = "PUBLISHED" /\ t \notin saving.todo => live[t] = saving.shown[t]

(* The inductive invariant.                                                *)
EditorInv == EditorTyped /\ RequestsAreWhole /\ DraftsAreCoherent /\ ShownIsSent
-----------------------------------------------------------------------------
(* What a change of the page has to keep.                                  *)
LEMMA PageChanges ==
  ASSUME EditorInv, UNCHANGED server, revived \subseteq revived',
         form' \in Forms, draft' \in [EditTarget -> Overrides],
         cover'.common \in Commons, cover'.on => cover'.target \in EditTarget,
         \A t \in EditTarget : form'.page # "closed" => draft'[t].media \subseteq form'.media \cup revived'
  PROVE  EditorInv'
<1>1. EditorTyped'
      BY DEF EditorInv, EditorTyped, server
<1>2. RequestsAreWhole'
      BY DEF EditorInv, RequestsAreWhole, server
<1>3. DraftsAreCoherent'
      BY DEF EditorInv, DraftsAreCoherent, server
<1>4. ShownIsSent'
      BY DEF EditorInv, ShownIsSent, WillSay, server
<1> QED BY <1>1, <1>2, <1>3, <1>4 DEF EditorInv

(* The drafts of the targets that a patch or an opened page makes.         *)
LEMMA DraftsFit ==
  ASSUME EditorInv
  PROVE  /\ EmptyOverride \in Overrides /\ EmptyOverride.media = {}
         /\ \A common : common.body \in AnyText /\ common.media \in SUBSET Pictures
              => /\ FromCommon(common) \in Overrides /\ FromCommon(common).media = common.media
                 /\ \A t \in EditTarget :
                      LET d == FillMissing(FromOptions(rows[t]), common)
                      IN  d \in Overrides /\ d.media \subseteq rows[t].media \cup common.media
<1>1. EmptyOverride \in Overrides /\ EmptyOverride.media = {}
      BY DEF EmptyOverride, Overrides, AnyText, Thumbs
<1>2. ASSUME NEW common, common.body \in AnyText, common.media \in SUBSET Pictures
      PROVE  FromCommon(common) \in Overrides /\ FromCommon(common).media = common.media
      BY <1>1, <1>2 DEF FromCommon, EmptyOverride, Overrides
<1>3. ASSUME NEW common, common.body \in AnyText, common.media \in SUBSET Pictures, NEW t \in EditTarget
      PROVE  LET d == FillMissing(FromOptions(rows[t]), common)
             IN  d \in Overrides /\ d.media \subseteq rows[t].media \cup common.media
  <2>1. rows[t] \in PostRows
        BY DEF EditorInv, EditorTyped
  <2>2. FromOptions(rows[t]) \in Overrides /\ FromOptions(rows[t]).media = rows[t].media
        BY <2>1 DEF FromOptions, PostRows, Overrides
  <2>3. PICK f \in Overrides : f = FromOptions(rows[t])
        BY <2>2
  <2>4. FillMissing(f, common) \in Overrides
        /\ FillMissing(f, common).media \subseteq f.media \cup common.media
        BY <1>3 DEF FillMissing, Overrides
  <2> QED BY <2>2, <2>3, <2>4
<1> QED BY <1>1, <1>2, <1>3

(* A page is opened.                                                       *)
LEMMA OpeningKeeps == EditorInv /\ (OpenNew \/ OpenEdit) => EditorInv'
<1> SUFFICES ASSUME EditorInv, OpenNew \/ OpenEdit PROVE EditorInv'
    OBVIOUS
<1>1. article \in Articles /\ rows \in [EditTarget -> PostRows]
      /\ cover.common \in Commons /\ (cover.on => cover.target \in EditTarget)
      BY DEF EditorInv, EditorTyped
<1>2. CASE OpenNew
  <2>1. form' \in Forms
        BY <1>2 DEF OpenNew, Closed, Forms, AnyText
  <2>2. draft' \in [EditTarget -> Overrides] /\ \A t \in EditTarget : draft'[t].media = {}
        BY <1>2, DraftsFit DEF OpenNew
  <2> QED BY <1>1, <1>2, <2>1, <2>2, PageChanges DEF OpenNew
<1>3. CASE OpenEdit
  <2>1. article.body \in AnyText /\ article.media \in SUBSET Pictures
        BY <1>1 DEF Articles
  <2>2. form' \in Forms /\ form'.media = article.media
        BY <1>3, <2>1 DEF OpenEdit, Forms
  <2>3. \A t \in EditTarget : LET d == FillMissing(FromOptions(rows[t]), article)
                              IN  d \in Overrides /\ d.media \subseteq rows[t].media \cup article.media
        BY <2>1, DraftsFit
  <2>4. draft' \in [EditTarget -> Overrides]
        /\ \A t \in EditTarget : draft'[t].media \subseteq rows[t].media \cup article.media
        BY <1>3, <2>3 DEF OpenEdit
  <2>5. \A t \in EditTarget : draft'[t].media \subseteq form'.media \cup revived
        BY <2>2, <2>4 DEF EditorInv, DraftsAreCoherent
  <2> QED BY <1>1, <1>3, <2>2, <2>4, <2>5, PageChanges DEF OpenEdit
<1> QED BY <1>2, <1>3

(* The common text, the media and the choice of targets are changed.       *)
LEMMA FormKeeps ==
  ASSUME EditorInv,
         \/ \E text \in Texts \cup {Blank} : TypeBody(text)
         \/ \E t \in EditTarget : ToggleAccount(t)
         \/ \E p \in Pictures : UploadMedia(p) \/ ThumbnailDone(p) \/ AddMedia(p)
  PROVE  EditorInv'
<1>1. form \in Forms /\ draft \in [EditTarget -> Overrides]
      /\ cover.common \in Commons /\ (cover.on => cover.target \in EditTarget)
      BY DEF EditorInv, EditorTyped
<1>2. UNCHANGED <<server, draft, cover, revived>>
      BY DEF TypeBody, ToggleAccount, UploadMedia, ThumbnailDone, AddMedia, server
<1>3. form' \in Forms /\ form'.page = form.page /\ form.media \subseteq form'.media
  <2>1. CASE \E text \in Texts \cup {Blank} : TypeBody(text)
        BY <1>1, <2>1 DEF TypeBody, Forms, AnyText
  <2>2. CASE \E t \in EditTarget : ToggleAccount(t)
    <3>1. PICK picked \in SUBSET EditTarget : form' = [form EXCEPT !.chosen = picked]
      <4>1. PICK t \in EditTarget : ToggleAccount(t)
            BY <2>2
      <4>2. form.chosen \in SUBSET EditTarget
            BY <1>1 DEF Forms
      <4>3. /\ form' = [form EXCEPT !.chosen = IF t \in form.chosen THEN form.chosen \ {t} ELSE form.chosen \cup {t}]
            BY <4>1 DEF ToggleAccount
      <4> QED BY <4>2, <4>3
    <3> QED BY <1>1, <3>1 DEF Forms
  <2>3. CASE \E p \in Pictures : UploadMedia(p) \/ ThumbnailDone(p) \/ AddMedia(p)
        BY <1>1, <2>3 DEF UploadMedia, ThumbnailDone, AddMedia, Forms
  <2> QED BY <2>1, <2>2, <2>3
<1>4. \A t \in EditTarget : form'.page # "closed" => draft'[t].media \subseteq form'.media \cup revived'
      BY <1>2, <1>3 DEF EditorInv, DraftsAreCoherent
<1> QED BY <1>1, <1>2, <1>3, <1>4, PageChanges

(* One target's draft is patched.                                          *)
LEMMA PatchKeeps ==
  ASSUME EditorInv, NEW t \in EditTarget,
         \/ Reset(t) \/ Customize(t) \/ UploadCover(t)
         \/ \E text \in Texts \cup {Blank} : TypeOverride(t, text)
         \/ \E p \in Pictures : SelectMedia(t, p)
         \/ \E p \in Thumbs : SelectCover(t, p)
  PROVE  EditorInv'
<1>1. form \in Forms /\ draft \in [EditTarget -> Overrides] /\ draft[t] \in Overrides
      /\ cover.common \in Commons /\ (cover.on => cover.target \in EditTarget)
      /\ form.body \in AnyText /\ form.media \in SUBSET Pictures
      BY DEF EditorInv, EditorTyped, Forms
<1>2. UNCHANGED <<server, form, revived>>
      BY DEF Reset, Customize, UploadCover, TypeOverride, SelectMedia, SelectCover, server
<1>3. PICK d \in Overrides : /\ draft' = [draft EXCEPT ![t] = d]
                            /\ d.media \subseteq draft[t].media \cup form.media
  <2>1. CASE Reset(t)
    <3>1. draft' = [draft EXCEPT ![t] = [draft[t] EXCEPT !.customized = FALSE]]
          BY <1>1, <2>1 DEF Reset
    <3>2. [draft[t] EXCEPT !.customized = FALSE] \in Overrides
          /\ [draft[t] EXCEPT !.customized = FALSE].media = draft[t].media
          BY <1>1 DEF Overrides
    <3> QED BY <3>1, <3>2
  <2>2. CASE Customize(t)
    <3>1. Seeded(t, TRUE, form) \in Overrides
          /\ Seeded(t, TRUE, form).media \subseteq draft[t].media \cup form.media
          BY <1>1, DraftsFit DEF Seeded
    <3> QED BY <2>2, <3>1 DEF Customize
  <2>3. CASE UploadCover(t)
    <3>1. draft' = [draft EXCEPT ![t] = draft[t]]
          BY <1>1, <2>3 DEF UploadCover
    <3> QED BY <1>1, <3>1
  <2>4. ASSUME NEW text \in Texts \cup {Blank}, TypeOverride(t, text)
        PROVE  \E d \in Overrides : /\ draft' = [draft EXCEPT ![t] = d]
                                    /\ d.media \subseteq draft[t].media \cup form.media
    <3>1. draft' = [draft EXCEPT ![t] = [draft[t] EXCEPT !.text = text]]
          BY <1>1, <2>4 DEF TypeOverride
    <3>2. [draft[t] EXCEPT !.text = text] \in Overrides
          /\ [draft[t] EXCEPT !.text = text].media = draft[t].media
          BY <1>1 DEF Overrides, AnyText
    <3> QED BY <3>1, <3>2
  <2>5. ASSUME NEW p \in Pictures, SelectMedia(t, p)
        PROVE  \E d \in Overrides : /\ draft' = [draft EXCEPT ![t] = d]
                                    /\ d.media \subseteq draft[t].media \cup form.media
    <3>1. PICK m : /\ m = IF p \in draft[t].media THEN draft[t].media \ {p} ELSE draft[t].media \cup {p}
                   /\ draft' = [draft EXCEPT ![t] = [draft[t] EXCEPT !.media = m]]
          BY <1>1, <2>5 DEF SelectMedia
    <3>2. p \in form.media /\ draft[t].media \in SUBSET Pictures
          BY <1>1, <2>5 DEF SelectMedia, Overrides
    <3>3. m \in SUBSET Pictures /\ m \subseteq draft[t].media \cup form.media
          BY <3>1, <3>2
    <3>4. [draft[t] EXCEPT !.media = m] \in Overrides /\ [draft[t] EXCEPT !.media = m].media = m
          BY <1>1, <3>3 DEF Overrides
    <3> QED BY <3>1, <3>3, <3>4
  <2>6. ASSUME NEW p \in Thumbs, SelectCover(t, p)
        PROVE  \E d \in Overrides : /\ draft' = [draft EXCEPT ![t] = d]
                                    /\ d.media \subseteq draft[t].media \cup form.media
    <3>1. draft' = [draft EXCEPT ![t] = [draft[t] EXCEPT !.thumb = p]]
          BY <1>1, <2>6 DEF SelectCover
    <3>2. [draft[t] EXCEPT !.thumb = p] \in Overrides
          /\ [draft[t] EXCEPT !.thumb = p].media = draft[t].media
          BY <1>1 DEF Overrides
    <3> QED BY <3>1, <3>2
  <2> QED BY <2>1, <2>2, <2>3, <2>4, <2>5, <2>6
<1>4. draft' \in [EditTarget -> Overrides]
      BY <1>1, <1>3
<1>5. \A u \in EditTarget : form'.page # "closed" => draft'[u].media \subseteq form'.media \cup revived'
      BY <1>1, <1>2, <1>3 DEF EditorInv, DraftsAreCoherent
<1>6. cover'.common \in Commons /\ (cover'.on => cover'.target \in EditTarget)
  <2>1. CASE UploadCover(t)
        BY <1>1, <2>1 DEF UploadCover, Commons
  <2>2. CASE ~UploadCover(t)
        BY <1>1, <2>2 DEF Reset, Customize, TypeOverride, SelectMedia, SelectCover
  <2> QED BY <2>1, <2>2
<1> QED BY <1>1, <1>2, <1>4, <1>5, <1>6, PageChanges

(* A picture is taken out of the post, and out of every target's panel.    *)
LEMMA RemovingKeeps == ASSUME EditorInv, NEW p \in Pictures, RemoveMedia(p) PROVE EditorInv'
<1>1. form \in Forms /\ draft \in [EditTarget -> Overrides]
      /\ cover.common \in Commons /\ (cover.on => cover.target \in EditTarget)
      BY DEF EditorInv, EditorTyped
<1>2. UNCHANGED <<server, cover, revived>>
      BY DEF RemoveMedia, server
<1>3. form' \in Forms /\ form'.media = form.media \ {p} /\ form'.page = form.page
      BY <1>1 DEF RemoveMedia, Forms
<1>4. ASSUME NEW t \in EditTarget
      PROVE  [draft[t] EXCEPT !.media = @ \ {p}, !.thumb = IF @ = p THEN NoPicture ELSE @] \in Overrides
             /\ [draft[t] EXCEPT !.media = @ \ {p}, !.thumb = IF @ = p THEN NoPicture ELSE @].media
                  = draft[t].media \ {p}
  <2>1. PICK d \in Overrides : d = draft[t]
        BY <1>1
  <2>2. d.media \ {p} \in SUBSET Pictures /\ (IF d.thumb = p THEN NoPicture ELSE d.thumb) \in Thumbs
        BY DEF Overrides, Thumbs
  <2> QED BY <2>1, <2>2 DEF Overrides
<1>5. draft' \in [EditTarget -> Overrides]
      /\ \A t \in EditTarget : draft'[t].media = draft[t].media \ {p}
      BY <1>4 DEF RemoveMedia
<1>6. \A u \in EditTarget : form'.page # "closed" => draft'[u].media \subseteq form'.media \cup revived'
      BY <1>2, <1>3, <1>5 DEF EditorInv, DraftsAreCoherent
<1> QED BY <1>1, <1>2, <1>3, <1>5, <1>6, PageChanges

(* A cover image has been uploaded; the answer may come late.              *)
LEMMA CoverKeeps == EditorInv /\ CoverUploaded => EditorInv'
<1> SUFFICES ASSUME EditorInv, CoverUploaded PROVE EditorInv'
    OBVIOUS
<1>1. form \in Forms /\ draft \in [EditTarget -> Overrides]
      /\ cover.common \in Commons /\ (cover.on => cover.target \in EditTarget)
      BY DEF EditorInv, EditorTyped
<1>2. UNCHANGED <<server, form>> /\ cover.on
      BY DEF CoverUploaded, server
<1>3. cover'.common \in Commons /\ (cover'.on => cover'.target \in EditTarget)
      BY DEF CoverUploaded, NoUpload, Commons, AnyText
<1>4. PICK t \in EditTarget : t = cover.target
      BY <1>1, <1>2
<1>5. CASE form.page = "closed"
      BY <1>1, <1>2, <1>3, <1>5, PageChanges DEF CoverUploaded
<1>6. CASE form.page # "closed"
  <2> DEFINE d == [Seeded(t, TRUE, cover.common) EXCEPT !.customized = TRUE, !.thumb = CoverImage]
  <2>1. cover.common.body \in AnyText /\ cover.common.media \in SUBSET Pictures
        BY <1>1 DEF Commons
  <2>2. Seeded(t, TRUE, cover.common) \in Overrides
        BY <1>1, <2>1, DraftsFit DEF Seeded
  <2>3. d \in Overrides
        BY <2>2 DEF Overrides, Thumbs
  <2>4. draft' = [draft EXCEPT ![t] = d] /\ revived' = revived \cup (draft'[t].media \ form.media)
        BY <1>4, <1>6 DEF CoverUploaded
  <2> HIDE DEF d
  <2>5. draft' \in [EditTarget -> Overrides] /\ revived \subseteq revived'
        BY <1>1, <2>3, <2>4
  <2>6. \A u \in EditTarget : draft'[u].media \subseteq form'.media \cup revived'
        BY <1>1, <1>2, <1>6, <2>4 DEF EditorInv, DraftsAreCoherent
  <2> QED BY <1>1, <1>2, <1>3, <2>5, <2>6, PageChanges
<1> QED BY <1>5, <1>6
-----------------------------------------------------------------------------
(* What a target says on the page is what its entry of the request says.   *)
LEMMA PayloadSays ==
  ASSUME EditorInv, NEW t \in form.chosen, NEW withMedia \in BOOLEAN,
         Told(t) # Blank, draft[t].customized \/ draft[t].thumb = NoPicture
  PROVE  LET said == OverridePayload(withMedia)
         IN  Told(t) = IF t \in DOMAIN said /\ said[t].text # Blank THEN said[t].text ELSE form.body
<1> DEFINE said == OverridePayload(withMedia)
<1>1. draft[t] \in Overrides /\ draft[t].customized \in BOOLEAN
      BY DEF EditorInv, EditorTyped, Forms, Overrides
<1>2. t \in DOMAIN said => said[t].text = draft[t].text
      BY DEF OverridePayload, Entry
<1>3. t \in DOMAIN said <=>
        /\ IsActive(t, draft[t])
        /\ \/ draft[t].text # Blank \/ PlatformOptions(t, draft[t])
           \/ withMedia /\ draft[t].media # {}
      BY DEF OverridePayload
<1> HIDE DEF said
<1>4. CASE draft[t].customized /\ draft[t].text # Blank
  <2>1. t \in DOMAIN said
        BY <1>3, <1>4 DEF IsActive
  <2> QED BY <1>2, <1>4, <2>1 DEF Told, said
<1>5. CASE draft[t].customized /\ draft[t].text = Blank
      BY <1>2, <1>5 DEF Told, said
<1>6. CASE ~draft[t].customized
  <2>1. ~IsActive(t, draft[t])
        BY <1>6 DEF IsActive, PlatformOptions
  <2> QED BY <1>3, <1>6, <2>1 DEF Told, said
<1> QED BY <1>1, <1>4, <1>5, <1>6

(* Save: the page becomes a request.                                       *)
LEMMA SaveKeeps == EditorInv /\ Save => EditorInv'
<1> SUFFICES ASSUME EditorInv, Save PROVE EditorInv'
    OBVIOUS
<1> DEFINE withMedia == form.page # "published"
           said == OverridePayload(withMedia)
           appears == [t \in {x \in form.chosen : Told(x) # Blank /\ (draft[x].customized \/ draft[x].thumb = NoPicture)}
                       |-> Told(t)]
<1>1. form \in Forms /\ form.chosen \in SUBSET EditTarget /\ draft \in [EditTarget -> Overrides]
      BY DEF EditorInv, EditorTyped, Forms
<1>2. UNCHANGED <<article, rows, live, form, draft, cover, revived, saves>> /\ form.page # "closed"
      BY DEF Save
<1>3. saving' = [at |-> "server", body |-> form.body, media |-> form.media, chosen |-> form.chosen,
                 sent |-> said, todo |-> {}, shown |-> appears]
      BY DEF Save
<1>4. \A t \in form.chosen : Entry(t, draft[t], withMedia) \in Entries
      BY <1>1 DEF Entry, Overrides, Entries, PlatformOptions
<1>5. PICK D \in SUBSET form.chosen : said = [t \in D |-> Entry(t, draft[t], withMedia)]
      BY DEF OverridePayload
<1>6. said \in ForSome(Entries) /\ DOMAIN said \subseteq form.chosen
      BY <1>1, <1>4, <1>5 DEF ForSome
<1>7. \A t \in DOMAIN said : said[t].media \subseteq form.media \cup revived
  <2>1. \A t \in DOMAIN said : said[t].media \subseteq draft[t].media
        BY <1>5 DEF Entry
  <2>2. \A t \in form.chosen : draft[t].media \subseteq form.media \cup revived
        BY <1>1, <1>2 DEF EditorInv, DraftsAreCoherent
  <2> HIDE DEF said
  <2> QED BY <1>6, <2>1, <2>2
<1>8. appears \in ForSome(AnyText) /\ DOMAIN appears \subseteq form.chosen
  <2>1. \A t \in form.chosen : Told(t) \in AnyText
        BY <1>1 DEF Told, Overrides, Forms
  <2>2. PICK E \in SUBSET form.chosen : appears = [t \in E |-> Told(t)]
        OBVIOUS
  <2> HIDE DEF appears
  <2> QED BY <1>1, <2>1, <2>2 DEF ForSome
<1>9. \A t \in DOMAIN appears : /\ appears[t] # Blank
                                /\ appears[t] = IF t \in DOMAIN said /\ said[t].text # Blank
                                              THEN said[t].text ELSE form.body
  <2>1. withMedia \in BOOLEAN
        OBVIOUS
  <2> SUFFICES ASSUME NEW t \in form.chosen, Told(t) # Blank,
                      draft[t].customized \/ draft[t].thumb = NoPicture
               PROVE  Told(t) = IF t \in DOMAIN said /\ said[t].text # Blank THEN said[t].text ELSE form.body
      OBVIOUS
  <2> HIDE DEF withMedia
  <2> QED BY <2>1, PayloadSays
<1> HIDE DEF said, appears
<1>10. EditorTyped'
  <2>1. saving' \in Savings
        BY <1>1, <1>3, <1>6, <1>8 DEF Savings, Forms
  <2> QED BY <1>2, <2>1 DEF EditorInv, EditorTyped
<1>11. RequestsAreWhole'
      BY <1>2, <1>3, <1>6, <1>7, <1>8 DEF EditorInv, RequestsAreWhole
<1>12. DraftsAreCoherent'
      BY <1>2 DEF EditorInv, DraftsAreCoherent
<1>13. ShownIsSent'
      BY <1>3, <1>9 DEF ShownIsSent, WillSay
<1> QED BY <1>10, <1>11, <1>12, <1>13 DEF EditorInv

(* The request comes to nothing.                                           *)
LEMMA RefusalKeeps == EditorInv /\ SaveRefused => EditorInv'
<1> SUFFICES ASSUME EditorInv, SaveRefused PROVE EditorInv'
    OBVIOUS
<1>1. UNCHANGED <<article, rows, live, form, draft, cover, revived, saves>> /\ saving' = NotSaving
      BY DEF SaveRefused
<1>2. <<>> \in ForSome(Entries) /\ <<>> \in ForSome(AnyText)
  <2>1. ASSUME NEW S PROVE <<>> \in [{} -> S]
        OBVIOUS
  <2> QED BY <2>1 DEF ForSome
<1>3. saving' \in Savings /\ DOMAIN saving'.sent = {} /\ DOMAIN saving'.shown = {} /\ saving'.at = "none"
      BY <1>1, <1>2 DEF NotSaving, Savings, AnyText
<1> QED BY <1>1, <1>3 DEF EditorInv, EditorTyped, RequestsAreWhole, DraftsAreCoherent,
           ShownIsSent

(* The server writes the post and its targets.                             *)
LEMMA WriteKeeps == EditorInv /\ Write => EditorInv'
<1> SUFFICES ASSUME EditorInv, Write PROVE EditorInv'
    OBVIOUS
<1>1. saving \in Savings /\ article \in Articles /\ rows \in [EditTarget -> PostRows]
      /\ live \in [EditTarget -> AnyText]
      BY DEF EditorInv, EditorTyped
<1>2. UNCHANGED <<live, draft, cover, revived>> /\ form' = Closed /\ saving' = NotSaving /\ saves' = saves + 1
      /\ article' = [status |-> "DRAFT", body |-> NewBody, media |-> saving.media]
      /\ rows' = [t \in EditTarget |-> ReplacedRow(t)]
      BY DEF Write
<1>3. <<>> \in ForSome(Entries) /\ <<>> \in ForSome(AnyText)
  <2>1. ASSUME NEW S PROVE <<>> \in [{} -> S]
        OBVIOUS
  <2> QED BY <2>1 DEF ForSome
<1>4. saving' \in Savings /\ DOMAIN saving'.sent = {} /\ DOMAIN saving'.shown = {} /\ saving'.at = "none"
      BY <1>2, <1>3 DEF NotSaving, Savings, AnyText
<1>5. article' \in Articles /\ form' \in Forms /\ form'.page = "closed"
      BY <1>1, <1>2 DEF Articles, Savings, Forms, Closed, NewBody, AnyText
<1>6. ASSUME NEW t \in EditTarget
      PROVE  /\ ReplacedRow(t) \in PostRows /\ ReplacedRow(t).status # "PUBLISHED"
             /\ ReplacedRow(t).media \subseteq saving.media \cup revived
  <2>1. NoRow \in PostRows /\ NoRow.media = {} /\ NoRow.status = "none"
        BY DEF NoRow, PostRows, Thumbs, AnyText
  <2>2. t \in DOMAIN saving.sent => saving.sent[t] \in Entries
        /\ saving.sent[t].media \subseteq saving.media \cup revived
        BY <1>1 DEF EditorInv, RequestsAreWhole, Savings, ForSome
  <2>3. CASE t \notin saving.chosen
        BY <2>1, <2>3 DEF ReplacedRow
  <2>4. CASE t \in saving.chosen /\ t \in DOMAIN saving.sent
        BY <2>2, <2>4 DEF ReplacedRow, Entries, PostRows
  <2>5. CASE t \in saving.chosen /\ t \notin DOMAIN saving.sent
        BY <2>1, <2>5 DEF ReplacedRow, NoRow, PostRows
  <2> QED BY <2>3, <2>4, <2>5
<1>7. /\ rows' \in [EditTarget -> PostRows]
      /\ \A t \in EditTarget : rows'[t].status # "PUBLISHED"
         /\ rows'[t].media \subseteq article'.media \cup revived'
      BY <1>2, <1>6
<1>8. saves' \in Nat
      BY <1>2 DEF EditorInv, EditorTyped
<1> QED BY <1>2, <1>4, <1>5, <1>7, <1>8
           DEF EditorInv, EditorTyped, RequestsAreWhole, DraftsAreCoherent, ShownIsSent

(* The platforms are told, one by one.                                     *)
LEMMA RemoteKeeps ==
  ASSUME EditorInv, BeginRemote \/ \E t \in EditTarget : EditRemote(t)
  PROVE  EditorInv'
<1>1. saving \in Savings /\ article \in Articles /\ rows \in [EditTarget -> PostRows]
      /\ live \in [EditTarget -> AnyText]
      BY DEF EditorInv, EditorTyped
<1>2. UNCHANGED <<article, rows, form, draft, cover, revived, saves>>
      BY DEF BeginRemote, EditRemote
<1>3. PICK todo \in SUBSET EditTarget : saving' = [saving EXCEPT !.at = "remote", !.todo = todo]
  <2>1. CASE BeginRemote
        BY <2>1 DEF BeginRemote
  <2>2. ASSUME NEW t \in EditTarget, EditRemote(t)
        PROVE  \E todo \in SUBSET EditTarget : saving' = [saving EXCEPT !.at = "remote", !.todo = todo]
    <3>1. saving' = [saving EXCEPT !.todo = saving.todo \ {t}] /\ saving.at = "remote"
          BY <1>1, <2>2 DEF EditRemote, Savings
    <3>2. saving' = [saving EXCEPT !.at = "remote", !.todo = saving.todo \ {t}]
          BY <1>1, <3>1 DEF Savings
    <3>3. saving.todo \ {t} \in SUBSET EditTarget
          BY <1>1 DEF Savings
    <3> QED BY <3>2, <3>3
  <2> QED BY <2>1, <2>2
<1>4. /\ saving' \in Savings /\ saving'.at = "remote" /\ saving'.todo = todo
      /\ saving'.sent = saving.sent /\ saving'.shown = saving.shown /\ saving'.body = saving.body
      /\ saving'.media = saving.media /\ saving'.chosen = saving.chosen
      BY <1>1, <1>3 DEF Savings
<1>5. \A t \in DOMAIN saving.shown : t \in EditTarget /\ saving.shown[t] \in AnyText
      BY <1>1 DEF Savings, ForSome
<1>6. ASSUME NEW t \in EditTarget
      PROVE  RemoteText(t) \in AnyText /\ (t \in DOMAIN saving.shown => RemoteText(t) = saving.shown[t])
  <2>1. t \in DOMAIN saving.sent => saving.sent[t].text \in AnyText
        BY <1>1 DEF Savings, ForSome, Entries
  <2>2. saving.body \in AnyText /\ rows[t].text \in AnyText /\ article.body \in AnyText
        BY <1>1 DEF Savings, PostRows, Articles
  <2>3. t \in DOMAIN saving.shown => saving.shown[t] # Blank /\ saving.shown[t] = WillSay(t)
        BY DEF EditorInv, ShownIsSent
  <2> QED BY <2>1, <2>2, <2>3 DEF RemoteText, WillSay
<1>7. article.status = "PUBLISHED" /\ live' \in [EditTarget -> AnyText]
      /\ \A t \in DOMAIN saving.shown :
           rows[t].status = "PUBLISHED" /\ t \notin todo => live'[t] = saving.shown[t]
  <2>1. CASE BeginRemote
    <3>1. todo = {t \in EditTarget : rows[t].status = "PUBLISHED"}
      <4>1. saving'.todo = {t \in EditTarget : rows[t].status = "PUBLISHED"}
            BY <1>1, <2>1 DEF BeginRemote, Savings
      <4> QED BY <1>4, <4>1
    <3> QED BY <1>1, <1>5, <2>1, <3>1 DEF BeginRemote
  <2>2. ASSUME NEW t \in EditTarget, EditRemote(t)
        PROVE  article.status = "PUBLISHED" /\ live' \in [EditTarget -> AnyText]
               /\ \A u \in DOMAIN saving.shown :
                    rows[u].status = "PUBLISHED" /\ u \notin todo => live'[u] = saving.shown[u]
    <3>1. saving'.todo = saving.todo \ {t} /\ live' = [live EXCEPT ![t] = RemoteText(t)]
          /\ saving.at = "remote"
          BY <1>1, <2>2 DEF EditRemote, Savings
    <3>2. article.status = "PUBLISHED" /\ \A u \in DOMAIN saving.shown :
            rows[u].status = "PUBLISHED" /\ u \notin saving.todo => live[u] = saving.shown[u]
          BY <3>1 DEF EditorInv, ShownIsSent
    <3> QED BY <1>1, <1>4, <1>5, <1>6, <3>1, <3>2
  <2> QED BY <2>1, <2>2
<1>8. EditorTyped'
      BY <1>2, <1>4, <1>7 DEF EditorInv, EditorTyped
<1>9. RequestsAreWhole' /\ DraftsAreCoherent'
      BY <1>2, <1>4 DEF EditorInv, RequestsAreWhole, DraftsAreCoherent
<1>10. ShownIsSent'
      BY <1>2, <1>4, <1>7 DEF EditorInv, ShownIsSent, WillSay
<1> QED BY <1>8, <1>9, <1>10 DEF EditorInv

(* And then the overrides are stored.                                      *)
LEMMA OverridesKeep == EditorInv /\ WriteOverrides => EditorInv'
<1> SUFFICES ASSUME EditorInv, WriteOverrides PROVE EditorInv'
    OBVIOUS
<1>1. saving \in Savings /\ article \in Articles /\ rows \in [EditTarget -> PostRows]
      /\ live \in [EditTarget -> AnyText]
      BY DEF EditorInv, EditorTyped
<1>2. UNCHANGED <<live, draft, cover, revived>> /\ form' = Closed /\ saving' = NotSaving /\ saves' = saves + 1
      /\ article' = [article EXCEPT !.body = NewBody]
      BY DEF WriteOverrides
<1>3. <<>> \in ForSome(Entries) /\ <<>> \in ForSome(AnyText)
  <2>1. ASSUME NEW S PROVE <<>> \in [{} -> S]
        OBVIOUS
  <2> QED BY <2>1 DEF ForSome
<1>4. saving' \in Savings /\ DOMAIN saving'.sent = {} /\ DOMAIN saving'.shown = {} /\ saving'.at = "none"
      BY <1>2, <1>3 DEF NotSaving, Savings, AnyText
<1>5. article' \in Articles /\ article'.media = article.media /\ article'.status = article.status
      /\ form' \in Forms /\ form'.page = "closed"
  <2>1. NewBody \in AnyText
        BY <1>1 DEF NewBody, Savings, Articles
  <2> QED BY <1>1, <1>2, <2>1 DEF Articles, Forms, Closed, AnyText
<1>6. ASSUME NEW t \in EditTarget
      PROVE  rows'[t] \in PostRows /\ rows'[t].status = rows[t].status /\ rows'[t].media = rows[t].media
  <2>1. CASE t \notin DOMAIN saving.sent \/ rows[t].status # "PUBLISHED"
        BY <1>1, <2>1 DEF WriteOverrides
  <2>2. CASE t \in DOMAIN saving.sent /\ rows[t].status = "PUBLISHED"
    <3>1. PICK o \in Entries : o = saving.sent[t]
          BY <1>1, <2>2 DEF Savings, ForSome
    <3>2. PICK r \in PostRows : r = rows[t]
          BY <1>1
    <3>3. PICK text, options, thumb :
            /\ text = IF o.text = Blank THEN r.text ELSE o.text
            /\ options = (r.options \/ o.options)
            /\ thumb = IF o.options THEN o.thumb ELSE r.thumb
          OBVIOUS
    <3>4. rows'[t] = [r EXCEPT !.text = text, !.options = options, !.thumb = thumb]
          BY <2>2, <3>1, <3>2, <3>3 DEF WriteOverrides, PostRows
    <3>5. text \in AnyText /\ options \in BOOLEAN /\ thumb \in Thumbs
          BY <3>3 DEF Entries, PostRows
    <3> QED BY <3>2, <3>4, <3>5 DEF PostRows
  <2> QED BY <2>1, <2>2
<1>7. rows' \in [EditTarget -> PostRows]
  <2>1. DOMAIN rows' = EditTarget /\ rows' = [t \in EditTarget |-> rows'[t]]
        BY DEF WriteOverrides
  <2> QED BY <1>6, <2>1
<1>8. saves' \in Nat
      BY <1>2 DEF EditorInv, EditorTyped
<1> QED BY <1>2, <1>4, <1>5, <1>6, <1>7, <1>8
           DEF EditorInv, EditorTyped, RequestsAreWhole, DraftsAreCoherent, ShownIsSent

(* The worker publishes some of the targets.                               *)
LEMMA PublishKeeps == EditorInv /\ Publish => EditorInv'
<1> SUFFICES ASSUME EditorInv, Publish PROVE EditorInv'
    OBVIOUS
<1>1. saving \in Savings /\ article \in Articles /\ rows \in [EditTarget -> PostRows]
      /\ live \in [EditTarget -> AnyText]
      BY DEF EditorInv, EditorTyped
<1>2. UNCHANGED <<form, draft, cover, saving, revived, saves>> /\ saving.at = "none"
      BY DEF Publish
<1>3. PICK done \in SUBSET {t \in EditTarget : rows[t].status = "PENDING"} :
       /\ article' = [article EXCEPT !.status = "PUBLISHED"]
       /\ rows' = [t \in EditTarget |-> IF rows[t].status # "PENDING" THEN rows[t]
                     ELSE [rows[t] EXCEPT !.status = IF t \in done THEN "PUBLISHED" ELSE "FAILED"]]
       /\ live' = [t \in EditTarget |-> IF t \notin done THEN live[t]
                     ELSE IF rows[t].text # Blank THEN rows[t].text ELSE article.body]
      BY DEF Publish
<1>4. article' \in Articles /\ article'.status = "PUBLISHED" /\ article'.media = article.media
      BY <1>1, <1>3 DEF Articles
<1>5. ASSUME NEW t \in EditTarget
      PROVE  rows'[t] \in PostRows /\ rows'[t].media = rows[t].media /\ live'[t] \in AnyText
  <2>1. rows[t] \in PostRows /\ live[t] \in AnyText
        BY <1>1
  <2> QED BY <1>1, <1>3, <2>1 DEF PostRows, Articles
<1>6. rows' \in [EditTarget -> PostRows] /\ live' \in [EditTarget -> AnyText]
  <2>1. rows' = [t \in EditTarget |-> rows'[t]] /\ live' = [t \in EditTarget |-> live'[t]]
        BY <1>3
  <2> QED BY <1>5, <2>1
<1> QED BY <1>2, <1>4, <1>5, <1>6
           DEF EditorInv, EditorTyped, RequestsAreWhole, DraftsAreCoherent, ShownIsSent, WillSay
-----------------------------------------------------------------------------
(* Initially the page is closed and nothing is being saved.                *)
LEMMA EditorInvInit == EditorInit => EditorInv
<1> SUFFICES ASSUME EditorInit PROVE EditorInv
    OBVIOUS
<1>1. <<>> \in ForSome(Entries) /\ <<>> \in ForSome(AnyText)
  <2>1. ASSUME NEW S PROVE <<>> \in [{} -> S]
        OBVIOUS
  <2> QED BY <2>1 DEF ForSome
<1>2. saving \in Savings /\ DOMAIN saving.sent = {} /\ DOMAIN saving.shown = {} /\ saving.at = "none"
      BY <1>1 DEF EditorInit, NotSaving, Savings, AnyText
<1>3. NoRow \in PostRows /\ NoRow.media = {} /\ NoRow.status = "none" /\ EmptyOverride \in Overrides
      BY DEF NoRow, PostRows, Thumbs, AnyText, EmptyOverride, Overrides
<1>4. article \in Articles /\ form \in Forms /\ form.page = "closed" /\ live \in [EditTarget -> AnyText]
      BY DEF EditorInit, Articles, Forms, Closed, AnyText
<1>5. cover.common \in Commons /\ ~cover.on
      BY DEF EditorInit, NoUpload, Commons, AnyText
<1> QED BY <1>2, <1>3, <1>4, <1>5
           DEF EditorInit, EditorInv, EditorTyped, RequestsAreWhole, DraftsAreCoherent, ShownIsSent

(* One step per action, proved above.                                      *)
LEMMA EditorInvStep == EditorInv /\ [EditorNext]_editorVars => EditorInv'
<1> SUFFICES ASSUME EditorInv, [EditorNext]_editorVars PROVE EditorInv'
    OBVIOUS
<1>1. CASE UNCHANGED editorVars
      BY <1>1 DEF editorVars, EditorInv, EditorTyped, RequestsAreWhole, DraftsAreCoherent,
         ShownIsSent, WillSay
<1> QED BY <1>1, OpeningKeeps, FormKeeps, PatchKeeps, RemovingKeeps, CoverKeeps, SaveKeeps,
           RefusalKeeps,
           WriteKeeps, RemoteKeeps, OverridesKeep, PublishKeeps DEF EditorNext

(* Hence it holds throughout.                                              *)
LEMMA EditorInvHolds == EditorSpec => []EditorInv
BY EditorInvInit, EditorInvStep, PTL DEF EditorSpec

(* The types, and that a published target belongs to a published post.     *)
THEOREM EditorTypesHold == EditorSpec => []EditorTypeOK
<1>1. EditorInv => EditorTypeOK
      BY DEF EditorInv, EditorTyped, RequestsAreWhole, EditorTypeOK, Articles, PostRows,
         Overrides, Forms,
             Savings, AnyText
<1> QED BY <1>1, EditorInvHolds, PTL

(* What a target shows is taken from the media of its post, whatever is    *)
(* typed, removed, uploaded and saved in between: only a cover upload that *)
(* answers late brings a removed picture back.                             *)
THEOREM DraftsHold == EditorSpec => []DraftsAreCoherent
<1>1. EditorInv => DraftsAreCoherent
      BY DEF EditorInv
<1> QED BY <1>1, EditorInvHolds, PTL

(* Only the two writes of the server end a save.                           *)
LEMMA OthersSaveNothing ==
  ASSUME [EditorNext]_editorVars, saves' # saves
  PROVE  Write \/ WriteOverrides
<1>1. ~(UNCHANGED editorVars) /\ ~OpenNew /\ ~OpenEdit /\ ~CoverUploaded
      BY DEF editorVars, server, OpenNew, OpenEdit, CoverUploaded
<1>2. ~Save /\ ~SaveRefused /\ ~BeginRemote /\ ~Publish
      BY DEF Save, SaveRefused, BeginRemote, Publish
<1>3. ASSUME NEW text PROVE ~TypeBody(text) /\ \A t \in EditTarget : ~TypeOverride(t, text)
      BY DEF TypeBody, TypeOverride, server
<1>4. ASSUME NEW t \in EditTarget
      PROVE  /\ ~ToggleAccount(t) /\ ~Reset(t) /\ ~Customize(t) /\ ~UploadCover(t) /\ ~EditRemote(t)
             /\ \A p \in Pictures : ~SelectMedia(t, p)
             /\ \A p \in Thumbs : ~SelectCover(t, p)
      BY DEF ToggleAccount, Reset, Customize, UploadCover, EditRemote, SelectMedia,
         SelectCover, server
<1>5. ASSUME NEW p \in Pictures
      PROVE  ~UploadMedia(p) /\ ~ThumbnailDone(p) /\ ~AddMedia(p) /\ ~RemoveMedia(p)
      BY DEF UploadMedia, ThumbnailDone, AddMedia, RemoveMedia, server
<1> QED BY <1>1, <1>2, <1>3, <1>4, <1>5 DEF EditorNext

(* A save that succeeds has stored, or told the platforms, what the page   *)
(* showed for every target when it was sent.                               *)
THEOREM SavesTellTheTruth == EditorSpec => SavesSayWhatWasShown
<1>1. ASSUME EditorInv, [EditorNext]_editorVars, saves' > saves, NEW t \in DOMAIN saving.shown
      PROVE  IF article.status = "PUBLISHED" THEN rows[t].status = "PUBLISHED" => live'[t] = saving.shown[t]
             ELSE saving.shown[t] = IF rows'[t].text # Blank THEN rows'[t].text ELSE article'.body
  <2>1. saving \in Savings /\ saves \in Nat /\ t \in EditTarget /\ t \in saving.chosen
        /\ saving.shown[t] # Blank /\ saving.shown[t] = WillSay(t)
        BY <1>1 DEF EditorInv, EditorTyped, RequestsAreWhole, ShownIsSent, Savings
  <2>2. Write \/ WriteOverrides
    <3>1. saves' # saves
          BY <1>1, <2>1
    <3> QED BY <1>1, <3>1, OthersSaveNothing
  <2>3. CASE Write
    <3>1. article.status # "PUBLISHED" /\ rows'[t].text = ReplacedRow(t).text /\ article'.body = NewBody
          BY <2>1, <2>3 DEF Write
    <3>2. ReplacedRow(t).text = IF t \in DOMAIN saving.sent THEN saving.sent[t].text ELSE Blank
          BY <2>1 DEF ReplacedRow, NoRow
    <3> QED BY <2>1, <3>1, <3>2 DEF WillSay, NewBody
  <2>4. CASE WriteOverrides
        BY <1>1, <2>1, <2>4 DEF WriteOverrides, EditorInv, ShownIsSent
  <2> QED BY <2>2, <2>3, <2>4
<1>2. EditorInv /\ [EditorNext]_editorVars =>
        [saves' > saves =>
           \A t \in DOMAIN saving.shown :
             IF article.status = "PUBLISHED" THEN rows[t].status = "PUBLISHED" => live'[t] = saving.shown[t]
             ELSE saving.shown[t] = IF rows'[t].text # Blank THEN rows'[t].text ELSE article'.body]_editorVars
      BY <1>1
<1> QED BY <1>2, EditorInvHolds, PTL DEF EditorSpec, SavesSayWhatWasShown
-----------------------------------------------------------------------------
(* The composer, for any number of touches of a panel. What the form lets  *)
(* through the schema of the API takes too, and what was chosen arrives at *)
(* the adapter.                                                            *)

(* The platforms the composer knows.                                       *)
Networks == {"FACEBOOK", "INSTAGRAM", "PINTEREST", "YOUTUBE", "TIKTOK"}

(* The types, with the material and the words of the target.               *)
ComposerTyped ==
  /\ ComposerTypeOK
  /\ material.images \in 0..2 /\ material.videos \in 0..2
  /\ material.cover \in {"there", "missing", "noFrame"}
  /\ words \subseteq {"title", "text", "long", "link", "noLink", "otherLink"}

(* What went through the form is still acceptable, and what hung on the    *)
(* style was left behind; what was sent is what was chosen and is sent.    *)
StagesFit ==
  /\ stage \in {"valid", "sent"} => Valid
  /\ stage \in {"stored", "valid", "sent"} /\ network = "TIKTOK" /\ style = "MEDIA_UPLOAD"
     => chosen \cap DirectFields = {}
  /\ stage = "sent" => passed = chosen \cap Sends

(* The inductive invariant.                                                *)
ComposerInv == ComposerTyped /\ StagesFit

(* Each has fields of its own.                                             *)
LEMMA NetworksAre == DOMAIN FieldsOf = Networks
BY DEF FieldsOf, Networks

(* Which fields those are.                                                 *)
LEMMA FieldsAre ==
  /\ FieldsOf["FACEBOOK"] = FacebookFields /\ FieldsOf["INSTAGRAM"] = InstagramFields
  /\ FieldsOf["PINTEREST"] = PinterestFields /\ FieldsOf["YOUTUBE"] = YouTubeFields
  /\ FieldsOf["TIKTOK"] = TikTokFields
BY DEF FieldsOf

(* The schema, platform by platform.                                       *)
LEMMA ValidOf ==
  /\ network = "FACEBOOK" => (Valid <=> CoverFound /\ FacebookValid)
  /\ network = "INSTAGRAM" => (Valid <=> CoverFound /\ InstagramValid)
  /\ network = "PINTEREST" => (Valid <=> CoverFound /\ PinterestValid)
  /\ network = "YOUTUBE" => (Valid <=> CoverFound /\ YouTubeValid)
  /\ network = "TIKTOK" => (Valid <=> CoverFound /\ TikTokValid)
BY DEF Valid, PlatformValid

(* What the adapter reads, platform by platform.                           *)
LEMMA SendsOf ==
  /\ network = "FACEBOOK" => Sends = FacebookSends
  /\ network = "INSTAGRAM" => Sends = InstagramSends
  /\ network = "PINTEREST" => Sends = PinterestSends
  /\ network = "YOUTUBE" => Sends = YouTubeSends
  /\ network = "TIKTOK" => Sends = TikTokSends
BY DEF Sends

(* The styles there are.                                                   *)
LEMMA StylesAre ==
  /\ network = "INSTAGRAM" => Styles(network) = {"FEED", "CAROUSEL", "REELS", "STORY"}
  /\ network = "TIKTOK" => Styles(network) = {"MEDIA_UPLOAD", "DIRECT_POST"}
  /\ network \notin {"INSTAGRAM", "TIKTOK"} => Styles(network) = {"plain"}
BY DEF Styles

(* Initially little or nothing is chosen.                                  *)
LEMMA ComposerInvInit == ComposerInit => ComposerInv
<1> SUFFICES ASSUME ComposerInit PROVE ComposerInv
  OBVIOUS
<1>1. network \in DOMAIN FieldsOf /\ style \in Styles(network) /\ chosen \subseteq FieldsOf[network]
  <2>1. CASE style \in Styles(network) \ {"DIRECT_POST"} /\ chosen = {}
    BY <2>1 DEF ComposerInit
  <2>2. CASE network = "TIKTOK" /\ style = "DIRECT_POST" /\ chosen = {"privacyLevel", "consent"}
    <3>1. {"privacyLevel", "consent"} \subseteq TikTokFields
      BY DEF TikTokFields, DirectFields
    <3> QED
      BY <2>2, <3>1, StylesAre, FieldsAre DEF ComposerInit
  <2> QED
    BY <2>1, <2>2 DEF ComposerInit
<1>2. /\ "brandContent" \notin chosen /\ "brandOrganic" \notin chosen /\ "boardSectionId" \notin chosen
  BY DEF ComposerInit
<1>3. creator \subseteq {"privacyLevel"} \cup Allowances /\ panelTouches \in 0..MaxPanelTouches
  BY ComposerAssumption DEF ComposerInit
<1>4. /\ material.images \in 0..2 /\ material.videos \in 0..2
      /\ material.cover \in {"there", "missing", "noFrame"}
      /\ words \subseteq {"title", "text", "long", "link", "noLink", "otherLink"}
  BY DEF ComposerInit
<1> QED
  BY <1>1, <1>2, <1>3, <1>4 DEF ComposerInit, ComposerInv, ComposerTyped, ComposerTypeOK,
     StagesFit

(* What is stored is chosen, and what hangs on another choice comes with   *)
(* it.                                                                     *)
LEMMA StoredFits ==
  ASSUME ComposerTypeOK
  PROVE  /\ StoredOptions \subseteq chosen
         /\ {"brandContent", "brandOrganic"} \cap StoredOptions # {} => "commercial" \in StoredOptions
         /\ "boardSectionId" \in StoredOptions => "boardId" \in StoredOptions
         /\ network = "TIKTOK" /\ style = "MEDIA_UPLOAD" => StoredOptions \cap DirectFields = {}
<1>0. "commercial" \in chosen => "commercial" \in DirectFields
  BY DEF DirectFields
<1>1. CASE network = "INSTAGRAM"
  <2>1. StoredOptions = {f \in chosen : /\ f = "shareToFeed" => style = "REELS"
                                        /\ f \in {"locationId", "altText"} => style \in {"FEED", "CAROUSEL"}}
    BY <1>1 DEF StoredOptions
  <2> QED
    BY <1>1, <2>1 DEF ComposerTypeOK
<1>2. CASE network = "TIKTOK"
  <2>1. StoredOptions = {f \in chosen : /\ f \in Allowances \cup DirectFields => style = "DIRECT_POST"
                                        /\ f \in {"brandContent", "brandOrganic"} => "commercial" \in chosen}
    BY <1>2 DEF StoredOptions
  <2>2. \A f \in {"brandContent", "brandOrganic", "commercial"} : f \in DirectFields /\ f \notin Allowances
    BY DEF DirectFields, Allowances
  <2>3. "boardSectionId" \notin chosen
    BY <1>2, FieldsAre DEF ComposerTypeOK, TikTokFields, DirectFields, Allowances
  <2> QED
    BY <1>2, <2>1, <2>2, <2>3 DEF ComposerTypeOK
<1>3. CASE network \notin {"INSTAGRAM", "TIKTOK"}
  <2>1. StoredOptions = chosen
    BY <1>3 DEF StoredOptions
  <2> QED
    BY <1>3, <2>1 DEF ComposerTypeOK
<1> QED
  BY <1>1, <1>2, <1>3

(* One step per action.                                                    *)
LEMMA ComposerInvStep == ComposerInv /\ [ComposerNext]_composerVars => ComposerInv'
<1> SUFFICES ASSUME ComposerInv, [ComposerNext]_composerVars PROVE ComposerInv'
  OBVIOUS
<1>0. ComposerTyped /\ ComposerTypeOK /\ StagesFit
  BY DEF ComposerInv, ComposerTyped
<1>c. ASSUME Change PROVE panelTouches' \in 0..MaxPanelTouches /\ stage = "panel"
  BY <1>0, <1>c, ComposerAssumption DEF Change, ComposerTypeOK
<1>1. ASSUME NEW f \in FieldsOf[network], Choose(f) PROVE ComposerInv'
  <2>1. /\ Change /\ Offers(f) /\ chosen' = (IF f \in chosen THEN Without(f) ELSE chosen \cup {f})
        /\ UNCHANGED <<network, style, material, words, creator, stage, passed>>
    BY <1>1 DEF Choose
  <2>2. chosen' \subseteq FieldsOf[network]
    BY <1>0, <2>1 DEF ComposerTypeOK, Without
  <2>3. {"brandContent", "brandOrganic"} \cap chosen' # {} => "commercial" \in chosen'
    <3>1. CASE f \in chosen
      <4>1. CASE f = "commercial"
        <5>1. chosen' = chosen \ {f, "brandContent", "brandOrganic"}
          BY <2>1, <3>1, <4>1 DEF Without
        <5> QED
          BY <5>1
      <4>2. CASE f # "commercial"
        <5>1. "commercial" \in chosen => "commercial" \in chosen'
          BY <2>1, <3>1, <4>2 DEF Without
        <5>2. chosen' \subseteq chosen
          BY <2>1, <3>1 DEF Without
        <5> QED
          BY <1>0, <5>1, <5>2 DEF ComposerTypeOK
      <4> QED
        BY <4>1, <4>2
    <3>2. CASE f \notin chosen
      <4>1. f \in {"brandContent", "brandOrganic"} => "commercial" \in chosen
        <5>1. network = "TIKTOK" => TikTokOffers(f)
          BY <2>1 DEF Offers
        <5>2. f \in {"brandContent", "brandOrganic"} => network = "TIKTOK"
          BY <1>0, FieldsAre DEF ComposerTypeOK, FieldsOf, FacebookFields, InstagramFields,
             PinterestFields, YouTubeFields
        <5> QED
          BY <5>1, <5>2 DEF TikTokOffers, Allowances
      <4> QED
        BY <1>0, <2>1, <3>2, <4>1 DEF ComposerTypeOK
    <3> QED
      BY <3>1, <3>2
  <2>4. "boardSectionId" \in chosen' => "boardId" \in chosen'
    <3>1. CASE f \in chosen
      <4>1. f = "boardId" => chosen' = chosen \ {f, "boardSectionId"}
        BY <2>1, <3>1 DEF Without
      <4>2. f # "boardId" /\ "boardId" \in chosen => "boardId" \in chosen'
        BY <2>1, <3>1 DEF Without
      <4>3. chosen' \subseteq chosen
        BY <2>1, <3>1 DEF Without
      <4> QED
        BY <1>0, <4>1, <4>2, <4>3 DEF ComposerTypeOK
    <3>2. CASE f \notin chosen
      BY <1>0, <2>1, <3>2 DEF ComposerTypeOK, Offers
    <3> QED
      BY <3>1, <3>2
  <2>5. panelTouches' \in 0..MaxPanelTouches /\ stage = "panel"
    BY <1>c, <2>1
  <2>6. ComposerTyped'
    BY <1>0, <2>1, <2>2, <2>3, <2>4, <2>5 DEF ComposerTyped, ComposerTypeOK
  <2> QED
    BY <2>1, <2>5, <2>6 DEF ComposerInv, StagesFit
<1>2. ASSUME NEW s \in Styles(network), SetStyle(s) PROVE ComposerInv'
  <2>1. /\ Change /\ style' = s
        /\ chosen' = (IF s = "MEDIA_UPLOAD" THEN chosen \ DirectFields ELSE chosen)
        /\ UNCHANGED <<network, material, words, creator, stage, passed>>
    BY <1>2 DEF SetStyle
  <2>2. panelTouches' \in 0..MaxPanelTouches /\ stage = "panel"
    BY <1>c, <2>1
  <2>3. {"brandContent", "brandOrganic"} \subseteq DirectFields /\ "boardId" \notin DirectFields
    BY DEF DirectFields
  <2>4. ComposerTypeOK'
    BY <1>0, <2>1, <2>2, <2>3 DEF ComposerTypeOK
  <2> QED
    BY <1>0, <2>1, <2>2, <2>4 DEF ComposerInv, ComposerTyped, StagesFit
<1>3. CASE CreatorChanges
  <2>1. /\ network = "TIKTOK" /\ stage # "sent" /\ creator' \subseteq creator
        /\ UNCHANGED <<network, style, chosen, material, words, stage, passed, panelTouches>>
    BY <1>3 DEF CreatorChanges
  <2>2. ComposerTyped'
    BY <1>0, <2>1 DEF ComposerTyped, ComposerTypeOK
  <2>3. Valid' <=> Valid
    BY <2>1 DEF Valid, CoverFound, PlatformValid, TikTokValid, TikTokForm, images, videos, FacebookValid,
       InstagramValid, PinterestValid, OnePin, YouTubeValid
  <2>4. StagesFit'
    BY <1>0, <2>1, <2>3 DEF StagesFit
  <2> QED
    BY <2>2, <2>4 DEF ComposerInv
<1>4. CASE Submit
  <2>1. /\ stage = "panel" /\ stage' = "stored" /\ chosen' = StoredOptions
        /\ UNCHANGED <<network, style, material, words, creator, passed, panelTouches>>
    BY <1>4 DEF Submit
  <2>2. /\ StoredOptions \subseteq chosen
        /\ {"brandContent", "brandOrganic"} \cap StoredOptions # {} => "commercial" \in StoredOptions
        /\ "boardSectionId" \in StoredOptions => "boardId" \in StoredOptions
        /\ network = "TIKTOK" /\ style = "MEDIA_UPLOAD" => StoredOptions \cap DirectFields = {}
    BY <1>0, StoredFits
  <2>3. ComposerTyped'
    BY <1>0, <2>1, <2>2 DEF ComposerTyped, ComposerTypeOK
  <2>4. StagesFit'
    BY <2>1, <2>2 DEF StagesFit
  <2> QED
    BY <2>3, <2>4 DEF ComposerInv
<1>5. CASE Validate
  <2>1. /\ stage = "stored" /\ stage' = (IF Valid THEN "valid" ELSE "failed")
        /\ UNCHANGED <<network, style, chosen, material, words, creator, passed, panelTouches>>
    BY <1>5 DEF Validate
  <2>2. Valid' <=> Valid
    BY <2>1 DEF Valid, CoverFound, PlatformValid, TikTokValid, TikTokForm, images, videos, FacebookValid,
       InstagramValid, PinterestValid, OnePin, YouTubeValid
  <2>3. ComposerTyped'
    BY <1>0, <2>1 DEF ComposerTyped, ComposerTypeOK
  <2>4. StagesFit'
    BY <1>0, <2>1, <2>2 DEF StagesFit
  <2> QED
    BY <2>3, <2>4 DEF ComposerInv
<1>6. CASE Transmit
  <2>1. /\ stage = "valid" /\ UNCHANGED <<network, style, chosen, material, words, creator, panelTouches>>
        /\ \/ stage' = "failed" /\ UNCHANGED passed
           \/ stage' = "sent" /\ passed' = chosen \cap Sends
    BY <1>6 DEF Transmit
  <2>2. (Valid' <=> Valid) /\ Sends' = Sends
    BY <2>1 DEF Valid, CoverFound, PlatformValid, TikTokValid, TikTokForm, images, videos, FacebookValid,
       InstagramValid, PinterestValid, OnePin, YouTubeValid,
       Sends, FacebookSends, InstagramSends, PinterestSends, YouTubeSends, TikTokSends
  <2>3. ComposerTyped'
    BY <1>0, <2>1 DEF ComposerTyped, ComposerTypeOK
  <2>4. StagesFit'
    BY <1>0, <2>1, <2>2 DEF StagesFit
  <2> QED
    BY <2>3, <2>4 DEF ComposerInv
<1>7. CASE UNCHANGED composerVars
  <2>1. UNCHANGED <<network, style, chosen, material, words, creator, stage, passed, panelTouches>>
    BY <1>7 DEF composerVars
  <2>2. (Valid' <=> Valid) /\ Sends' = Sends
    BY <2>1 DEF Valid, CoverFound, PlatformValid, TikTokValid, TikTokForm, images, videos, FacebookValid,
       InstagramValid, PinterestValid, OnePin, YouTubeValid,
       Sends, FacebookSends, InstagramSends, PinterestSends, YouTubeSends, TikTokSends
  <2> QED
    BY <2>1, <2>2 DEF ComposerInv, ComposerTyped, ComposerTypeOK, StagesFit
<1> QED
  BY <1>1, <1>2, <1>3, <1>4, <1>5, <1>6, <1>7 DEF ComposerNext

(* Hence it holds throughout.                                              *)
LEMMA ComposerInvHolds == ComposerSpec => []ComposerInv
BY ComposerInvInit, ComposerInvStep, PTL DEF ComposerSpec

(* The form and the worker agree on every material and every words.        *)
LEMMA FormsAgree == ASSUME ComposerTyped PROVE FormForesees
<1> DEFINE i == images
           v == videos
           formFits == CASE network = "FACEBOOK"  -> v <= 1 /\ (v = 0 \/ i = 0)
                         [] network = "INSTAGRAM" -> i + v > 0
                         [] network = "PINTEREST" -> OnePin
                         [] network = "YOUTUBE"   -> "title" \in words /\ v = 1 /\ i = 0
                         [] OTHER                 -> TikTokForm
           linked == words \cap {"noLink", "otherLink"} = {}
           anything == words # {} \/ i + v > 0
           excused == \/ network = "FACEBOOK" /\ words = {"title"} /\ i + v = 0
                      \/ "long" \in words
                      \/ network = "PINTEREST" /\ (material.web \/ v = 1)
                      \/ network = "INSTAGRAM" /\ ~material.hosted
<1>0. /\ i \in 0..2 /\ v \in 0..2 /\ network \in Networks
  BY NetworksAre DEF ComposerTyped, ComposerTypeOK, images, videos
<1>f. FormAccepts <=> /\ linked /\ material.ready /\ anything
                      /\ "thumbnail" \in chosen => material.cover # "missing"
                      /\ formFits
  BY DEF FormAccepts, FormAcceptsWith
<1>v. Valid <=> CoverFound /\ PlatformValid
  BY DEF Valid
<1>1. (linked /\ anything /\ formFits => PlatformValid \/ excused) /\ (PlatformValid => anything /\ formFits)
  <2>1. CASE network = "FACEBOOK"
    <3>1. PlatformValid <=> v <= 1 /\ (v = 0 \/ i = 0) /\ (words # {"title"} \/ i + v > 0)
                              /\ (words # {} \/ i + v > 0)
      BY <2>1 DEF PlatformValid, FacebookValid
    <3>2. i + v > 0 \/ i + v = 0
      BY <1>0
    <3> QED
      BY <2>1, <3>1, <3>2
  <2>2. CASE network = "INSTAGRAM"
    <3>1. PlatformValid <=> i + v > 0 /\ material.hosted /\ "long" \notin words
      BY <2>2 DEF PlatformValid, InstagramValid
    <3> QED
      BY <2>2, <3>1
  <2>3. CASE network = "PINTEREST"
    <3>1. PlatformValid <=> /\ OnePin /\ ~material.web
                            /\ v = 1 => "thumbnail" \in chosen \/ i = 1
                            /\ words \cap {"long", "noLink", "otherLink"} = {}
      BY <2>3 DEF PlatformValid, PinterestValid
    <3>2. OnePin => i + v > 0
      BY <1>0 DEF OnePin
    <3>3. linked /\ "long" \notin words => words \cap {"long", "noLink", "otherLink"} = {}
      OBVIOUS
    <3> QED
      BY <2>3, <3>1, <3>2, <3>3
  <2>4. CASE network = "YOUTUBE"
    <3>1. PlatformValid <=> v = 1 /\ i = 0 /\ "title" \in words
      BY <2>4 DEF PlatformValid, YouTubeValid
    <3> QED
      BY <2>4, <3>1
  <2>5. CASE network = "TIKTOK"
    <3>1. PlatformValid <=> TikTokForm /\ "long" \notin words
      BY <2>5 DEF PlatformValid, TikTokValid
    <3>2. TikTokForm => i + v > 0
      BY <1>0 DEF TikTokForm
    <3> QED
      BY <2>5, <3>1, <3>2
  <2> QED
    BY <1>0, <2>1, <2>2, <2>3, <2>4, <2>5 DEF Networks
<1>2. material.cover \in {"there", "missing", "noFrame"}
  BY DEF ComposerTyped
<1>3. FormAccepts /\ ~Valid => excused \/ ("thumbnail" \in chosen /\ material.cover = "noFrame")
  <2> HIDE DEF linked, anything, formFits, excused
  <2> QED
    BY <1>f, <1>v, <1>1, <1>2 DEF CoverFound
<1>4. ApiAccepts /\ Valid => FormAccepts \/ "otherLink" \in words
  <2>1. ApiAccepts => material.ready /\ (linked \/ "otherLink" \in words)
    BY DEF ApiAccepts
  <2> HIDE DEF linked, anything, formFits, excused
  <2> QED
    BY <1>f, <1>v, <1>1, <2>1 DEF CoverFound
<1> QED
  BY <1>3, <1>4 DEF FormForesees

(* What is chosen, offered and not pointless is in what the adapter sends. *)
LEMMA ChoicesAreSent == ASSUME ComposerInv PROVE ChoicesArrive
<1> SUFFICES ASSUME stage = "sent", NEW f \in chosen, Offers(f), ~Pointless(f), f \notin Ignored[network]
             PROVE  f \in Sends
  BY DEF ChoicesArrive, ComposerInv, StagesFit
<1> DEFINE i == images
           v == videos
<1>0. /\ i \in 0..2 /\ v \in 0..2 /\ network \in Networks /\ f \in FieldsOf[network] /\ Valid
      /\ style \in Styles(network)
  BY NetworksAre DEF ComposerInv, ComposerTyped, ComposerTypeOK, StagesFit, images, videos
<1>1. CASE network = "FACEBOOK"
  <2>1. f \in FacebookFields /\ f # "postType"
    BY <1>0, <1>1, FieldsAre DEF Ignored
  <2>2. f \in {"videoTitle", "thumbnail"} => v = 1
    BY DEF Pointless
  <2>3. f = "photoAltText" => v # 1
    BY <1>1 DEF Pointless
  <2> QED
    BY <1>1, <2>1, <2>2, <2>3, SendsOf DEF FacebookFields, FacebookSends
<1>2. CASE network = "INSTAGRAM"
  <2>1. f \in InstagramFields /\ style \in {"FEED", "CAROUSEL", "REELS", "STORY"}
    BY <1>0, <1>2, FieldsAre, StylesAre
  <2>2. InstagramOffers(f)
    BY <1>2 DEF Offers
  <2>3. f = "thumbnail" => v = 1
    BY DEF Pointless
  <2>4. i + v > 1 => f \notin {"shareToFeed", "altText", "userTags", "thumbnail"}
    BY <1>2 DEF Pointless
  <2> QED
    BY <1>2, <2>1, <2>2, <2>3, <2>4, SendsOf DEF InstagramFields, InstagramSends,
       InstagramOffers
<1>3. CASE network = "PINTEREST"
  <2>1. f \in PinterestFields /\ f \notin {"isStandard", "adAccountId", "productTags"}
    BY <1>0, <1>3, FieldsAre DEF Ignored
  <2>2. f = "thumbnail" => v = 1
    BY DEF Pointless
  <2>3. f = "altText" => v # 1
    BY <1>3 DEF Pointless
  <2> QED
    BY <1>3, <2>1, <2>2, <2>3, SendsOf DEF PinterestFields, PinterestSends
<1>4. CASE network = "YOUTUBE"
  <2>1. f \in YouTubeFields /\ f \notin {"tags", "notifySubscribers", "license", "embeddable", "publicStatsViewable",
                                         "defaultLanguage", "defaultAudioLanguage", "recordingDate",
                                           "recordingPlace"}
    BY <1>0, <1>4, FieldsAre DEF Ignored
  <2> QED
    BY <1>4, <2>1, SendsOf DEF YouTubeFields, YouTubeSends
<1>5. CASE network = "TIKTOK"
  <2>1. f \in TikTokFields /\ f \notin {"photoTitle", "photoDescription", "consent", "commercial"}
    BY <1>0, <1>5, FieldsAre DEF Ignored
  <2>2. f \in Allowances \cup DirectFields /\ style \in {"MEDIA_UPLOAD", "DIRECT_POST"}
    BY <1>0, <1>5, <2>1, StylesAre DEF TikTokFields
  <2>3. TikTokOffers(f)
    BY <1>5 DEF Offers
  <2>4. style = "DIRECT_POST"
    <3>1. style = "MEDIA_UPLOAD" => f \in Allowances
      BY <1>5, <2>2 DEF ComposerInv, StagesFit
    <3>2. f \in Allowances => style = "DIRECT_POST"
      BY <2>3 DEF TikTokOffers, Allowances
    <3> QED
      BY <2>2, <3>1, <3>2
  <2>5. /\ f \in Allowances => f \in creator
        /\ f \in {"allowDuet", "allowStitch"} => ~(i > 0)
        /\ f = "autoAddMusic" => v # 1
    BY DEF Pointless
  <2>6. (v = 1 /\ i = 0) \/ (v = 0 /\ i > 0)
    BY <1>0, <1>5, ValidOf DEF TikTokValid, TikTokForm
  <2>7. TikTokSends = {"privacyLevel", "selfOnly", "cover", "brandContent", "brandOrganic", "isAiGenerated"}
                        \cup IF v = 1 THEN Allowances \cap creator ELSE {"autoAddMusic"} \cup ({"allowComment"} \cap creator)
    BY <2>4 DEF TikTokSends
  <2>8. CASE f \in DirectFields
    <3>1. f \in {"privacyLevel", "selfOnly", "cover", "brandContent", "brandOrganic", "isAiGenerated", "autoAddMusic"}
      BY <2>1, <2>8 DEF DirectFields
    <3> QED
      BY <1>5, <2>5, <2>7, <3>1, SendsOf
  <2>9. CASE f \in Allowances
    <3>1. v # 1 => f = "allowComment"
      BY <2>5, <2>6, <2>9 DEF Allowances
    <3> QED
      BY <1>5, <2>5, <2>7, <2>9, <3>1, SendsOf
  <2> QED
    BY <2>2, <2>8, <2>9
<1> QED
  BY <1>0, <1>1, <1>2, <1>3, <1>4, <1>5 DEF Networks

(* Both together are the property.                                         *)
LEMMA ComposerInvKeepsFaith == ComposerInv => ComposerKeepsFaith
BY FormsAgree, ChoicesAreSent DEF ComposerInv, ComposerKeepsFaith

(* ComposerTypeOK, for any number of touches.                              *)
THEOREM ComposerTypesHold == ComposerSpec => []ComposerTypeOK
<1>1. ComposerInv => ComposerTypeOK
  BY DEF ComposerInv, ComposerTyped
<1> QED
  BY <1>1, ComposerInvHolds, PTL

(* ComposerKeepsFaith, for any number of touches: a choice the panel still *)
(* offers is sent; what the form accepts the worker takes, and what the    *)
(* API and the worker take the form accepts, with the exceptions named.    *)
THEOREM ComposerHolds == ComposerSpec => []ComposerKeepsFaith
BY ComposerInvKeepsFaith, ComposerInvHolds, PTL
-----------------------------------------------------------------------------
(* An upload, for any number of parts, workers, retries and failures. The  *)
(* page asks for the completion when every part is done and none is under  *)
(* way, and gives up before it asked or not at all.                        *)

(* What a part can be.                                                     *)
PartStates == {"waiting", "sent", "stored", "asleep", "done", "left"}
(* All parts are done.                                                     *)
AllDone == \A p \in Part : part[p] = "done"
(* The parts that are done.                                                *)
PartsDone(s) == {p \in Part : s[p] = "done"}

(* Each variable has its type.                                             *)
UploadTyped ==
  /\ sending \in {"creating", "putting", "roundabout", "confirming", "parts", "completing", "aborting",
                  "done", "failed"}
  /\ part \in [Part -> PartStates]
  /\ attempts \in [Part -> 0..MaxAttempts + 1] /\ allowance \in 1..MaxWorkers
  /\ etags \in Seq(Part) /\ hasFailed \in BOOLEAN
  /\ pile \in {"none", "open", "completed", "aborted"} /\ object \subseteq Part
  /\ asset \in {"none", "PENDING_UPLOAD", "PROCESSING", "FAILED", "unqueued", "gone"}
  /\ completer \in {"idle", "checked", "merged", "confirmed", "refused"}
  /\ aborter \in {"idle", "checked", "dropping"} /\ answerLost \in BOOLEAN

(* What each part's worker knows, and the tags of those that are done.     *)
PartsAreCounted ==
  /\ Len(etags) = Cardinality(PartsDone(part))
  /\ \A p \in Part : /\ part[p] = "done" => \E i \in DOMAIN etags : etags[i] = p
                     /\ part[p] = "left" => hasFailed
                     /\ part[p] # "left" => attempts[p] <= MaxAttempts

(* What the page does, by what has become of the parts.                    *)
PageFits ==
  /\ sending = "creating" => pile = "none" /\ asset = "none" /\ completer = "idle" /\ aborter = "idle"
  /\ pile = "none" => /\ \A p \in Part : part[p] = "waiting"
                      /\ sending \notin {"parts", "completing", "aborting"} /\ ~hasFailed
  /\ pile # "none" => sending \notin {"creating", "putting", "roundabout", "confirming"}
  /\ pile # "none" /\ ~AllDone => sending = "parts" \/ hasFailed
  /\ sending = "parts" => pile = "open"
  /\ sending \in {"parts", "putting", "roundabout"} => completer = "idle"
  /\ hasFailed => sending \in {"aborting", "failed"} /\ completer = "idle"
  /\ sending \in {"completing", "done"} /\ pile # "none" => AllDone

(* What the two requests of the API have found.                            *)
RequestsFit ==
  /\ completer \in {"checked", "merged"} \/ pile = "completed" => AllDone /\ ~hasFailed
  /\ completer = "merged" \/ sending = "confirming" => object = Part
  /\ asset = "PROCESSING" => completer = "confirmed" /\ object = Part
  /\ asset = "unqueued" => completer = "refused" /\ object = Part
  /\ completer = "confirmed" => asset \in {"PROCESSING", "gone"}
  /\ aborter # "idle" => sending = "aborting"
  /\ asset = "gone" => sending = "failed"
  /\ sending = "done" => completer = "confirmed"
  /\ sending \in {"aborting", "failed"} /\ ~answerLost => completer \in {"idle", "refused"}

(* No more parts are under way than there may be workers.                  *)
WorkersFit == Cardinality(Working(part)) <= MaxWorkers

(* The inductive invariant.                                                *)
UploadInv == UploadTyped /\ PartsAreCounted /\ WorkersFit /\ PageFits /\ RequestsFit

(* What the assumption on the constants says of the parts.                 *)
LEMMA PartsAreFinite ==
  /\ Parts \in Nat /\ Parts > 0 /\ IsFiniteSet(Part) /\ Cardinality(Part) = Parts /\ Part # {}
  /\ MaxWorkers \in Nat /\ MaxWorkers >= 2 /\ MaxAttempts \in Nat
<1>1. Parts \in Nat /\ Parts > 0 /\ MaxWorkers \in Nat /\ MaxWorkers >= 2 /\ MaxAttempts \in Nat
  BY UploadAssumption
<1>2. IsFiniteSet(1..Parts) /\ Cardinality(1..Parts) = Parts
  BY <1>1, FS_Interval
<1>3. 1 \in 1..Parts
  BY <1>1
<1> QED
  BY <1>1, <1>2, <1>3 DEF Part

(* Initially all parts wait.                                               *)
LEMMA UploadInvInit == UploadInit => UploadInv
<1> SUFFICES ASSUME UploadInit PROVE UploadInv
  OBVIOUS
<1>1. UploadTyped
  <2>1. 0 \in 0..MaxAttempts + 1 /\ 2 \in 1..MaxWorkers
    BY PartsAreFinite
  <2>2. /\ [p \in Part |-> "waiting"] \in [Part -> PartStates] /\ <<>> \in Seq(Part) /\ {} \subseteq Part
        /\ [p \in Part |-> 0] \in [Part -> 0..MaxAttempts + 1]
    BY <2>1 DEF PartStates
  <2> QED
    BY <2>1, <2>2 DEF UploadInit, UploadTyped
<1>2. PartsDone(part) = {} /\ Cardinality({}) = 0
  BY FS_EmptySet DEF UploadInit, PartsDone
<1>3. PartsAreCounted /\ WorkersFit
  <2>1. Len(etags) = 0 /\ \A p \in Part : part[p] = "waiting" /\ attempts[p] = 0
    BY DEF UploadInit
  <2>2. Working(part) = {}
    BY <2>1 DEF Working
  <2> QED
    BY <1>2, <2>1, <2>2, PartsAreFinite DEF PartsAreCounted, WorkersFit
<1>4. PageFits
  BY DEF UploadInit, PageFits
<1>5. RequestsFit
  BY DEF UploadInit, RequestsFit
<1> QED
  BY <1>1, <1>3, <1>4, <1>5 DEF UploadInv

(* The parts, what is counted of them, and that all are done, are of the   *)
(* parts' variables alone.                                                 *)
LEMMA WorkersRest ==
  ASSUME UploadInv, UNCHANGED workers
  PROVE  /\ PartsAreCounted' /\ WorkersFit' /\ (AllDone' <=> AllDone)
         /\ part' \in [Part -> PartStates] /\ attempts' \in [Part -> 0..MaxAttempts + 1]
         /\ allowance' \in 1..MaxWorkers /\ etags' \in Seq(Part) /\ hasFailed' \in BOOLEAN
            /\ hasFailed' = hasFailed
BY DEF workers, UploadInv, UploadTyped, PartsAreCounted, AllDone, PartsDone, WorkersFit, Working

(* Steps of the page and of the API, while the workers rest.               *)
LEMMA RestingFits ==
  ASSUME UploadInv,
         \/ CreateSmall \/ PutFile \/ PutFileFails \/ CheckCompletion \/ JoinParts \/ ConfirmUpload
         \/ Answered \/ LoseAnswer \/ Abort \/ AbortAtS3 \/ DropAborted
  PROVE  UploadInv'
<1>0. UploadTyped /\ PartsAreCounted /\ PageFits /\ RequestsFit
  BY DEF UploadInv
<1>1. UNCHANGED workers
  BY DEF CreateSmall, PutFile, PutFileFails, CheckCompletion, JoinParts, ConfirmUpload,
     Answered, LoseAnswer,
         Abort, AbortAtS3, DropAborted
<1>2. /\ PartsAreCounted' /\ WorkersFit' /\ (AllDone' <=> AllDone)
      /\ part' \in [Part -> PartStates] /\ attempts' \in [Part -> 0..MaxAttempts + 1]
      /\ allowance' \in 1..MaxWorkers /\ etags' \in Seq(Part) /\ hasFailed' \in BOOLEAN
         /\ hasFailed' = hasFailed
  BY <1>1, WorkersRest
<1>3. part' = part
  BY <1>1 DEF workers
<1>p. AllDone => pile # "none"
  BY PartsAreFinite, <1>0 DEF AllDone, PageFits
<1>4. CASE CreateSmall
  <2>1. /\ sending = "creating" /\ sending' = "putting" /\ asset' = "PENDING_UPLOAD"
        /\ UNCHANGED <<pile, object, completer, aborter, answerLost>>
    BY <1>4 DEF CreateSmall
  <2> QED
    BY <1>0, <1>2, <1>3, <2>1 DEF UploadInv, UploadTyped, PageFits, RequestsFit
<1>5. CASE PutFile
  <2>1. /\ sending \in {"putting", "roundabout"} /\ sending' = "confirming" /\ object' = Part
        /\ UNCHANGED <<pile, asset, completer, aborter, answerLost>>
    BY <1>5 DEF PutFile
  <2> QED
    BY <1>0, <1>2, <1>3, <2>1 DEF UploadInv, UploadTyped, PageFits, RequestsFit
<1>6. CASE PutFileFails
  <2>1. /\ sending \in {"putting", "roundabout"} /\ sending' \in {"roundabout", "failed"}
        /\ UNCHANGED <<pile, object, asset, completer, aborter, answerLost>>
    BY <1>6 DEF PutFileFails, store
  <2> QED
    BY <1>0, <1>2, <1>3, <2>1 DEF UploadInv, UploadTyped, PageFits, RequestsFit
<1>7. CASE CheckCompletion
  <2>1. /\ sending = "completing" /\ completer = "idle" /\ completer' \in {"checked", "refused"}
        /\ UNCHANGED <<sending, pile, object, asset, aborter, answerLost>>
    BY <1>7 DEF CheckCompletion, store
  <2> QED
    BY <1>0, <1>2, <1>3, <2>1 DEF UploadInv, UploadTyped, PageFits, RequestsFit
<1>8. CASE JoinParts
  <2>1. /\ completer = "checked" /\ UNCHANGED <<sending, asset, aborter, answerLost>>
        /\ \/ /\ pile = "open" /\ completer' = "merged" /\ pile' = "completed"
              /\ object' = {p \in Part : \E i \in DOMAIN etags : etags[i] = p}
           \/ completer' = "refused" /\ UNCHANGED <<pile, object>>
    BY <1>8 DEF JoinParts
  <2>2. AllDone /\ ~hasFailed
    BY <1>0, <2>1 DEF RequestsFit
  <2>3. {p \in Part : \E i \in DOMAIN etags : etags[i] = p} = Part
    BY <1>0, <2>2 DEF AllDone, PartsAreCounted
  <2> QED
    BY <1>0, <1>2, <1>3, <2>1, <2>2, <2>3 DEF UploadInv, UploadTyped, PageFits, RequestsFit
<1>9. CASE ConfirmUpload
  <2>1. /\ completer = "merged" \/ (sending = "confirming" /\ completer = "idle")
        /\ UNCHANGED <<sending, pile, object, aborter, answerLost>>
        /\ \/ asset # "gone" /\ completer' = "confirmed" /\ asset' = "PROCESSING"
           \/ completer' = "refused" /\ UNCHANGED asset
           \/ asset # "gone" /\ completer' = "refused" /\ asset' \in {"FAILED", "unqueued"}
    BY <1>9 DEF ConfirmUpload
  <2> QED
    BY <1>0, <1>2, <1>3, <2>1 DEF UploadInv, UploadTyped, PageFits, RequestsFit
<1>10. CASE Answered
  <2>1. /\ sending \in {"completing", "confirming"} /\ completer \in {"confirmed", "refused"}
        /\ sending' = IF completer = "confirmed" THEN "done" ELSE IF sending = "completing" THEN "aborting" ELSE "failed"
        /\ UNCHANGED <<pile, object, asset, completer, aborter, answerLost>>
    BY <1>10 DEF Answered, store
  <2>2. pile = "none" => sending = "confirming"
    BY <1>0, <2>1 DEF PageFits
  <2> QED
    BY <1>0, <1>2, <1>3, <2>1, <2>2 DEF UploadInv, UploadTyped, PageFits, RequestsFit
<1>11. CASE LoseAnswer
  <2>1. /\ sending \in {"completing", "confirming"} /\ answerLost' = TRUE
        /\ sending' = IF sending = "completing" THEN "aborting" ELSE "failed"
        /\ UNCHANGED <<pile, object, asset, completer, aborter>>
    BY <1>11 DEF LoseAnswer, store
  <2> QED
    BY <1>0, <1>2, <1>3, <2>1 DEF UploadInv, UploadTyped, PageFits, RequestsFit
<1>12. CASE Abort
  <2>1. /\ sending = "aborting" /\ aborter = "idle"
           /\ UNCHANGED <<pile, object, asset, completer, answerLost>>
        /\ \/ aborter' = "checked" /\ UNCHANGED sending
           \/ sending' = "failed" /\ UNCHANGED aborter
    BY <1>12 DEF Abort, store
  <2> QED
    BY <1>0, <1>2, <1>3, <2>1 DEF UploadInv, UploadTyped, PageFits, RequestsFit
<1>13. CASE AbortAtS3
  <2>1. /\ aborter = "checked" /\ aborter' = "dropping"
           /\ UNCHANGED <<sending, object, asset, completer, answerLost>>
        /\ pile' = pile \/ (pile = "open" /\ pile' = "aborted")
    BY <1>13 DEF AbortAtS3
  <2> QED
    BY <1>0, <1>2, <1>3, <2>1 DEF UploadInv, UploadTyped, PageFits, RequestsFit
<1>14. CASE DropAborted
  <2>1. /\ aborter = "dropping" /\ aborter' = "idle" /\ sending' = "failed"
        /\ UNCHANGED <<pile, object, completer, answerLost>>
        /\ asset' \in {"gone", asset}
    BY <1>14 DEF DropAborted
  <2> QED
    BY <1>0, <1>2, <1>3, <2>1 DEF UploadInv, UploadTyped, PageFits, RequestsFit
<1> QED
  BY <1>4, <1>5, <1>6, <1>7, <1>8, <1>9, <1>10, <1>11, <1>12, <1>13, <1>14

(* A step of a part that leaves the page and the API alone, and no part    *)
(* done or undone.                                                         *)
LEMMA PartMoves ==
  ASSUME UploadInv, NEW p \in Part, NEW s \in PartStates \ {"done"}, part[p] \in {"sent", "stored", "asleep"},
         part' = [part EXCEPT ![p] = s],
           UNCHANGED <<etags, pile, object, asset, completer, aborter, answerLost>>,
         allowance' \in 1..MaxWorkers,
         attempts' \in [Part -> 0..MaxAttempts + 1], \A q \in Part \ {p} : attempts'[q] = attempts[q],
         s = "left" => hasFailed', s # "left" => attempts'[p] <= MaxAttempts,
         UNCHANGED <<hasFailed, sending>> \/ (hasFailed' = TRUE /\ sending' = (IF hasFailed THEN sending ELSE "aborting"))
  PROVE  UploadInv'
<1>0. UploadTyped /\ PartsAreCounted /\ PageFits /\ RequestsFit
  BY DEF UploadInv
<1>1. /\ part' \in [Part -> PartStates] /\ part'[p] = s /\ \A q \in Part \ {p} : part'[q] = part[q]
  BY <1>0 DEF UploadTyped
<1>2. PartsDone(part') = PartsDone(part) /\ ~AllDone /\ ~AllDone'
  BY <1>1 DEF PartsDone, AllDone
<1>3. pile # "none" /\ (sending = "parts" \/ hasFailed)
  BY <1>0, <1>2 DEF PageFits
<1>4. PartsAreCounted'
  BY <1>0, <1>1, <1>2 DEF PartsAreCounted
<1>5. UploadTyped'
  <2>1. hasFailed' \in BOOLEAN /\ sending' \in {sending, "aborting"}
    BY <1>0 DEF UploadTyped
  <2> QED
    BY <1>0, <1>1, <2>1 DEF UploadTyped
<1>8. WorkersFit'
  <2>1. Working(part') \subseteq Working(part) /\ Working(part) \subseteq Part
    BY <1>1 DEF Working
  <2>2. IsFiniteSet(Working(part))
    BY <2>1, PartsAreFinite, FS_Subset
  <2>3. Cardinality(Working(part')) <= Cardinality(Working(part)) /\ Cardinality(Working(part')) \in Nat
        /\ Cardinality(Working(part)) \in Nat
    BY <2>1, <2>2, FS_Subset, FS_CardinalityType
  <2> QED
    BY <2>3, PartsAreFinite DEF UploadInv, WorkersFit
<1>6. PageFits'
  BY <1>0, <1>2, <1>3 DEF PageFits
<1>7. RequestsFit'
  BY <1>0, <1>2, <1>3 DEF RequestsFit, PageFits
<1> QED
  BY <1>4, <1>5, <1>6, <1>7, <1>8 DEF UploadInv

(* A set of naturals has a least element: < is well-founded.               *)
LEMMA LeastExists ==
  ASSUME NEW S \in SUBSET Nat, S # {}
  PROVE  \E p \in S : \A q \in S : p <= q
<1> DEFINE R == OpToRel(<, Nat)
<1>1. IsWellFoundedOn(R, Nat)
  BY NatLessThanWellFounded
<1>2. \A x, y \in Nat : <<x, y>> \in R <=> x < y
  BY DEF OpToRel
<1> HIDE DEF R
<1>3. PICK p \in S : \A q \in S : ~(<<q, p>> \in R)
  BY <1>1, WFMin
<1>4. ASSUME NEW q \in S PROVE p <= q
  <2>1. p \in Nat /\ q \in Nat /\ ~(q < p)
    BY <1>2, <1>3
  <2> QED
    BY <2>1
<1> QED
  BY <1>4

(* The first k of a set of parts are at most k.                            *)
LEMMA FirstOnes ==
  ASSUME NEW W \in SUBSET Part, NEW k \in Nat
  PROVE  LET first == {p \in W : Cardinality({q \in W : q < p}) < k}
         IN IsFiniteSet(first) /\ Cardinality(first) <= k
<1> DEFINE first == {p \in W : Cardinality({q \in W : q < p}) < k}
           before(p) == {q \in W : q < p}
<1>0. IsFiniteSet(W) /\ W \subseteq 1..Parts /\ Parts \in Nat
  BY PartsAreFinite, FS_Subset DEF Part
<1>1. first \subseteq W /\ IsFiniteSet(first)
  BY <1>0, FS_Subset
<1>2. ASSUME ~(Cardinality(first) <= k) PROVE FALSE
  <2>1. Cardinality(first) \in Nat /\ Cardinality(first) >= k + 1 /\ first # {}
    <3>1. Cardinality(first) \in Nat /\ Cardinality({}) = 0
      BY <1>1, FS_CardinalityType, FS_EmptySet
    <3>2. \A c \in Nat : ~(c <= k) => c >= k + 1 /\ c # 0
      OBVIOUS
    <3>3. Cardinality(first) >= k + 1 /\ Cardinality(first) # 0
      BY <1>2, <3>1, <3>2
    <3>4. first = {} => Cardinality(first) = 0
      BY <3>1
    <3> HIDE DEF first
    <3> QED
      BY <3>1, <3>3, <3>4
  <2> DEFINE S == {Parts - p : p \in first}
  <2>2. S \in SUBSET Nat /\ S # {}
    <3>1. \A q \in first : q \in 1..Parts
      BY <1>0, <1>1
    <3> HIDE DEF first
    <3>2. \A q \in first : Parts - q \in Nat
      BY <1>0, <3>1
    <3>3. PICK q \in first : TRUE
      BY <2>1
    <3>4. Parts - q \in S
      BY <3>3
    <3> QED
      BY <3>2, <3>4
  <2>3. PICK m \in first : \A q \in first : Parts - m <= Parts - q
    <3>1. \E x \in S : \A y \in S : x <= y
      BY <2>2, LeastExists
    <3> QED
      BY <3>1
  <2>4. m \in 1..Parts /\ \A q \in first : q \in 1..Parts
    BY <1>0, <1>1
  <2>5. \A q \in first \ {m} : q \in before(m)
    <3> SUFFICES ASSUME NEW q \in first \ {m} PROVE q < m
      BY <1>1
    <3>1. Parts - m <= Parts - q /\ q # m
      BY <2>3
    <3> QED
      BY <1>0, <2>4, <3>1
  <2>6. Cardinality(first \ {m}) = Cardinality(first) - 1
    BY <1>1, FS_RemoveElement
  <2>7. Cardinality(first \ {m}) <= Cardinality(before(m)) /\ Cardinality(before(m)) \in Nat
    <3>1. before(m) \subseteq W
      OBVIOUS
    <3>2. IsFiniteSet(before(m))
      BY <1>0, <3>1, FS_Subset
    <3> QED
      BY <2>5, <3>2, FS_Subset, FS_CardinalityType
  <2>8. Cardinality(before(m)) < k
    BY <2>3
  <2> QED
    BY <2>1, <2>6, <2>7, <2>8
<1> QED
  BY <1>1, <1>2

(* The first parts are taken up.                                           *)
LEMMA MultipartFits ==
  ASSUME UploadInv, CreateMultipart
  PROVE  UploadInv'
<1>0. UploadTyped /\ PartsAreCounted /\ PageFits /\ RequestsFit
  BY DEF UploadInv
<1>1. /\ sending = "creating" /\ asset' = "PENDING_UPLOAD" /\ pile' = "open" /\ sending' = "parts"
      /\ UNCHANGED <<attempts, allowance, hasFailed, etags, object, completer, aborter, answerLost>>
      /\ part' = [p \in Part |-> IF p <= allowance THEN "sent" ELSE "waiting"]
  BY DEF CreateMultipart
<1>2. pile = "none" /\ asset = "none" /\ completer = "idle" /\ aborter = "idle" /\ ~hasFailed
      /\ \A p \in Part : part[p] = "waiting"
  BY <1>0, <1>1 DEF PageFits
<1>3. /\ part' \in [Part -> PartStates] /\ \A p \in Part : part'[p] \in {"sent", "waiting"}
  BY <1>1 DEF PartStates
<1>4. PartsDone(part') = {} /\ PartsDone(part) = {}
  BY <1>2, <1>3 DEF PartsDone
<1>5. PartsAreCounted'
  BY <1>0, <1>1, <1>2, <1>3, <1>4 DEF PartsAreCounted
<1>6. WorkersFit'
  <2>1. allowance \in Nat /\ allowance <= MaxWorkers
    BY <1>0, PartsAreFinite DEF UploadTyped
  <2>2. IsFiniteSet(1..allowance) /\ Cardinality(1..allowance) = allowance
    BY <2>1, FS_Interval
  <2>3. Working(part') \subseteq 1..allowance
    BY <1>1, <2>1, PartsAreFinite DEF Working, Part
  <2>4. Cardinality(Working(part')) <= allowance /\ Cardinality(Working(part')) \in Nat
    BY <2>2, <2>3, FS_Subset, FS_CardinalityType
  <2> QED
    BY <2>1, <2>4, PartsAreFinite DEF WorkersFit
<1>7. UploadTyped'
  BY <1>0, <1>1, <1>3 DEF UploadTyped
<1>8. PageFits'
  BY <1>1, <1>2 DEF PageFits
<1>9. RequestsFit'
  BY <1>0, <1>1, <1>2 DEF RequestsFit
<1> QED
  BY <1>5, <1>6, <1>7, <1>8, <1>9 DEF UploadInv

(* The parts before and after: one of them is done, some are taken up.     *)
LEMMA PartsAfter ==
  ASSUME NEW f \in [Part -> PartStates], NEW s \in [Part -> PartStates], NEW p \in Part,
         NEW taken \in SUBSET Waiting(s), f[p] = "stored", s[p] = "done", \A q \in Part \ {p} : s[q] = f[q]
  PROVE  LET g == [q \in Part |-> IF q \in taken THEN "sent" ELSE s[q]]
         IN /\ g \in [Part -> PartStates] /\ g[p] = "done"
            /\ PartsDone(g) = PartsDone(f) \cup {p} /\ p \notin PartsDone(f) /\ PartsDone(f) \subseteq Part
            /\ Working(g) = Working(s) \cup taken
            /\ \A q \in Part : g[q] = "left" <=> f[q] = "left"
            /\ \A q \in Part \ taken : g[q] = s[q]
<1> DEFINE g == [q \in Part |-> IF q \in taken THEN "sent" ELSE s[q]]
<1>1. g \in [Part -> PartStates] /\ \A q \in Part : g[q] = IF q \in taken THEN "sent" ELSE s[q]
  BY DEF PartStates
<1>2. \A q \in taken : q \in Part /\ s[q] = "waiting" /\ q # p /\ f[q] = "waiting"
  BY DEF Waiting
<1> HIDE DEF g
<1>3. ASSUME NEW x \in Part
      PROVE  /\ g[x] = "done" <=> f[x] = "done" \/ x = p
             /\ g[x] = "left" <=> f[x] = "left"
             /\ g[x] \in {"sent", "stored", "asleep"} <=> s[x] \in {"sent", "stored", "asleep"} \/ x \in taken
             /\ x \notin taken => g[x] = s[x]
  <2>1. CASE x \in taken
    <3>1. g[x] = "sent" /\ f[x] = "waiting" /\ x # p
      BY <1>1, <1>2, <2>1
    <3> QED
      BY <2>1, <3>1
  <2>2. CASE x \notin taken
    <3>1. g[x] = s[x]
      BY <1>1, <2>2
    <3> QED
      BY <2>2, <3>1
  <2> QED
    BY <2>1, <2>2
<1>4. p \notin taken
  BY <1>2
<1>5. g[p] = "done" /\ p \notin PartsDone(f) /\ PartsDone(f) \subseteq Part
  BY <1>1, <1>4 DEF PartsDone
<1>6. PartsDone(g) = PartsDone(f) \cup {p}
  BY <1>3 DEF PartsDone
<1>7. Working(g) = Working(s) \cup taken
  BY <1>2, <1>3 DEF Working
<1>8. /\ \A q \in Part : g[q] = "left" <=> f[q] = "left"
      /\ \A q \in Part \ taken : g[q] = s[q]
  BY <1>3
<1> QED
  BY <1>1, <1>5, <1>6, <1>7, <1>8 DEF g

(* A part that is done, and the parts that are taken up next.              *)
LEMMA TakenFits ==
  ASSUME UploadInv, NEW p \in Part, NEW s \in [Part -> PartStates], NEW taken \in SUBSET Waiting(s),
         NEW free \in Nat,
         part[p] = "stored", etags' = Append(etags, p), allowance' \in 1..MaxWorkers,
         UNCHANGED <<attempts, hasFailed, pile, object, asset, completer, aborter, answerLost>>,
         part' = [q \in Part |-> IF q \in taken THEN "sent" ELSE s[q]],
         sending' = IF ~hasFailed' /\ Waiting(s) = {} /\ Working(s) = {} THEN "completing" ELSE sending,
         s[p] = "done", \A q \in Part \ {p} : s[q] = part[q],
         IsFiniteSet(Working(s)), Cardinality(Working(s)) \in Nat, Cardinality(Working(s)) <= MaxWorkers,
         IsFiniteSet(taken), Cardinality(taken) <= free, Cardinality(taken) \in Nat,
         free = 0 \/ free + Cardinality(Working(s)) = allowance'
  PROVE  UploadInv'
<1>0. UploadTyped /\ PartsAreCounted /\ WorkersFit /\ PageFits /\ RequestsFit
  BY DEF UploadInv
<1>1. /\ part[p] = "stored" /\ etags' = Append(etags, p) /\ hasFailed' = hasFailed
      /\ UNCHANGED <<attempts, pile, object, asset, completer, aborter, answerLost>>
  OBVIOUS
<1>2. /\ part' = [q \in Part |-> IF q \in taken THEN "sent" ELSE s[q]]
      /\ sending' = IF ~hasFailed' /\ Waiting(s) = {} /\ Working(s) = {} THEN "completing" ELSE sending
  OBVIOUS
<1>3. /\ s \in [Part -> PartStates] /\ s[p] = "done" /\ \A q \in Part \ {p} : s[q] = part[q]
  OBVIOUS
<1>4. /\ Waiting(s) \subseteq Part /\ Waiting(s) \cap Working(s) = {}
      /\ \A q \in Waiting(s) : s[q] = "waiting" /\ q # p
  BY <1>3 DEF Waiting, Working
<1>5. /\ IsFiniteSet(Working(s)) /\ Cardinality(Working(s)) \in Nat
      /\ Cardinality(Working(s)) <= MaxWorkers
  OBVIOUS
<1>6. allowance' \in 1..MaxWorkers
  OBVIOUS
<1>7. free \in Nat
  OBVIOUS
<1>8. IsFiniteSet(taken) /\ Cardinality(taken) <= free /\ Cardinality(taken) \in Nat
  OBVIOUS
<1>9. free = 0 \/ free + Cardinality(Working(s)) = allowance'
  OBVIOUS
<1>10. taken \subseteq Waiting(s)
  OBVIOUS
<1>11. /\ part' \in [Part -> PartStates] /\ part'[p] = "done"
       /\ PartsDone(part') = PartsDone(part) \cup {p} /\ p \notin PartsDone(part)
          /\ PartsDone(part) \subseteq Part
       /\ Working(part') = Working(s) \cup taken
       /\ \A q \in Part : part'[q] = "left" <=> part[q] = "left"
       /\ \A q \in Part \ taken : part'[q] = s[q]
  <2>1. part \in [Part -> PartStates]
    BY <1>0 DEF UploadTyped
  <2> QED
    BY <2>1, PartsAfter
<1>12. WorkersFit'
  <2>1. Working(part') = Working(s) \cup taken
    BY <1>11
  <2>2. Cardinality(Working(s) \cup taken) <= Cardinality(Working(s)) + Cardinality(taken)
        /\ Cardinality(Working(s) \cup taken) \in Nat
    <3>1. /\ IsFiniteSet(Working(s) \cup taken)
          /\ Cardinality(Working(s) \cup taken)
               = Cardinality(Working(s)) + Cardinality(taken) - Cardinality(Working(s) \cap taken)
      BY <1>5, <1>8, FS_Union
    <3>2. Cardinality(Working(s) \cap taken) \in Nat
      BY <1>5, FS_Intersection, FS_CardinalityType
    <3>3. Cardinality(Working(s) \cup taken) \in Nat
      BY <3>1, FS_CardinalityType
    <3> QED
      BY <1>5, <1>8, <3>1, <3>2, <3>3
  <2>3. Cardinality(Working(s)) + Cardinality(taken) <= MaxWorkers
    BY <1>5, <1>6, <1>7, <1>8, <1>9, PartsAreFinite
  <2> QED
    <3>1. Cardinality(Working(part')) <= Cardinality(Working(s)) + Cardinality(taken)
      BY <2>1, <2>2
    <3>2. Cardinality(Working(part')) \in Nat /\ Cardinality(Working(s)) + Cardinality(taken) \in Nat
      <4>1. Cardinality(Working(part')) \in Nat
        BY <2>1, <2>2
      <4> QED
        BY <1>5, <1>8, <4>1
    <3>3. Cardinality(Working(part')) <= MaxWorkers
      BY <2>3, <3>1, <3>2, PartsAreFinite
    <3> QED
      BY <3>3 DEF WorkersFit
<1>13. PartsAreCounted'
  <2>1. PartsDone(part') = PartsDone(part) \cup {p} /\ p \notin PartsDone(part)
        /\ PartsDone(part) \subseteq Part
    BY <1>11
  <2>2. Cardinality(PartsDone(part')) = Cardinality(PartsDone(part)) + 1
    <3>1. IsFiniteSet(PartsDone(part))
      BY <2>1, PartsAreFinite, FS_Subset
    <3> QED
      <4>1. Cardinality(PartsDone(part) \cup {p}) = Cardinality(PartsDone(part)) + 1
        BY <2>1, <3>1, FS_AddElement
      <4> QED
        BY <2>1, <4>1
  <2>3. etags \in Seq(Part)
    BY <1>0 DEF UploadTyped
  <2>4. /\ Len(etags') = Len(etags) + 1 /\ DOMAIN etags \subseteq DOMAIN etags'
        /\ \A i \in DOMAIN etags : etags'[i] = etags[i]
        /\ Len(etags) + 1 \in DOMAIN etags' /\ etags'[Len(etags) + 1] = p
    BY <1>1, <2>3
  <2>5. \A q \in Part : part'[q] = "done" => \E i \in DOMAIN etags' : etags'[i] = q
    <3> SUFFICES ASSUME NEW q \in Part, part'[q] = "done" PROVE \E i \in DOMAIN etags' : etags'[i] = q
      OBVIOUS
    <3>1. q = p \/ part[q] = "done"
      BY <2>1 DEF PartsDone
    <3> QED
      BY <1>0, <2>4, <3>1 DEF PartsAreCounted
  <2>6. \A q \in Part : part'[q] = "left" <=> part[q] = "left"
    BY <1>11
  <2> QED
    BY <1>0, <1>1, <2>2, <2>4, <2>5, <2>6 DEF PartsAreCounted
<1>14. ~AllDone /\ pile # "none" /\ (sending = "parts" \/ hasFailed)
  BY <1>0, <1>1 DEF AllDone, PageFits
<1>15. CASE ~hasFailed /\ Waiting(s) = {} /\ Working(s) = {}
  <2>1. sending' = "completing" /\ sending = "parts"
    BY <1>1, <1>2, <1>14, <1>15
  <2>2. AllDone'
    <3> SUFFICES ASSUME NEW q \in Part PROVE part'[q] = "done"
      BY DEF AllDone
    <3>1. part'[q] = s[q] /\ s[q] \in PartStates /\ s[q] \notin {"waiting", "sent", "stored", "asleep"}
      <4>1. q \notin taken
        BY <1>10, <1>15
      <4>2. s[q] \in PartStates /\ part'[q] = s[q]
        BY <1>3, <1>11, <4>1
      <4> QED
        BY <1>15, <4>2 DEF Waiting, Working
    <3>2. s[q] # "left"
      BY <1>0, <1>3, <1>15 DEF PartsAreCounted
    <3> QED
      BY <3>1, <3>2 DEF PartStates
  <2>3. PageFits'
    BY <1>0, <1>1, <1>14, <1>15, <2>1, <2>2 DEF PageFits
  <2>4. RequestsFit'
    BY <1>0, <1>1, <1>14, <1>15, <2>1, <2>2 DEF RequestsFit, PageFits
  <2>5. UploadTyped'
    BY <1>0, <1>1, <1>6, <1>11, <2>1 DEF UploadTyped
  <2> QED
    BY <1>12, <1>13, <2>3, <2>4, <2>5 DEF UploadInv
<1>16. CASE ~(~hasFailed /\ Waiting(s) = {} /\ Working(s) = {})
  <2>1. sending' = sending
    BY <1>1, <1>2, <1>16
  <2>3. PageFits'
    BY <1>0, <1>1, <1>14, <2>1 DEF PageFits
  <2>4. RequestsFit'
    BY <1>0, <1>1, <1>14, <2>1 DEF RequestsFit, PageFits
  <2>5. UploadTyped'
    BY <1>0, <1>1, <1>6, <1>11, <2>1 DEF UploadTyped
  <2> QED
    BY <1>12, <1>13, <2>3, <2>4, <2>5 DEF UploadInv
<1> QED
  BY <1>15, <1>16

(* What startNext does after a part is of that form.                       *)
LEMMA DoneFits ==
  ASSUME UploadInv, NEW p \in Part, PartDone(p)
  PROVE  UploadInv'
<1> DEFINE s == [part EXCEPT ![p] = "done"]
           free == IF hasFailed' \/ Cardinality(Working(s)) >= allowance' THEN 0
                   ELSE allowance' - Cardinality(Working(s))
           taken == {q \in Waiting(s) : Cardinality({r \in Waiting(s) : r < q}) < free}
<1>0. UploadTyped /\ PartsAreCounted /\ WorkersFit /\ PageFits /\ RequestsFit
  BY DEF UploadInv
<1>1. /\ part[p] = "stored" /\ etags' = Append(etags, p) /\ hasFailed' = hasFailed
      /\ allowance' = IF attempts[p] = 0 /\ allowance < MaxWorkers THEN allowance + 1 ELSE allowance
      /\ UNCHANGED <<attempts, pile, object, asset, completer, aborter, answerLost>>
  BY DEF PartDone, store
<1>2. /\ part' = [q \in Part |-> IF q \in taken THEN "sent" ELSE s[q]]
      /\ sending' = IF ~hasFailed' /\ Waiting(s) = {} /\ Working(s) = {} THEN "completing" ELSE sending
  BY DEF PartDone, StartNext
<1>3. /\ s \in [Part -> PartStates] /\ s[p] = "done" /\ \A q \in Part \ {p} : s[q] = part[q]
  BY <1>0 DEF UploadTyped, PartStates
<1>4. /\ Waiting(s) \subseteq Part /\ Working(s) = Working(part) \ {p} /\ p \in Working(part)
      /\ Working(part) \subseteq Part /\ Waiting(s) \cap Working(s) = {}
      /\ \A q \in Waiting(s) : s[q] = "waiting" /\ q # p
  BY <1>1, <1>3 DEF Waiting, Working
<1>5. /\ IsFiniteSet(Working(part)) /\ IsFiniteSet(Working(s)) /\ Cardinality(Working(s)) \in Nat
      /\ Cardinality(Working(s)) <= MaxWorkers
  <2>1. IsFiniteSet(Working(part)) /\ IsFiniteSet(Working(s))
    BY <1>4, PartsAreFinite, FS_Subset
  <2>2. Cardinality(Working(s)) <= Cardinality(Working(part)) /\ Cardinality(Working(s)) \in Nat
        /\ Cardinality(Working(part)) \in Nat
    BY <1>4, <2>1, FS_Subset, FS_CardinalityType
  <2> QED
    BY <1>0, <2>1, <2>2, PartsAreFinite DEF WorkersFit
<1>6. allowance' \in 1..MaxWorkers
  BY <1>0, <1>1, PartsAreFinite DEF UploadTyped
<1>7. free \in Nat
  BY <1>5, <1>6
<1>8. IsFiniteSet(taken) /\ Cardinality(taken) <= free /\ Cardinality(taken) \in Nat
  BY <1>4, <1>7, FirstOnes, FS_CardinalityType
<1>9. free = 0 \/ free + Cardinality(Working(s)) = allowance'
  BY <1>5, <1>6
<1>10. taken \subseteq Waiting(s)
  OBVIOUS
<1>11. hasFailed' = hasFailed /\ taken \in SUBSET Waiting(s)
  BY <1>1, <1>10
<1> HIDE DEF s, free, taken
<1> QED
  BY <1>1, <1>2, <1>3, <1>5, <1>6, <1>7, <1>8, <1>9, <1>11, TakenFits

(* One step per action.                                                    *)
LEMMA UploadInvStep == UploadInv /\ [UploadNext]_uploadVars => UploadInv'
<1> SUFFICES ASSUME UploadInv, [UploadNext]_uploadVars PROVE UploadInv'
  OBVIOUS
<1>0. UploadTyped /\ PartsAreCounted /\ PageFits /\ RequestsFit
  BY DEF UploadInv
<1>1. ASSUME NEW p \in Part, StorePart(p) PROVE UploadInv'
  <2>1. /\ part[p] = "sent" /\ part' = [part EXCEPT ![p] = "stored"]
        /\ UNCHANGED <<sending, attempts, allowance, hasFailed, etags, pile, object, asset, completer, aborter, answerLost>>
    BY <1>1 DEF StorePart, store
  <2>2. attempts' \in [Part -> 0..MaxAttempts + 1] /\ attempts'[p] <= MaxAttempts
        /\ "stored" \in PartStates \ {"done"}
        /\ allowance' \in 1..MaxWorkers
    BY <1>0, <2>1 DEF UploadTyped, PartsAreCounted, PartStates
  <2> QED
    BY <2>1, <2>2, PartMoves
<1>2. ASSUME NEW p \in Part, PartFails(p) PROVE UploadInv'
  <2>1. /\ part[p] \in {"sent", "stored"} /\ attempts' = [attempts EXCEPT ![p] = @ + 1] /\ allowance' = 1
        /\ UNCHANGED <<etags, pile, object, asset, completer, aborter, answerLost>>
        /\ \/ /\ attempts[p] < MaxAttempts /\ part' = [part EXCEPT ![p] = "asleep"]
              /\ UNCHANGED <<hasFailed, sending>>
           \/ /\ part' = [part EXCEPT ![p] = "left"] /\ hasFailed' = TRUE
              /\ sending' = IF hasFailed THEN sending ELSE "aborting"
    BY <1>2 DEF PartFails, store
  <2>2. attempts[p] \in Nat /\ attempts[p] <= MaxAttempts
    BY <1>0, <2>1, PartsAreFinite DEF UploadTyped, PartsAreCounted
  <2>3. /\ attempts' \in [Part -> 0..MaxAttempts + 1] /\ attempts'[p] = attempts[p] + 1
        /\ \A q \in Part \ {p} : attempts'[q] = attempts[q]
    BY <1>0, <2>1, <2>2, PartsAreFinite DEF UploadTyped
  <2>4. attempts[p] < MaxAttempts => attempts'[p] <= MaxAttempts
    BY <2>2, <2>3, PartsAreFinite
  <2>5. allowance' \in 1..MaxWorkers /\ {"asleep", "left"} \subseteq PartStates \ {"done"}
    BY <2>1, PartsAreFinite DEF PartStates
  <2>6. CASE attempts[p] < MaxAttempts /\ part' = [part EXCEPT ![p] = "asleep"]
             /\ UNCHANGED <<hasFailed, sending>>
    BY <2>1, <2>3, <2>4, <2>5, <2>6, PartMoves
  <2>7. CASE part' = [part EXCEPT ![p] = "left"] /\ hasFailed' = TRUE
             /\ sending' = (IF hasFailed THEN sending ELSE "aborting")
    BY <2>1, <2>3, <2>5, <2>7, PartMoves
  <2> QED
    BY <2>1, <2>6, <2>7
<1>3. ASSUME NEW p \in Part, PartWakes(p) PROVE UploadInv'
  <2>1. /\ part[p] = "asleep" /\ part' = [part EXCEPT ![p] = IF hasFailed THEN "left" ELSE "sent"]
        /\ UNCHANGED <<sending, attempts, allowance, hasFailed, etags, pile, object, asset, completer, aborter, answerLost>>
    BY <1>3 DEF PartWakes, store
  <2>2. attempts' \in [Part -> 0..MaxAttempts + 1] /\ attempts'[p] <= MaxAttempts
        /\ {"left", "sent"} \subseteq PartStates \ {"done"} /\ allowance' \in 1..MaxWorkers
           /\ \A q \in Part : attempts'[q] = attempts[q]
    BY <1>0, <2>1 DEF UploadTyped, PartsAreCounted, PartStates
  <2>3. CASE hasFailed
    BY <2>1, <2>2, <2>3, PartMoves
  <2>4. CASE ~hasFailed
    BY <2>1, <2>2, <2>4, PartMoves
  <2> QED
    BY <2>3, <2>4
<1>4. CASE UNCHANGED uploadVars
  <2>1. UNCHANGED <<sending, workers, pile, object, asset, completer, aborter, answerLost>>
    BY <1>4 DEF uploadVars, store
  <2>2. part' = part
    BY <2>1 DEF workers
  <2> QED
    BY <1>0, <2>1, <2>2, WorkersRest DEF UploadInv, UploadTyped, PageFits, RequestsFit
<1> QED
  BY <1>1, <1>2, <1>3, <1>4, RestingFits, MultipartFits, DoneFits DEF UploadNext

(* Hence it holds throughout.                                              *)
LEMMA UploadInvHolds == UploadSpec => []UploadInv
BY UploadInvInit, UploadInvStep, PTL DEF UploadSpec

(* It implies the property.                                                *)
LEMMA UploadInvKeepsWhole == UploadInv => UploadsAreWhole
<1> SUFFICES ASSUME UploadInv PROVE UploadsAreWhole
  OBVIOUS
<1>0. UploadTyped /\ PartsAreCounted /\ PageFits /\ RequestsFit
  BY DEF UploadInv
<1>1. ASSUME sending = "completing" PROVE Len(etags) = Parts /\ Working(part) = {}
  <2>1. AllDone
    BY <1>0, <1>1 DEF PageFits
  <2>2. PartsDone(part) = Part /\ Working(part) = {}
    BY <2>1 DEF AllDone, PartsDone, Working
  <2> QED
    BY <1>0, <2>2, PartsAreFinite DEF PartsAreCounted
<1>2. sending = "done" => asset = "PROCESSING"
  BY <1>0 DEF RequestsFit
<1> QED
  BY <1>0, <1>1, <1>2 DEF PageFits, RequestsFit, UploadsAreWhole

(* UploadTypeOK, for any number of parts, workers and attempts.            *)
THEOREM UploadTypesHold == UploadSpec => []UploadTypeOK
<1>1. UploadInv => UploadTypeOK
  BY DEF UploadInv, UploadTyped, WorkersFit, PartStates, UploadTypeOK
<1> QED
  BY <1>1, UploadInvHolds, PTL

(* UploadsAreWhole, for any number of parts, workers and attempts: what    *)
(* the library takes in is the whole file, each part once.                 *)
THEOREM UploadsHold == UploadSpec => []UploadsAreWhole
BY UploadInvKeepsWhole, UploadInvHolds, PTL
-----------------------------------------------------------------------------
(* The inbox page, for any number of threads and of answers under way. At  *)
(* rest what is shown is of the filter that is chosen; selections are of   *)
(* one kind; a text goes to the thread it was typed under.                 *)

(* A list is a record.                                                     *)
IsListing(r) == r = [filter |-> r.filter, order |-> r.order, comments |-> r.comments]

(* Each slot and the display hold a list; a slot that waits for an answer  *)
(* is not empty.                                                           *)
PageShaped ==
  /\ loads = [l \in Load |-> loads[l]] /\ \A l \in Load : IsListing(loads[l])
  /\ IsListing(shown) /\ filter \in {"all", "OPEN"} /\ selectionMode \in {"none", "posts", "comments"}

(* While answers come in order, one to the filter is on its way or shown.  *)
InOrderFits == inOrder => (\E l \in Load : loads[l] # NoLoad) \/ shown.filter = filter

(* The inductive invariant.                                                *)
PageInv == PageShaped /\ InOrderFits /\ SelectionsAreOfOneKind /\ TextsReachTheirThread

(* An answer is a list of the filter it was asked for.                     *)
LEMMA ListingsFit ==
  ASSUME NEW f \in {"all", "OPEN"}
  PROVE  IsListing(Listing(f)) /\ Listing(f) # NoLoad /\ Listing(f).filter = f
<1>1. IsListing(Listing(f)) /\ Listing(f).filter = f
  BY DEF IsListing, Listing
<1>2. NoLoad.filter = "none"
  BY DEF NoLoad
<1> QED
  BY <1>1, <1>2

(* Asking fills one slot.                                                  *)
LEMMA AskingFits ==
  ASSUME PageShaped, NEW f \in {"all", "OPEN"}, NEW l \in Load, loads' = [loads EXCEPT ![l] = Listing(f)]
  PROVE  /\ loads' = [k \in Load |-> loads'[k]] /\ \A k \in Load : IsListing(loads'[k])
         /\ \E k \in Load : loads'[k] # NoLoad
<1>1. loads' = [k \in Load |-> IF k = l THEN Listing(f) ELSE loads[k]]
  BY DEF PageShaped
<1>2. loads'[l] = Listing(f) /\ \A k \in Load \ {l} : loads'[k] = loads[k]
  BY <1>1
<1> QED
  BY <1>1, <1>2, ListingsFit DEF PageShaped

(* Initially the first list is on its way.                                 *)
LEMMA PageInvInit == InboxPageInit => PageInv
<1> SUFFICES ASSUME InboxPageInit PROVE PageInv
  OBVIOUS
<1>1. PICK first \in Load : loads = [l \in Load |-> IF l = first THEN Listing("all") ELSE NoLoad]
  BY DEF InboxPageInit
<1>2. IsListing(NoLoad)
  BY DEF NoLoad, IsListing
<1>3. /\ IsListing(Listing("all")) /\ Listing("all") # NoLoad
  BY ListingsFit
<1>4. PageShaped /\ InOrderFits
  BY <1>1, <1>2, <1>3 DEF InboxPageInit, PageShaped, InOrderFits
<1>5. sent = NoMessageSent /\ NoMessageSent.to = NoMessageSent.typed
  BY DEF InboxPageInit, NoMessageSent
<1> QED
  BY <1>4, <1>5 DEF InboxPageInit, PageInv, SelectionsAreOfOneKind, TextsReachTheirThread

(* One step per action.                                                    *)
LEMMA PageInvStep == PageInv /\ [InboxPageNext]_inboxPageVars => PageInv'
<1> SUFFICES ASSUME PageInv, [InboxPageNext]_inboxPageVars PROVE PageInv'
  OBVIOUS
<1>0. /\ PageShaped /\ InOrderFits /\ SelectionsAreOfOneKind /\ TextsReachTheirThread
      /\ selectionMode \in {"none", "posts", "comments"} /\ filter \in {"all", "OPEN"}
  BY DEF PageInv, PageShaped
(* Steps that leave the lists, the selections or the last message alone.   *)
<1>l. ASSUME UNCHANGED <<lists, filter>>, selectionMode' \in {"none", "posts", "comments"}
      PROVE  PageShaped' /\ InOrderFits'
  BY <1>0, <1>l DEF lists, PageShaped, InOrderFits
<1>s. ASSUME UNCHANGED <<selectionMode, selectedPosts, selectedComments>> PROVE SelectionsAreOfOneKind'
  BY <1>0, <1>s DEF SelectionsAreOfOneKind
<1>m. ASSUME UNCHANGED sent PROVE TextsReachTheirThread'
  BY <1>0, <1>m DEF TextsReachTheirThread
<1>a. ASSUME NEW f \in {"all", "OPEN"}, \E l \in Load : loads' = [loads EXCEPT ![l] = Listing(f)],
             IsListing(shown'), selectionMode' \in {"none", "posts", "comments"}, filter' \in {"all", "OPEN"}
      PROVE  PageShaped' /\ InOrderFits'
  BY <1>0, <1>a, AskingFits DEF PageShaped, InOrderFits
<1>1. ASSUME NEW t \in Thread, CommentArrives(t) \/ CommentResolved(t) PROVE PageInv'
  <2>1. UNCHANGED <<filter, lists, choices, sent>>
    BY <1>1 DEF CommentArrives, CommentResolved
  <2> QED
    BY <1>0, <1>l, <1>s, <1>m, <2>1 DEF PageInv, choices
<1>2. ASSUME NEW l \in Load, Answer(l) \/ AnswerFails(l) PROVE PageInv'
  <2>1. /\ loads' = [loads EXCEPT ![l] = NoLoad]
           /\ UNCHANGED <<filter, selectionMode, selectedPosts, selectedComments, sent>>
        /\ \/ shown' = loads[l] /\ inOrder' = (inOrder /\ loads[l].filter = filter)
           \/ UNCHANGED shown /\ inOrder' = FALSE
    BY <1>2 DEF Answer, AnswerFails, choices
  <2>2. loads' = [k \in Load |-> IF k = l THEN NoLoad ELSE loads[k]]
    BY <1>0, <2>1 DEF PageShaped
  <2>3. IsListing(NoLoad)
    BY DEF NoLoad, IsListing
  <2>4. PageShaped'
    BY <1>0, <2>1, <2>2, <2>3 DEF PageShaped
  <2>5. InOrderFits'
    BY <2>1 DEF InOrderFits
  <2> QED
    BY <1>s, <1>m, <2>1, <2>4, <2>5 DEF PageInv
<1>3. ASSUME NEW f \in {"all", "OPEN"}, SetFilter(f) \/ TimerFires(f) PROVE PageInv'
  <2>1. /\ \E l \in Load : loads' = [loads EXCEPT ![l] = Listing(f)]
        /\ UNCHANGED <<shown, choices, sent>> /\ filter' \in {f, filter}
    BY <1>3 DEF SetFilter, TimerFires, Ask
  <2> QED
    BY <1>0, <1>a, <1>s, <1>m, <2>1 DEF PageInv, PageShaped, choices
<1>4. ASSUME NEW t, OpenThread(t) PROVE PageInv'
  <2>1. /\ UNCHANGED <<filter, lists, sent>>
        /\ \/ UNCHANGED <<selectionMode, selectedPosts, selectedComments>>
           \/ selectionMode' = "none" /\ selectedPosts' = {} /\ selectedComments' = {}
    BY <1>4 DEF OpenThread
  <2>2. SelectionsAreOfOneKind' /\ selectionMode' \in {"none", "posts", "comments"}
    BY <1>0, <2>1 DEF SelectionsAreOfOneKind
  <2> QED
    BY <1>l, <1>m, <2>1, <2>2 DEF PageInv
<1>5. ASSUME NEW t, TogglePost(t) PROVE PageInv'
  <2>1. /\ UNCHANGED <<filter, lists, sent>>
        /\ selectedComments' = (IF selectionMode = "comments" THEN {} ELSE selectedComments)
        /\ selectionMode' = IF selectedPosts' = {} THEN "none" ELSE "posts"
    BY <1>5 DEF TogglePost
  <2>2. SelectionsAreOfOneKind' /\ selectionMode' \in {"none", "posts", "comments"}
    BY <1>0, <2>1 DEF SelectionsAreOfOneKind
  <2> QED
    BY <1>l, <1>m, <2>1, <2>2 DEF PageInv
<1>6. ASSUME NEW c, OpenRow(c) PROVE PageInv'
  <2>1. UNCHANGED <<filter, lists, selectionMode, selectedPosts, selectedComments, sent>>
    BY <1>6 DEF OpenRow
  <2> QED
    BY <1>0, <1>l, <1>s, <1>m, <2>1 DEF PageInv
<1>7. ASSUME NEW c, ToggleComment(c) PROVE PageInv'
  <2>1. /\ UNCHANGED <<filter, lists, sent>>
        /\ selectedPosts' = (IF selectionMode = "posts" THEN {} ELSE selectedPosts)
        /\ selectionMode' = IF selectedComments' = {} THEN "none" ELSE "comments"
    BY <1>7 DEF ToggleComment
  <2>2. SelectionsAreOfOneKind' /\ selectionMode' \in {"none", "posts", "comments"}
    BY <1>0, <2>1 DEF SelectionsAreOfOneKind
  <2> QED
    BY <1>l, <1>m, <2>1, <2>2 DEF PageInv
<1>8. CASE Type
  <2>1. UNCHANGED <<filter, lists, choices, sent>>
    BY <1>8 DEF Type
  <2> QED
    BY <1>0, <1>l, <1>s, <1>m, <2>1 DEF PageInv, choices
<1>9. CASE SendToThread
  <2>1. /\ sent' = [to |-> ActiveThread, typed |-> typed, chosen |-> activeThreadId, listed |-> Listed]
        /\ UNCHANGED <<filter, choices, inOrder>>
        /\ \/ UNCHANGED <<loads, shown>>
           \/ /\ \E c : shown' = [shown EXCEPT !.comments = c]
              /\ \E l \in Load : loads' = [loads EXCEPT ![l] = Listing(filter)]
    BY <1>9 DEF SendToThread, Ask
  <2>2. TextsReachTheirThread'
    <3>1. activeThreadId \in Listed => ActiveThread = activeThreadId
      <4> DEFINE open == IF selectedId \in shown.comments THEN selectedId[1] ELSE "none"
      <4>1. ActiveThread = CASE activeThreadId \in Listed -> activeThreadId
                             [] activeThreadId \notin Listed /\ open \in Listed -> open
                             [] OTHER -> FirstListed
        BY DEF ActiveThread
      <4> HIDE DEF open
      <4> QED
        BY <4>1
    <3>2. sent'.to = ActiveThread /\ sent'.typed = typed /\ sent'.chosen = activeThreadId
          /\ sent'.listed = Listed
      BY <2>1
    <3> QED
      BY <3>1, <3>2 DEF TextsReachTheirThread
  <2>3. CASE UNCHANGED <<loads, shown>>
    BY <1>0, <1>l, <1>s, <2>1, <2>2, <2>3 DEF PageInv, choices, lists
  <2>4. ASSUME NEW c, shown' = [shown EXCEPT !.comments = c], NEW l \in Load,
               loads' = [loads EXCEPT ![l] = Listing(filter)]
        PROVE  PageInv'
    <3>1. IsListing(shown')
      <4>1. shown' = [filter |-> shown.filter, order |-> shown.order, comments |-> c]
        BY <1>0, <2>4 DEF PageShaped, IsListing
      <4> QED
        BY <4>1 DEF IsListing
    <3>2. filter \in {"all", "OPEN"}
      BY <1>0
    <3> QED
      BY <1>0, <1>a, <1>s, <2>1, <2>2, <2>4, <3>1, <3>2 DEF PageInv, PageShaped, choices
  <2> QED
    BY <2>1, <2>3, <2>4
<1>10. CASE SendInBulk
  <2>1. /\ selectedPosts' = {} /\ UNCHANGED <<shown, inOrder, filter, selectionMode, selectedComments, sent>>
        /\ \E l \in Load : loads' = [loads EXCEPT ![l] = Listing(filter)]
    BY <1>10 DEF SendInBulk, Ask
  <2>2. SelectionsAreOfOneKind'
    BY <1>0, <2>1 DEF SelectionsAreOfOneKind
  <2> QED
    BY <1>0, <1>a, <1>m, <2>1, <2>2 DEF PageInv, PageShaped
<1>11. CASE ReplyInBulk
  <2>1. /\ selectedPosts' = {} /\ selectedComments' = {} /\ selectionMode' = "none"
        /\ UNCHANGED <<shown, inOrder, filter, sent>>
        /\ \E l \in Load : loads' = [loads EXCEPT ![l] = Listing(filter)]
    BY <1>11 DEF ReplyInBulk, Ask
  <2>2. SelectionsAreOfOneKind'
    BY <2>1 DEF SelectionsAreOfOneKind
  <2> QED
    BY <1>0, <1>a, <1>m, <2>1, <2>2 DEF PageInv, PageShaped
<1>12. CASE ClearSelection
  <2>1. /\ selectionMode' = "none" /\ selectedPosts' = {} /\ selectedComments' = {}
           /\ UNCHANGED <<filter, lists, sent>>
    BY <1>12 DEF ClearSelection
  <2>2. SelectionsAreOfOneKind'
    BY <2>1 DEF SelectionsAreOfOneKind
  <2> QED
    BY <1>l, <1>m, <2>1, <2>2 DEF PageInv
<1>13. CASE UNCHANGED inboxPageVars
  BY <1>0, <1>13, <1>l, <1>s, <1>m DEF inboxPageVars, choices, PageInv
<1> QED
  BY <1>1, <1>2, <1>3, <1>4, <1>5, <1>6, <1>7, <1>8, <1>9, <1>10, <1>11, <1>12,
     <1>13 DEF InboxPageNext

(* Hence it holds throughout.                                              *)
LEMMA PageInvHolds == InboxPageSpec => []PageInv
BY PageInvInit, PageInvStep, PTL DEF InboxPageSpec

(* It implies the property.                                                *)
LEMMA PageInvShows == PageInv => InboxPageHolds
BY DEF PageInv, InOrderFits, InboxPageHolds, ListsFitTheFilter

(* InboxPageHolds, for any number of threads and requests under way: the   *)
(* selections are of one kind, a text goes to the thread it was typed      *)
(* under, and at rest the lists fit the filter.                            *)
THEOREM InboxPageKeepsFaith == InboxPageSpec => []InboxPageHolds
BY PageInvShows, PageInvHolds, PTL

(* The threads there are on the page, the comments, the lists.             *)
Threaded == Thread \cup {Nowhere}
PageComments == {Real(t) : t \in Thread} \cup {Fake(t) : t \in Threaded}
Listings == [filter : {"all", "OPEN", "none"}, order : {<<>>} \cup SetToSeqs(Thread), comments : SUBSET PageComments]

(* The types, as what the proof needs to know of each variable.            *)
PageTyped ==
  /\ remark \in [Thread -> {"none", "OPEN", "RESOLVED"}] /\ recency \in SetToSeqs(Thread)
  /\ filter \in {"all", "OPEN"} /\ shown \in Listings /\ loads \in [Load -> Listings]
  /\ timers \subseteq {"all", "OPEN"} /\ activeThreadId \in Threaded \cup {"none"}
  /\ selectedId \in PageComments \cup {NoComment} /\ selectionMode \in {"none", "posts", "comments"}
  /\ selectedPosts \subseteq Threaded /\ selectedComments \subseteq PageComments

(* A list of all threads is a sequence of them.                            *)
LEMMA OrdersAreSequences ==
  /\ Cardinality(Thread) \in Nat
  /\ \A s \in {<<>>} \cup SetToSeqs(Thread) : s \in Seq(Thread)
<1>1. Cardinality(Thread) \in Nat
  BY InboxPageAssumption, FS_CardinalityType
<1>2. ASSUME NEW s \in SetToSeqs(Thread) PROVE s \in Seq(Thread)
  <2>1. s \in [1..Cardinality(Thread) -> Thread]
    BY DEF SetToSeqs
  <2> QED
    BY <1>1, <2>1
<1> QED
  BY <1>1, <1>2, EmptySeq

(* Of a comment and of a list the page knows what they are of.             *)
LEMMA CommentsAreOfThreads ==
  /\ \A c \in PageComments : c[1] \in Threaded
  /\ \A t \in Threaded : Fake(t) \in PageComments
  /\ \A t \in Thread : Real(t) \in PageComments
BY DEF PageComments, Real, Fake, Threaded

(* An answer is a list of what there is.                                   *)
LEMMA ListingTyped ==
  ASSUME PageTyped, NEW f \in {"all", "OPEN"}
  PROVE  Listing(f) \in Listings
<1> DEFINE comments == {Real(t) : t \in {u \in Thread : IF f = "all" THEN remark[u] # "none" ELSE remark[u] = f}}
<1>1. comments \subseteq PageComments
  BY CommentsAreOfThreads
<1>2. Listing(f) = [filter |-> f, order |-> recency, comments |-> comments]
  BY DEF Listing
<1> HIDE DEF comments
<1> QED
  BY <1>1, <1>2 DEF PageTyped, Listings

(* The comment that arrives last moves its thread to the front.            *)
LEMMA FrontIsTyped ==
  ASSUME NEW s \in SetToSeqs(Thread), NEW t \in Thread
  PROVE  [i \in DOMAIN s |-> CASE i = 1 -> t
                               [] i # 1 /\ (\E j \in 1..(i - 1) : s[j] = t) -> s[i]
                               [] OTHER -> s[i - 1]] \in SetToSeqs(Thread)
<1> DEFINE n == Cardinality(Thread)
           D == 1..n
           behind(i) == \E j \in 1..(i - 1) : s[j] = t
           r == [i \in DOMAIN s |-> CASE i = 1 -> t
                                      [] i # 1 /\ behind(i) -> s[i]
                                      [] OTHER -> s[i - 1]]
<1>1. n \in Nat /\ s \in [D -> Thread] /\ \A i, j \in D : i # j => s[i] # s[j]
  BY OrdersAreSequences DEF SetToSeqs
<1> HIDE DEF n
<1>2. \A i \in D : i \in Nat /\ i >= 1 /\ (i # 1 => i - 1 \in D)
  BY <1>1
<1>3. \A i \in D : r[i] = IF i = 1 THEN t ELSE IF behind(i) THEN s[i] ELSE s[i - 1]
  <2> SUFFICES ASSUME NEW i \in D PROVE r[i] = IF i = 1 THEN t ELSE IF behind(i) THEN s[i] ELSE s[i - 1]
    OBVIOUS
  <2>1. i \in DOMAIN s
    BY <1>1
  <2> HIDE DEF behind
  <2> QED
    BY <2>1
<1>4. DOMAIN r = D /\ r = [i \in D |-> r[i]]
  BY <1>1
<1> HIDE DEF r, D
<1>5. r \in [D -> Thread]
  <2> HIDE DEF behind
  <2> QED
    BY <1>1, <1>2, <1>3, <1>4
(* Where t is, all behind it stay, and those before it move by one.        *)
<1>6. ASSUME NEW p \in D, s[p] = t, NEW i \in D PROVE behind(i) <=> p < i
  <2>1. ASSUME behind(i) PROVE p < i
    <3>1. PICK j \in 1..(i - 1) : s[j] = t
      BY <2>1
    <3>2. j \in D /\ j < i
      BY <1>1, <1>2, <3>1 DEF D
    <3>3. j = p
      BY <1>1, <1>6, <3>1, <3>2
    <3> QED
      BY <3>2, <3>3
  <2>2. ASSUME p < i PROVE behind(i)
    <3>1. p \in 1..(i - 1)
      BY <1>2, <2>2
    <3> QED
      BY <1>6, <3>1
  <2> QED
    BY <2>1, <2>2
<1>7. ASSUME NEW i \in D, NEW j \in D, i < j PROVE r[i] # r[j]
  <2>1. CASE \E p \in D : s[p] = t
    <3>1. PICK p \in D : s[p] = t
      BY <2>1
    <3>2. (behind(i) <=> p < i) /\ (behind(j) <=> p < j)
      BY <1>6, <3>1
    <3> DEFINE a == IF i = 1 THEN p ELSE IF p < i THEN i ELSE i - 1
               b == IF p < j THEN j ELSE j - 1
    <3> HIDE DEF behind
    <3>3. i \in Nat /\ j \in Nat /\ p \in Nat /\ i >= 1 /\ j # 1 /\ p >= 1
      BY <1>2, <1>7
    <3>4. a \in D /\ b \in D
      BY <1>2, <3>3
    <3>5. r[i] = s[a] /\ r[j] = s[b]
      BY <1>3, <3>1, <3>2, <3>3
    <3>6. a # b
      BY <1>7, <3>3
    <3> HIDE DEF a, b
    <3> QED
      BY <1>1, <3>4, <3>5, <3>6
  <2>2. CASE \A p \in D : s[p] # t
    <3>1. ASSUME NEW k \in D PROVE ~behind(k)
      <4>1. \A m \in 1..(k - 1) : m \in D
        BY <1>1, <1>2 DEF D
      <4> QED
        BY <2>2, <4>1
    <3> HIDE DEF behind
    <3>2. j # 1 /\ j - 1 \in D /\ r[j] = s[j - 1]
      BY <1>2, <1>3, <1>7, <3>1
    <3>3. CASE i = 1
      BY <1>3, <2>2, <3>2, <3>3
    <3>4. CASE i # 1
      <4>1. i - 1 \in D /\ r[i] = s[i - 1]
        BY <1>2, <1>3, <3>1, <3>4
      <4>2. i - 1 # j - 1
        BY <1>2, <1>7
      <4> QED
        BY <1>1, <3>2, <4>1, <4>2
    <3> QED
      BY <3>3, <3>4
  <2> QED
    BY <2>1, <2>2
<1>8. \A i, j \in D : i # j => r[i] # r[j]
  <2> SUFFICES ASSUME NEW i \in D, NEW j \in D, i # j PROVE r[i] # r[j]
    OBVIOUS
  <2>1. i < j \/ j < i
    BY <1>2
  <2> QED
    BY <1>7, <2>1
<1>9. r \in SetToSeqs(Thread)
  BY <1>5, <1>8 DEF SetToSeqs, D, n
<1> QED
  BY <1>9 DEF r

(* The threads that are listed are threads, and so is the active one.      *)
LEMMA ThreadsAreTyped ==
  ASSUME PageTyped
  PROVE  Listed \subseteq Threaded /\ ActiveThread \in Threaded \cup {"none"}
<1>1. Threads \in Seq(Threaded)
  <2>1. shown.order \in Seq(Thread)
    BY OrdersAreSequences DEF PageTyped, Listings
  <2>2. shown.order \in Seq(Threaded) /\ <<Nowhere>> \in Seq(Threaded)
    <3>1. Thread \subseteq Threaded /\ Nowhere \in Threaded
      BY DEF Threaded
    <3> QED
      BY <2>1, <3>1, SeqMonotonic
  <2> QED
    BY <2>2, ConcatProperties DEF Threads
<1>2. DOMAIN Threads = 1..Len(Threads) /\ \A i \in DOMAIN Threads : Threads[i] \in Threaded
  BY <1>1, LenProperties, ElementOfSeq
<1>3. Listed \subseteq Threaded
  BY <1>2 DEF Listed, ToSet
<1>4. FirstListed \in Threaded \cup {"none"}
  <2> DEFINE places == {i \in DOMAIN Threads : Threads[i] \in Listed}
  <2>1. CASE Listed = {}
    BY <2>1 DEF FirstListed
  <2>2. CASE Listed # {}
    <3>1. places # {}
      BY <2>2 DEF Listed, ToSet
    <3>2. places \in SUBSET Nat
      <4>1. Len(Threads) \in Nat
        BY <1>1, LenProperties
      <4> QED
        BY <1>2, <4>1
    <3> HIDE DEF places
    <3>3. \E p \in places : \A q \in places : p <= q
      BY <3>1, <3>2, LeastExists
    <3>4. Min(places) \in places
      BY <3>3 DEF Min
    <3>5. FirstListed = Threads[Min(places)]
      BY <2>2 DEF FirstListed, places
    <3> QED
      BY <1>2, <3>4, <3>5 DEF places
  <2> QED
    BY <2>1, <2>2
<1> QED
  BY <1>3, <1>4 DEF ActiveThread

(* Asking for a list keeps the types of what is on its way.                *)
LEMMA AskingIsTyped ==
  ASSUME PageTyped, NEW f \in {"all", "OPEN"}, \E l \in Load : loads' = [loads EXCEPT ![l] = Listing(f)]
  PROVE  loads' \in [Load -> Listings]
BY ListingTyped DEF PageTyped

(* The page opens with its types.                                          *)
LEMMA PageTypedInit == InboxPageInit => PageTyped
<1> SUFFICES ASSUME InboxPageInit PROVE PageTyped
  OBVIOUS
<1>1. NoLoad \in Listings
  BY DEF NoLoad, Listings
<1>2. Listing("all") \in Listings
  <2> DEFINE comments == {Real(t) : t \in {u \in Thread : remark[u] # "none"}}
  <2>1. comments \subseteq PageComments
    BY CommentsAreOfThreads
  <2>2. Listing("all") = [filter |-> "all", order |-> recency, comments |-> comments]
    BY DEF Listing
  <2> HIDE DEF comments
  <2> QED
    BY <2>1, <2>2 DEF InboxPageInit, Listings
<1>3. remark \in [Thread -> {"none", "OPEN", "RESOLVED"}] /\ loads \in [Load -> Listings]
  BY <1>1, <1>2 DEF InboxPageInit
<1> QED
  BY <1>1, <1>3 DEF InboxPageInit, PageTyped

(* One step per action.                                                    *)
LEMMA PageTypedStep == PageTyped /\ [InboxPageNext]_inboxPageVars => PageTyped'
<1> SUFFICES ASSUME PageTyped, [InboxPageNext]_inboxPageVars PROVE PageTyped'
  OBVIOUS
<1>0. /\ remark \in [Thread -> {"none", "OPEN", "RESOLVED"}] /\ recency \in SetToSeqs(Thread)
      /\ filter \in {"all", "OPEN"} /\ shown \in Listings /\ loads \in [Load -> Listings]
      /\ timers \subseteq {"all", "OPEN"} /\ activeThreadId \in Threaded \cup {"none"}
      /\ selectedId \in PageComments \cup {NoComment} /\ selectionMode \in {"none", "posts", "comments"}
      /\ selectedPosts \subseteq Threaded /\ selectedComments \subseteq PageComments
      /\ shown.comments \subseteq PageComments /\ Listed \subseteq Threaded
      /\ NoLoad \in Listings
  BY ThreadsAreTyped DEF PageTyped, Listings, NoLoad
<1>1. ASSUME NEW t \in Thread, CommentArrives(t) PROVE PageTyped'
  <2>1. /\ remark' = [remark EXCEPT ![t] = "OPEN"]
        /\ recency' = [i \in DOMAIN recency |-> CASE i = 1 -> t
                                                  [] i # 1 /\ (\E j \in 1..(i - 1) : recency[j] = t) -> recency[i]
                                                  [] OTHER -> recency[i - 1]]
        /\ UNCHANGED <<filter, shown, loads, timers, activeThreadId, selectedId, selectionMode, selectedPosts,
                       selectedComments>>
    BY <1>1 DEF CommentArrives, lists, choices
  <2>2. recency' \in SetToSeqs(Thread)
    BY <1>0, <2>1, FrontIsTyped
  <2>3. remark' \in [Thread -> {"none", "OPEN", "RESOLVED"}]
    BY <1>0, <2>1
  <2> QED
    BY <1>0, <2>1, <2>2, <2>3 DEF PageTyped
<1>2. ASSUME NEW t \in Thread, CommentResolved(t) PROVE PageTyped'
  <2>1. /\ remark' = [remark EXCEPT ![t] = "RESOLVED"]
        /\ UNCHANGED <<recency, filter, shown, loads, timers, activeThreadId, selectedId, selectionMode, selectedPosts,
                       selectedComments>>
    BY <1>2 DEF CommentResolved, lists, choices
  <2>2. remark' \in [Thread -> {"none", "OPEN", "RESOLVED"}]
    BY <1>0, <2>1
  <2> QED
    BY <1>0, <2>1, <2>2 DEF PageTyped
<1>3. ASSUME NEW l \in Load, Answer(l) PROVE PageTyped'
  <2>1. /\ shown' = loads[l] /\ loads' = [loads EXCEPT ![l] = NoLoad]
        /\ selectedId' = IF selectedId \in loads[l].comments THEN selectedId ELSE NoComment
        /\ UNCHANGED <<remark, recency, filter, timers, activeThreadId, selectionMode, selectedPosts, selectedComments>>
    BY <1>3 DEF Answer
  <2>2. shown' \in Listings /\ loads' \in [Load -> Listings] /\ selectedId' \in PageComments \cup {NoComment}
    BY <1>0, <2>1
  <2> QED
    BY <1>0, <2>1, <2>2 DEF PageTyped
<1>4. ASSUME NEW l \in Load, AnswerFails(l) PROVE PageTyped'
  <2>1. /\ loads' = [loads EXCEPT ![l] = NoLoad]
        /\ UNCHANGED <<remark, recency, filter, shown, timers, activeThreadId, selectedId, selectionMode,
                       selectedPosts, selectedComments>>
    BY <1>4 DEF AnswerFails, choices
  <2>2. loads' \in [Load -> Listings]
    BY <1>0, <2>1
  <2> QED
    BY <1>0, <2>1, <2>2 DEF PageTyped
<1>5. ASSUME NEW f \in {"all", "OPEN"}, SetFilter(f) \/ TimerFires(f) PROVE PageTyped'
  <2>1. /\ \E l \in Load : loads' = [loads EXCEPT ![l] = Listing(f)]
        /\ filter' \in {f, filter} /\ timers' \subseteq timers
        /\ UNCHANGED <<remark, recency, shown, activeThreadId, selectedId, selectionMode,
                       selectedPosts, selectedComments>>
    BY <1>5 DEF SetFilter, TimerFires, Ask, choices
  <2>2. loads' \in [Load -> Listings]
    BY <2>1, AskingIsTyped
  <2> QED
    BY <1>0, <2>1, <2>2 DEF PageTyped
<1>6. ASSUME NEW t \in Listed, OpenThread(t) PROVE PageTyped'
  <2>1. /\ activeThreadId' = t /\ selectedId' \in {selectedId} \cup shown.comments
        /\ selectionMode' \in {selectionMode, "none"} /\ selectedPosts' \subseteq selectedPosts
        /\ selectedComments' \subseteq selectedComments
        /\ UNCHANGED <<remark, recency, filter, shown, loads, timers>>
    BY <1>6 DEF OpenThread, RootsOf, lists
  <2> QED
    BY <1>0, <2>1 DEF PageTyped
<1>7. ASSUME NEW t \in Listed, TogglePost(t) PROVE PageTyped'
  <2>1. /\ selectedId' = NoComment /\ selectedPosts' \subseteq selectedPosts \cup {t}
        /\ selectionMode' \in {"none", "posts"} /\ selectedComments' \subseteq selectedComments
        /\ UNCHANGED <<remark, recency, filter, shown, loads, timers, activeThreadId>>
    BY <1>7 DEF TogglePost, Toggled, lists
  <2> QED
    BY <1>0, <2>1 DEF PageTyped
<1>8. ASSUME NEW c \in shown.comments, OpenRow(c) PROVE PageTyped'
  <2>1. /\ selectedId' = c
        /\ UNCHANGED <<remark, recency, filter, shown, loads, timers, activeThreadId, selectionMode, selectedPosts,
                       selectedComments>>
    BY <1>8 DEF OpenRow, lists
  <2> QED
    BY <1>0, <2>1 DEF PageTyped
<1>9. ASSUME NEW c \in shown.comments, ToggleComment(c) PROVE PageTyped'
  <2>1. /\ selectedId' = NoComment /\ selectedComments' \subseteq selectedComments \cup {c}
        /\ selectionMode' \in {"none", "comments"} /\ selectedPosts' \subseteq selectedPosts
        /\ UNCHANGED <<remark, recency, filter, shown, loads, timers, activeThreadId>>
    BY <1>9 DEF ToggleComment, Toggled, lists
  <2> QED
    BY <1>0, <2>1 DEF PageTyped
<1>10. CASE Type
  BY <1>0, <1>10 DEF Type, lists, choices, PageTyped
<1>11. CASE SendToThread
  <2>1. /\ UNCHANGED <<remark, recency, filter, activeThreadId, selectedId, selectionMode, selectedPosts,
                       selectedComments>>
        /\ ActiveThread # "none"
    BY <1>11 DEF SendToThread, choices
  <2>2. CASE ActiveThread = Nowhere
    <3>1. UNCHANGED <<loads, shown, timers>>
      BY <1>11, <2>2 DEF SendToThread
    <3> QED
      BY <1>0, <2>1, <3>1 DEF PageTyped
  <2>3. CASE ActiveThread # Nowhere
    <3> DEFINE under == IF RootsOf(ActiveThread) = {} THEN Nowhere ELSE ActiveThread
    <3>1. /\ shown' = [shown EXCEPT !.comments = @ \cup {Fake(under)}] /\ timers' = timers \cup {filter}
          /\ \E l \in Load : loads' = [loads EXCEPT ![l] = Listing(filter)]
      BY <1>11, <2>3 DEF SendToThread, Ask
    <3>2. under \in Threaded
      BY <2>1, ThreadsAreTyped DEF Threaded
    <3> HIDE DEF under
    <3>3. Fake(under) \in PageComments
      BY <3>2, CommentsAreOfThreads
    <3>4. shown' \in Listings
      BY <1>0, <3>1, <3>3 DEF Listings
    <3>5. loads' \in [Load -> Listings]
      BY <1>0, <3>1, AskingIsTyped
    <3> QED
      BY <1>0, <2>1, <3>1, <3>4, <3>5 DEF PageTyped
  <2> QED
    BY <2>2, <2>3
<1>12. CASE SendInBulk \/ ReplyInBulk
  <2>1. /\ \E l \in Load : loads' = [loads EXCEPT ![l] = Listing(filter)]
        /\ timers' = timers \cup {filter} /\ selectedPosts' = {}
           /\ selectedComments' \subseteq selectedComments
        /\ selectionMode' \in {selectionMode, "none"}
        /\ UNCHANGED <<remark, recency, filter, shown, activeThreadId, selectedId>>
    BY <1>12 DEF SendInBulk, ReplyInBulk, Ask
  <2>2. loads' \in [Load -> Listings]
    BY <1>0, <2>1, AskingIsTyped
  <2> QED
    BY <1>0, <2>1, <2>2 DEF PageTyped
<1>13. CASE ClearSelection
  <2>1. /\ selectionMode' = "none" /\ selectedPosts' = {} /\ selectedComments' = {}
        /\ UNCHANGED <<remark, recency, filter, shown, loads, timers, activeThreadId, selectedId>>
    BY <1>13 DEF ClearSelection, lists
  <2> QED
    BY <1>0, <2>1 DEF PageTyped
<1>14. CASE UNCHANGED inboxPageVars
  BY <1>0, <1>14 DEF inboxPageVars, lists, choices, PageTyped
<1> QED
  BY <1>1, <1>2, <1>3, <1>4, <1>5, <1>6, <1>7, <1>8, <1>9, <1>10, <1>11, <1>12, <1>13, <1>14 DEF InboxPageNext

(* They are the types the run checks.                                      *)
LEMMA PageTypedTells == PageTyped => InboxPageTypeOK
BY DEF PageTyped, InboxPageTypeOK, Listings, PageComments, Threaded

(* InboxPageTypeOK, for any number of threads and requests under way.      *)
THEOREM InboxPageTypesHold == InboxPageSpec => []InboxPageTypeOK
<1>1. InboxPageSpec => []PageTyped
  BY PageTypedInit, PageTypedStep, PTL DEF InboxPageSpec
<1> QED
  BY <1>1, PageTypedTells, PTL
-----------------------------------------------------------------------------
(* What the pages offer, for any number of accounts, workspaces, tabs and  *)
(* changes. Every offer's gate is at least what its routes need, role by   *)
(* role; and a tab that is fresh shows the roles the API would find.       *)

(* The roles by name.                                                      *)
RoleNames == {"VIEWER", "ANALYST", "EDITOR", "ADMIN", "OWNER"}

(* There are no others.                                                    *)
LEMMA RolesAreNamed == Roles = RoleNames
BY DEF Roles, Rank, RoleNames

(* Every role has what a viewer has, and who moderates comments may sync   *)
(* accounts.                                                               *)
LEMMA RolesInclude ==
  ASSUME NEW r \in Roles
  PROVE  /\ ViewerPermissions \subseteq Permissions[r]
         /\ "comment:moderate" \in Permissions[r] => "social_account:sync" \in Permissions[r]
<1>1. Permissions[r] \in {ViewerPermissions, EditorPermissions, AdminPermissions,
                          AdminPermissions \cup {"workspace:delete", "workspace:transfer_ownership"}}
  BY RolesAreNamed DEF Permissions, RoleNames
<1>2. ViewerPermissions \subseteq EditorPermissions /\ EditorPermissions \subseteq AdminPermissions
  BY DEF EditorPermissions, AdminPermissions
<1>3. "comment:moderate" \notin EditorPermissions /\ "social_account:sync" \in EditorPermissions
  BY DEF EditorPermissions, ViewerPermissions
<1> QED
  BY <1>1, <1>2, <1>3

(* The gate of an offer is at least what its routes need.                  *)
Fits(o) == \A r \in Roles : o.gate \subseteq Permissions[r] => o.needs \subseteq Permissions[r]

(* What is gated by the permission its routes ask for fits.                *)
LEMMA GatedFit ==
  ASSUME NEW permission, NEW routes,
         \A n \in routes : n \subseteq {permission}
  PROVE  \A o \in Gated(permission, routes) : Fits(o)
BY DEF Gated, Offer, Fits

(* What is offered to everybody fits when a viewer may do it.              *)
LEMMA AlwaysFit ==
  ASSUME NEW routes, NEW o \in Always(routes)
  PROVE  o.gate = {} /\ (o.needs \subseteq Permissions["VIEWER"] => Fits(o))
<1>1. o.gate = {}
  BY DEF Always, Offer
<1>2. Permissions["VIEWER"] = ViewerPermissions
  BY DEF Permissions
<1> QED
  BY <1>1, <1>2, RolesInclude DEF Fits

(* Each offer fits, or is one that everybody gets though a viewer may not  *)
(* use it.                                                                 *)
Sound(offers) == \A o \in offers : Fits(o) \/ (o.gate = {} /\ ~(o.needs \subseteq Permissions["VIEWER"]))

(* Offers to everybody are sound.                                          *)
LEMMA AlwaysSound == \A routes : Sound(Always(routes))
BY AlwaysFit DEF Sound

(* So are offers gated by the permission of their routes.                  *)
LEMMA GatedSound ==
  ASSUME NEW permission, NEW routes, \A n \in routes : n \subseteq {permission}
  PROVE  Sound(Gated(permission, routes))
BY GatedFit DEF Sound

(* And both together.                                                      *)
LEMMA SoundTogether ==
  ASSUME NEW A, NEW B, Sound(A), Sound(B) PROVE Sound(A \cup B)
BY DEF Sound

(* The list of posts.                                                      *)
LEMMA PostsPageSound == Sound(PostsPageOffers)
<1>1. Sound(Gated("post:publish", {PostsRoutes.retry})) /\ Sound(Gated("post:delete", {PostsRoutes.delete}))
  BY GatedSound DEF PostsRoutes
<1> QED
  BY <1>1, AlwaysSound, SoundTogether DEF PostsPageOffers

(* A post.                                                                 *)
LEMMA PostPageSound == Sound(PostPageOffers)
<1>1. /\ Sound(Gated("post:publish", {PostsRoutes.publish, PostsRoutes.retry, PostsRoutes.makeYouTubePublic,
                                      PostsRoutes.cancelTikTokPublish}))
      /\ Sound(Gated("post:delete", {PostsRoutes.delete}))
  BY GatedSound DEF PostsRoutes
<1> QED
  BY <1>1, AlwaysSound, SoundTogether DEF PostPageOffers

(* The composer.                                                           *)
LEMMA ComposePageSound == Sound(ComposePageOffers)
<1>1. /\ Sound(Gated("post:create", {PostsRoutes.create}))
      /\ Sound(Gated("post:publish", {PostsRoutes.publish}))
      /\ Sound(Gated("post:schedule", {PostsRoutes.schedule}))
  BY GatedSound DEF PostsRoutes
<1> QED
  BY <1>1, AlwaysSound, SoundTogether DEF ComposePageOffers

(* The editor.                                                             *)
LEMMA EditPageSound == Sound(EditPageOffers)
<1>1. Sound(Gated("post:update", {PostsRoutes.update}))
  BY GatedSound DEF PostsRoutes
<1> QED
  BY <1>1, AlwaysSound, SoundTogether DEF EditPageOffers

(* The inbox, where who may moderate may also sync.                        *)
LEMMA InboxPageSound == Sound(InboxPageOffers)
<1> DEFINE moderating == {CommentsRoutes[r] : r \in {"sync", "createTag", "updateStatus", "updateTags"}}
                           \cup {SocialAccountsRoutes.syncExternalPosts}
<1>1. Sound(Gated("comment:moderate", moderating))
  <2>1. \A n \in moderating : n \in {{"comment:moderate"}, {"social_account:sync"}}
    BY DEF CommentsRoutes, SocialAccountsRoutes
  <2> HIDE DEF moderating
  <2> SUFFICES ASSUME NEW n \in moderating, NEW r \in Roles, {"comment:moderate"} \subseteq Permissions[r]
               PROVE  n \subseteq Permissions[r]
    BY DEF Sound, Gated, Offer, Fits
  <2> QED
    BY <2>1, RolesInclude
<1>2. /\ Sound(Gated("comment:assign", {CommentsRoutes.assign}))
      /\ Sound(Gated("comment:reply",
             {CommentsRoutes.bulkCreatePlatformComments, CommentsRoutes.bulkReplyToComments}))
  BY GatedSound DEF CommentsRoutes
<1> QED
  BY <1>1, <1>2, AlwaysSound, SoundTogether DEF InboxPageOffers

(* The settings.                                                           *)
LEMMA SettingsPageSound == Sound(SettingsPageOffers)
<1>1. /\ Sound(Gated("workspace:update", {WorkspacesRoutes.update}))
      /\ Sound(Gated("audit_log:view", {AuditRoutes.list}))
  BY GatedSound DEF WorkspacesRoutes, AuditRoutes
<1>2. /\ Sound(Gated("media:view", {MediaRoutes.usage, MediaRoutes.list}))
      /\ Sound(Gated("media:delete", {MediaRoutes.delete, MediaRoutes.archive}))
      /\ Sound(Gated("media:upload", {MediaRoutes.rename, MediaRoutes.regenerateThumbnail}))
  BY GatedSound DEF MediaRoutes
<1> QED
  BY <1>1, <1>2, SoundTogether DEF SettingsPageOffers

(* The team.                                                               *)
LEMMA TeamPageSound == Sound(TeamPageOffers)
<1>1. /\ Sound(Gated("member:invite", {WorkspacesRoutes.invite}))
      /\ Sound(Gated("member:remove", {WorkspacesRoutes.removeMember}))
      /\ Sound(Gated("member:change_role", {WorkspacesRoutes.changeRole}))
  BY GatedSound DEF WorkspacesRoutes
<1> QED
  BY <1>1, AlwaysSound, SoundTogether DEF TeamPageOffers

(* The accounts.                                                           *)
LEMMA AccountsPageSound == Sound(AccountsPageOffers)
<1>1. /\ Sound(Gated("social_account:connect", {SocialAccountsRoutes.authorize}))
      /\ Sound(Gated("social_account:disconnect", {SocialAccountsRoutes.disconnect}))
  BY GatedSound DEF SocialAccountsRoutes
<1> QED
  BY <1>1, AlwaysSound, SoundTogether DEF AccountsPageOffers

(* The frame around the pages.                                             *)
LEMMA ShellSound == Sound(ShellOffers)
<1>1. Sound(Gated("workspace:update", {SystemRoutes.network, SystemRoutes.proxy}))
  BY GatedSound DEF SystemRoutes
<1> QED
  BY <1>1, AlwaysSound, SoundTogether DEF ShellOffers

(* So every offer fits but those that are offered to everybody and need    *)
(* more.                                                                   *)
LEMMA OffersFit ==
  ASSUME NEW o \in PageOffers \ UngatedOffers PROVE Fits(o)
<1>1. Sound(PageOffers)
  BY PostsPageSound, PostPageSound, ComposePageSound, EditPageSound, InboxPageSound,
     SettingsPageSound,
     TeamPageSound, AccountsPageSound, ShellSound, AlwaysSound
  DEF PageOffers, Sound, AnalyticsPageOffers, NetworkPageOffers
<1> QED
  BY <1>1 DEF Sound, UngatedOffers

(* The roles of an account, the accounts, what the API answers and what a  *)
(* tab knows.                                                              *)
AnyRoles == [Space -> Roles \cup {"none"}]
Users == Account \cup {"none"}
Replies == [user : Users, current : BOOLEAN, roles : AnyRoles]
Tabs == [user : Users, roles : AnyRoles, active : Space \cup {"none"}, loading : BOOLEAN]

(* Each variable has its type.                                             *)
AccessTyped ==
  /\ standing \in [Account -> AnyRoles] /\ cookie \in Users /\ stored \in Space \cup {"none"}
  /\ tab \in [Tab -> Tabs] /\ fetches \in [Tab -> Seq(Replies)] /\ fresh \subseteq Tab

(* The roles the API would find now.                                       *)
RolesNow == IF cookie = "none" THEN LoggedOut.roles ELSE standing[cookie]

(* An answer that nothing has changed since tells those.                   *)
AnswersFit ==
  \A t \in Tab : /\ Len(fetches[t]) <= MaxFetches
                 /\ \A i \in DOMAIN fetches[t] :
                      fetches[t][i].current => fetches[t][i].user = cookie /\ fetches[t][i].roles = RolesNow

(* So does a tab that is fresh, and every tab is in a workspace it knows   *)
(* itself a member of.                                                     *)
TabsFit ==
  \A t \in Tab : /\ tab[t].user = "none" => Memberships(tab[t].roles) = {}
                 /\ tab[t].active # "none" => tab[t].active \in Memberships(tab[t].roles)
                 /\ t \in fresh => tab[t].user = cookie /\ tab[t].roles = RolesNow

(* The inductive invariant.                                                *)
AccessInv == AccessTyped /\ AnswersFit /\ TabsFit

(* An answer is of its type.                                               *)
LEMMA RolesNowTyped ==
  ASSUME AccessTyped PROVE RolesNow \in AnyRoles /\ Me \in Replies /\ Me.user = cookie /\ Me.roles = RolesNow
<1>1. LoggedOut.roles = [w \in Space |-> "none"]
  BY DEF LoggedOut
<1>2. RolesNow \in AnyRoles
  BY <1>1 DEF RolesNow, AccessTyped, AnyRoles, Users
<1> QED
  BY <1>2 DEF Me, RolesNow, Replies, AccessTyped

(* The workspace that is chosen is one of the memberships, or none.        *)
LEMMA ChoiceFits ==
  ASSUME NEW roles \in AnyRoles, NEW preferred \in Space \cup {"none"}
  PROVE  /\ ChooseWorkspace(roles, preferred) \in Space \cup {"none"}
         /\ ChooseWorkspace(roles, preferred) # "none"
            => ChooseWorkspace(roles, preferred) \in Memberships(roles)
<1> DEFINE M == Memberships(roles)
<1>1. M \subseteq Space
  BY DEF Memberships
<1>2. CASE preferred \in M
  BY <1>1, <1>2 DEF ChooseWorkspace
<1>3. CASE preferred \notin M /\ M = {}
  BY <1>3 DEF ChooseWorkspace
<1>4. CASE preferred \notin M /\ M # {}
  <2>1. ChooseWorkspace(roles, preferred) = CHOOSE w \in M : TRUE
    BY <1>4 DEF ChooseWorkspace
  <2>2. (CHOOSE w \in M : TRUE) \in M
    BY <1>4
  <2> QED
    BY <1>1, <2>1, <2>2
<1> QED
  BY <1>2, <1>3, <1>4

(* Marking the answers under way as outdated leaves a sequence of as many. *)
LEMMA OutdatedFits ==
  ASSUME NEW list \in Seq(Replies)
  PROVE  /\ Outdated(list) \in Seq(Replies) /\ Len(Outdated(list)) = Len(list)
         /\ \A i \in DOMAIN Outdated(list) : ~Outdated(list)[i].current
<1> DEFINE n == Len(list)
           outdated == [i \in 1..n |-> [list[i] EXCEPT !.current = FALSE]]
<1>1. Outdated(list) = outdated /\ n \in Nat
  BY DEF Outdated
<1>2. \A i \in 1..n : list[i] \in Replies
  OBVIOUS
<1>3. \A i \in 1..n : [list[i] EXCEPT !.current = FALSE] \in Replies
  BY <1>2 DEF Replies
<1>4. \A i \in 1..n : [list[i] EXCEPT !.current = FALSE].current = FALSE
  BY <1>2 DEF Replies
<1>5. outdated \in [1..n -> Replies]
  BY <1>3
<1> HIDE DEF n
<1>6. outdated \in Seq(Replies)
  BY <1>1, <1>5, SeqDef
<1>7. Len(outdated) = n /\ DOMAIN outdated = 1..n
  BY <1>1, <1>6
<1> QED
  BY <1>1, <1>4, <1>6, <1>7 DEF n

(* Taking one away leaves the others.                                      *)
LEMMA RemovalFits ==
  ASSUME NEW list \in Seq(Replies), NEW i \in DOMAIN list
  PROVE  /\ RemoveAt(list, i) \in Seq(Replies) /\ Len(RemoveAt(list, i)) = Len(list) - 1
         /\ \A k \in DOMAIN RemoveAt(list, i) : \E j \in DOMAIN list : RemoveAt(list, i)[k] = list[j]
<1> DEFINE n == Len(list)
           before == SubSeq(list, 1, i - 1)
           after == SubSeq(list, i + 1, n)
<1>1. n \in Nat /\ i \in 1..n /\ DOMAIN list = 1..n /\ \A j \in 1..n : list[j] \in Replies
  OBVIOUS
<1>2. /\ before \in Seq(Replies) /\ Len(before) = i - 1
      /\ \A k \in 1..(i - 1) : before[k] = list[k]
  <2>1. \A j \in 1..(i - 1) : list[j] \in Replies
    BY <1>1
  <2>2. /\ SubSeq(list, 1, i - 1) \in Seq(Replies)
        /\ Len(SubSeq(list, 1, i - 1)) = IF 1 <= i - 1 THEN i - 1 - 1 + 1 ELSE 0
        /\ \A k \in 1..(i - 1 - 1 + 1) : SubSeq(list, 1, i - 1)[k] = list[1 + k - 1]
    BY <1>1, <2>1, SubSeqProperties
  <2>3. i - 1 - 1 + 1 = i - 1 /\ \A k \in 1..(i - 1) : 1 + k - 1 = k
    BY <1>1
  <2>4. (IF 1 <= i - 1 THEN i - 1 - 1 + 1 ELSE 0) = i - 1
    BY <1>1
  <2>5. \A k \in 1..(i - 1) : before[k] = list[k]
    BY <2>2, <2>3
  <2> QED
    BY <2>2, <2>4, <2>5
<1>3. /\ after \in Seq(Replies) /\ Len(after) = n - i
      /\ \A k \in 1..(n - i) : after[k] = list[i + k]
  <2>1. \A j \in (i + 1)..n : list[j] \in Replies
    BY <1>1
  <2>2. /\ SubSeq(list, i + 1, n) \in Seq(Replies)
        /\ Len(SubSeq(list, i + 1, n)) = IF i + 1 <= n THEN n - (i + 1) + 1 ELSE 0
        /\ \A k \in 1..(n - (i + 1) + 1) : SubSeq(list, i + 1, n)[k] = list[(i + 1) + k - 1]
    BY <1>1, <2>1, SubSeqProperties
  <2>3. n - (i + 1) + 1 = n - i /\ \A k \in 1..(n - i) : (i + 1) + k - 1 = i + k
    BY <1>1
  <2>4. (IF i + 1 <= n THEN n - (i + 1) + 1 ELSE 0) = n - i
    BY <1>1
  <2>5. \A k \in 1..(n - i) : after[k] = list[i + k]
    BY <2>2, <2>3
  <2> QED
    BY <2>2, <2>4, <2>5
<1> HIDE DEF n, before, after
<1>4. RemoveAt(list, i) = before \o after
  BY DEF RemoveAt, before, after, n
<1>5. /\ before \o after \in Seq(Replies) /\ Len(before \o after) = n - 1
      /\ \A k \in 1..(n - 1) : (before \o after)[k] = IF k <= i - 1 THEN list[k] ELSE list[k + 1]
  <2>1. /\ before \o after \in Seq(Replies)
        /\ Len(before \o after) = Len(before) + Len(after)
        /\ \A k \in 1..(Len(before) + Len(after)) :
             (before \o after)[k] = IF k <= Len(before) THEN before[k] ELSE after[k - Len(before)]
    BY <1>2, <1>3, ConcatProperties
  <2>2. Len(before) + Len(after) = n - 1
    BY <1>1, <1>2, <1>3
  <2>3. ASSUME NEW k \in 1..(n - 1), ~(k <= i - 1)
        PROVE  k - Len(before) \in 1..(n - i) /\ i + (k - Len(before)) = k + 1
    BY <1>1, <1>2, <2>3
  <2>4. ASSUME NEW k \in 1..(n - 1)
        PROVE  (before \o after)[k] = IF k <= i - 1 THEN list[k] ELSE list[k + 1]
    <3>1. (before \o after)[k] = IF k <= i - 1 THEN before[k] ELSE after[k - Len(before)]
      BY <1>2, <2>1, <2>2
    <3>2. CASE k <= i - 1
      <4>1. k \in 1..(i - 1)
        BY <1>1, <3>2
      <4> QED
        BY <1>2, <3>1, <3>2, <4>1
    <3>3. CASE ~(k <= i - 1)
      <4>1. after[k - Len(before)] = list[i + (k - Len(before))]
        BY <1>3, <2>3, <3>3
      <4> QED
        BY <2>3, <3>1, <3>3, <4>1
    <3> QED
      BY <3>2, <3>3
  <2> QED
    BY <2>1, <2>2, <2>4
<1>6. \A k \in 1..(n - 1) : \E j \in 1..n : (before \o after)[k] = list[j]
  <2> SUFFICES ASSUME NEW k \in 1..(n - 1) PROVE \E j \in 1..n : (before \o after)[k] = list[j]
    OBVIOUS
  <2>1. k \in 1..n /\ k + 1 \in 1..n
    BY <1>1
  <2> QED
    BY <1>5, <2>1
<1>7. DOMAIN (before \o after) = 1..(n - 1)
  BY <1>5, <1>1
<1> QED
  BY <1>1, <1>4, <1>5, <1>6, <1>7 DEF n

(* Adding one adds one.                                                    *)
LEMMA LengthenedFits ==
  ASSUME NEW list \in Seq(Replies), NEW last \in Seq(Replies), Len(last) \in {0, 1}, NEW max \in Nat,
         Len(list) + Len(last) <= max, \A i \in DOMAIN list : ~list[i].current
  PROVE  /\ list \o last \in Seq(Replies) /\ Len(list \o last) <= max
         /\ \A i \in DOMAIN (list \o last) : ~(list \o last)[i].current \/ (Len(last) = 1 /\ (list \o last)[i] = last[1])
<1> DEFINE n == Len(list)
           m == Len(last)
<1>1. n \in Nat /\ DOMAIN list = 1..n /\ m \in {0, 1}
  OBVIOUS
<1>2. /\ list \o last \in Seq(Replies) /\ Len(list \o last) = n + m
      /\ \A i \in 1..(n + m) : (list \o last)[i] = IF i <= n THEN list[i] ELSE last[i - n]
  BY ConcatProperties
<1>3. DOMAIN (list \o last) = 1..(n + m) /\ n + m <= max
  BY <1>2
<1> HIDE DEF n, m
<1>4. ASSUME NEW i \in 1..(n + m)
      PROVE  ~(list \o last)[i].current \/ (m = 1 /\ (list \o last)[i] = last[1])
  <2>1. CASE i <= n
    <3>1. i \in DOMAIN list /\ (list \o last)[i] = list[i]
      BY <1>1, <1>2, <2>1
    <3> QED
      BY <3>1
  <2>2. CASE ~(i <= n)
    <3>1. m = 1 /\ i - n = 1
      BY <1>1, <2>2
    <3> QED
      BY <1>2, <2>2, <3>1
  <2> QED
    BY <2>1, <2>2
<1> QED
  BY <1>2, <1>3, <1>4 DEF n, m

(* Initially nothing is under way.                                         *)
LEMMA AccessInvInit == AccessInit => AccessInv
<1> SUFFICES ASSUME AccessInit PROVE AccessInv
  OBVIOUS
<1>1. LoggedOut \in Tabs /\ LoggedOut.user = "none" /\ LoggedOut.active = "none"
      /\ Memberships(LoggedOut.roles) = {}
  BY DEF LoggedOut, Tabs, Users, AnyRoles, Memberships
<1>2. [Space -> StartRoles] \subseteq AnyRoles
  BY AccessAssumption DEF AnyRoles
<1>3. AccessTyped
  BY <1>1, <1>2 DEF AccessInit, AccessTyped, Users
<1>4. AnswersFit
  BY AccessAssumption DEF AccessInit, AnswersFit
<1>5. TabsFit
  BY <1>1 DEF AccessInit, TabsFit
<1> QED
  BY <1>3, <1>4, <1>5 DEF AccessInv

(* A change outdates every answer under way.                               *)
LEMMA OutdatingFits ==
  ASSUME AccessInv, OutdateAll
  PROVE  fetches' \in [Tab -> Seq(Replies)] /\ fresh' \subseteq Tab /\ AnswersFit'
<1>1. \A t \in Tab : fetches'[t] = Outdated(fetches[t]) /\ fetches[t] \in Seq(Replies)
  BY DEF OutdateAll, AccessInv, AccessTyped
<1>2. AnswersFit'
  BY <1>1, OutdatedFits DEF AccessInv, AnswersFit
<1>3. fetches' \in [Tab -> Seq(Replies)]
  BY <1>1, OutdatedFits DEF OutdateAll
<1> QED
  BY <1>2, <1>3 DEF OutdateAll

(* One step per action.                                                    *)
LEMMA AccessInvStep == AccessInv /\ [AccessNext]_accessVars => AccessInv'
<1> SUFFICES ASSUME AccessInv, [AccessNext]_accessVars PROVE AccessInv'
  OBVIOUS
<1>0. /\ standing \in [Account -> AnyRoles] /\ cookie \in Users /\ stored \in Space \cup {"none"}
      /\ tab \in [Tab -> Tabs] /\ fetches \in [Tab -> Seq(Replies)] /\ fresh \subseteq Tab
  BY DEF AccessInv, AccessTyped
<1>n. /\ LoggedOut \in Tabs /\ LoggedOut.user = "none" /\ LoggedOut.active = "none"
      /\ LoggedOut.roles = [w \in Space |-> "none"] /\ Memberships(LoggedOut.roles) = {}
  BY DEF LoggedOut, Tabs, Users, AnyRoles, Memberships
<1>1. CASE RoleChanges
  <2>1. /\ OutdateAll /\ UNCHANGED <<cookie, stored, tab>>
        /\ \E u \in Account, w \in Space,
           r \in Roles \cup {"none"} : standing' = [standing EXCEPT ![u][w] = r]
    BY <1>1 DEF RoleChanges
  <2>2. standing' \in [Account -> AnyRoles]
    BY <1>0, <2>1 DEF AnyRoles
  <2>3. TabsFit'
    BY <2>1 DEF AccessInv, TabsFit, OutdateAll
  <2> QED
    BY <1>0, <2>1, <2>2, <2>3, OutdatingFits DEF AccessInv, AccessTyped
<1>2. CASE SessionEnds
  <2>1. OutdateAll /\ cookie' = "none" /\ UNCHANGED <<standing, stored, tab>>
    BY <1>2 DEF SessionEnds
  <2>2. TabsFit'
    BY <2>1 DEF AccessInv, TabsFit, OutdateAll
  <2> QED
    BY <1>0, <2>1, <2>2, OutdatingFits DEF AccessInv, AccessTyped, Users
<1>3. ASSUME NEW t \in Tab, Navigate(t) PROVE AccessInv'
  <2>1. /\ Len(fetches[t]) < MaxFetches /\ fetches' = [fetches EXCEPT ![t] = Append(@, Me)]
        /\ tab' = [tab EXCEPT ![t].loading = TRUE] /\ UNCHANGED <<standing, cookie, stored, fresh>>
    BY <1>3 DEF Navigate
  <2>2. Me \in Replies /\ Me.user = cookie /\ Me.roles = RolesNow
    BY RolesNowTyped DEF AccessInv
  <2>3. fetches[t] \in Seq(Replies) /\ tab[t] \in Tabs
    BY <1>0
  <2>4. /\ Append(fetches[t], Me) \in Seq(Replies) /\ Len(Append(fetches[t], Me)) = Len(fetches[t]) + 1
        /\ \A i \in DOMAIN Append(fetches[t], Me) :
             \/ i \in DOMAIN fetches[t] /\ Append(fetches[t], Me)[i] = fetches[t][i]
             \/ Append(fetches[t], Me)[i] = Me
    BY <2>2, <2>3
  <2>5. fetches' \in [Tab -> Seq(Replies)] /\ tab' \in [Tab -> Tabs]
    BY <1>0, <2>1, <2>3, <2>4 DEF Tabs
  <2>6. RolesNow' = RolesNow
    BY <2>1 DEF RolesNow
  <2>7. AnswersFit'
    <3> SUFFICES ASSUME NEW s \in Tab
                 PROVE  /\ Len(fetches'[s]) <= MaxFetches
                        /\ \A i \in DOMAIN fetches'[s] :
                             fetches'[s][i].current => fetches'[s][i].user = cookie
                               /\ fetches'[s][i].roles = RolesNow
      BY <2>1, <2>6 DEF AnswersFit
    <3>1. CASE s # t
      BY <1>0, <2>1, <3>1 DEF AccessInv, AnswersFit
    <3>2. CASE s = t
      <4>1. fetches'[s] = Append(fetches[t], Me)
        BY <1>0, <2>1, <3>2
      <4>2. Len(fetches[t]) + 1 <= MaxFetches
        BY <2>1, <2>3, AccessAssumption
      <4> QED
        BY <2>2, <2>4, <4>1, <4>2 DEF AccessInv, AnswersFit
    <3> QED
      BY <3>1, <3>2
  <2>8. \A s \in Tab : tab'[s].user = tab[s].user /\ tab'[s].active = tab[s].active
        /\ tab'[s].roles = tab[s].roles
    BY <1>0, <2>1, <2>3 DEF Tabs
  <2>9. TabsFit'
    BY <2>1, <2>6, <2>8 DEF AccessInv, TabsFit
  <2> QED
    BY <1>0, <2>1, <2>5, <2>7, <2>9 DEF AccessInv, AccessTyped
<1>4. ASSUME NEW t \in Tab, Refreshed(t) PROVE AccessInv'
  <2>1. PICK i \in DOMAIN fetches[t] :
          LET me == fetches[t][i] IN
          /\ tab' = [tab EXCEPT ![t] = IF me.user = "none" THEN LoggedOut ELSE Applied(me)]
          /\ stored' = IF me.user = "none" THEN stored ELSE ChooseWorkspace(me.roles, stored)
          /\ fetches' = [fetches EXCEPT ![t] = RemoveAt(@, i)]
          /\ fresh' = IF me.current THEN fresh \cup {t} ELSE fresh \ {t}
          /\ UNCHANGED <<standing, cookie, moves>>
    BY <1>4 DEF Refreshed
  <2> DEFINE me == fetches[t][i]
             new == IF me.user = "none" THEN LoggedOut ELSE Applied(me)
             choice == ChooseWorkspace(me.roles, stored)
  <2>2. /\ tab' = [tab EXCEPT ![t] = new]
        /\ stored' = (IF me.user = "none" THEN stored ELSE choice)
        /\ fetches' = [fetches EXCEPT ![t] = RemoveAt(fetches[t], i)]
        /\ fresh' = (IF me.current THEN fresh \cup {t} ELSE fresh \ {t})
        /\ UNCHANGED <<standing, cookie>>
    BY <2>1
  <2>3. fetches[t] \in Seq(Replies) /\ me \in Replies
    BY <1>0
  <2>4. choice \in Space \cup {"none"} /\ (choice # "none" => choice \in Memberships(me.roles))
    BY <1>0, <2>3, ChoiceFits DEF Replies
  <2>5. Applied(me) \in Tabs /\ Applied(me).user = me.user /\ Applied(me).roles = me.roles
        /\ Applied(me).active = choice
    BY <2>3, <2>4 DEF Applied, Tabs, Replies
  <2>6. me.current => me.user = cookie /\ me.roles = RolesNow
    BY DEF AccessInv, AnswersFit
  <2>7. cookie = "none" => RolesNow = LoggedOut.roles
    BY DEF RolesNow
  <2> HIDE DEF me, choice
  <2>8. /\ new \in Tabs
        /\ new.user = "none" => Memberships(new.roles) = {}
        /\ new.active # "none" => new.active \in Memberships(new.roles)
        /\ me.current => new.user = cookie /\ new.roles = RolesNow
    BY <1>n, <2>4, <2>5, <2>6, <2>7
  <2> HIDE DEF new
  <2>9. tab'[t] = new /\ \A s \in Tab \ {t} : tab'[s] = tab[s]
    BY <1>0, <2>2
  <2>10. RolesNow' = RolesNow
    BY <2>2 DEF RolesNow
  <2>11. TabsFit'
    BY <2>2, <2>8, <2>9, <2>10 DEF AccessInv, TabsFit
  <2>12. AnswersFit' /\ fetches' \in [Tab -> Seq(Replies)]
    <3>1. /\ RemoveAt(fetches[t], i) \in Seq(Replies)
          /\ Len(RemoveAt(fetches[t], i)) = Len(fetches[t]) - 1
          /\ \A k \in DOMAIN RemoveAt(fetches[t], i) :
               \E j \in DOMAIN fetches[t] : RemoveAt(fetches[t], i)[k] = fetches[t][j]
      BY <2>1, <2>3, RemovalFits
    <3>2. fetches'[t] = RemoveAt(fetches[t], i) /\ \A s \in Tab \ {t} : fetches'[s] = fetches[s]
      BY <1>0, <2>2
    <3>3. Len(RemoveAt(fetches[t], i)) <= MaxFetches
      <4>1. Len(fetches[t]) \in Nat /\ Len(fetches[t]) <= MaxFetches
        BY <2>3 DEF AccessInv, AnswersFit
      <4> QED
        BY <3>1, <4>1, AccessAssumption
    <3>4. AnswersFit'
      BY <2>2, <2>10, <3>1, <3>2, <3>3 DEF AccessInv, AnswersFit
    <3>5. fetches' \in [Tab -> Seq(Replies)]
      BY <1>0, <2>2, <3>1
    <3> QED
      BY <3>4, <3>5
  <2>13. AccessTyped'
    BY <1>0, <2>2, <2>4, <2>8, <2>12 DEF AccessTyped
  <2> QED
    BY <2>11, <2>12, <2>13 DEF AccessInv
<1>5. ASSUME NEW t \in Tab, LogOut(t) PROVE AccessInv'
  <2>1. OutdateAll /\ cookie' = "none" /\ tab' = [tab EXCEPT ![t] = LoggedOut] /\ stored' = "none"
        /\ UNCHANGED standing
    BY <1>5 DEF LogOut
  <2>2. TabsFit'
    BY <1>0, <1>n, <2>1 DEF AccessInv, TabsFit, OutdateAll
  <2>3. tab' \in [Tab -> Tabs] /\ "none" \in Users /\ "none" \in Space \cup {"none"}
    BY <1>0, <1>n, <2>1 DEF Users
  <2> QED
    BY <1>0, <2>1, <2>2, <2>3, OutdatingFits DEF AccessInv, AccessTyped
<1>6. ASSUME NEW t \in Tab, NEW u \in Account, LogIn(t, u) PROVE AccessInv'
  <2> DEFINE me == [user |-> u, roles |-> standing[u], current |-> TRUE]
             choice == ChooseWorkspace(standing[u], stored)
             new == [Applied(me) EXCEPT !.loading = TRUE]
             added == [s \in Tab |-> IF s = t THEN <<me>> ELSE <<>>]
  <2>1. /\ cookie' = u /\ Len(fetches[t]) < MaxFetches /\ stored' = choice /\ tab' = [tab EXCEPT ![t] = new]
        /\ fetches' = [s \in Tab |-> Outdated(fetches[s]) \o IF s = t THEN <<me>> ELSE <<>>]
        /\ fresh' = {} /\ UNCHANGED standing
    BY <1>6 DEF LogIn
  <2>2. /\ u \in Users /\ u # "none" /\ standing[u] \in AnyRoles /\ me \in Replies
        /\ me.user = u /\ me.roles = standing[u]
    BY <1>0, AccessAssumption DEF Users, Replies
  <2>3. choice \in Space \cup {"none"} /\ (choice # "none" => choice \in Memberships(standing[u]))
    BY <1>0, <2>2, ChoiceFits
  <2>4. /\ new \in Tabs /\ new.user = u /\ new.roles = standing[u] /\ new.active = choice
    BY <2>2, <2>3 DEF Applied, Tabs
  <2>5. RolesNow' = standing[u]
    BY <2>1, <2>2 DEF RolesNow
  <2>6. TabsFit'
    <3>1. tab'[t] = new /\ \A s \in Tab \ {t} : tab'[s] = tab[s]
      BY <1>0, <2>1
    <3> HIDE DEF new, choice, me
    <3> QED
      BY <2>1, <2>2, <2>3, <2>4, <3>1 DEF AccessInv, TabsFit
  <2>7. \A s \in Tab : fetches'[s] = Outdated(fetches[s]) \o added[s]
    BY <2>1
  <2>8. \A s \in Tab : added[s] \in Seq(Replies) /\ (s = t => Len(added[s]) = 1 /\ added[s][1] = me)
        /\ (s # t => Len(added[s]) = 0)
    BY <2>2
  <2> HIDE DEF me, added, new, choice
  <2>9. ASSUME NEW s \in Tab
        PROVE  /\ fetches'[s] \in Seq(Replies) /\ Len(fetches'[s]) <= MaxFetches
               /\ \A i \in DOMAIN fetches'[s] : ~fetches'[s][i].current \/ fetches'[s][i] = me
    <3> DEFINE old == Outdated(fetches[s])
    <3>1. fetches[s] \in Seq(Replies) /\ Len(fetches[s]) <= MaxFetches
      BY <1>0 DEF AccessInv, AnswersFit
    <3>2. /\ old \in Seq(Replies) /\ Len(old) = Len(fetches[s])
          /\ \A i \in DOMAIN old : ~old[i].current
      BY <3>1, OutdatedFits
    <3> HIDE DEF old
    <3>3. added[s] \in Seq(Replies)
      BY <2>8
    <3>4. (s = t => Len(added[s]) = 1 /\ added[s][1] = me) /\ (s # t => Len(added[s]) = 0)
      BY <2>8
    <3>5. (s = t => Len(fetches[s]) < MaxFetches) /\ MaxFetches \in Nat
      BY <2>1, AccessAssumption
    <3>6. Len(old) + Len(added[s]) <= MaxFetches
      <4>1. Len(fetches[s]) \in Nat
        BY <3>1
      <4>2. CASE s = t
        <5>1. Len(added[s]) = 1
          BY <3>4, <4>2
        <5>2. Len(old) + 1 <= MaxFetches
          BY <3>1, <3>2, <3>5, <4>1, <4>2
        <5> QED
          BY <5>1, <5>2
      <4>3. CASE s # t
        <5>1. Len(added[s]) = 0
          BY <3>4, <4>3
        <5>2. Len(old) + 0 <= MaxFetches
          BY <3>1, <3>2, <3>5, <4>1
        <5> QED
          BY <5>1, <5>2
      <4> QED
        BY <4>2, <4>3
    <3>7. Len(added[s]) \in {0, 1}
      BY <3>4
    <3>8. fetches'[s] = old \o added[s]
      BY <2>7 DEF old
    <3>9. /\ old \o added[s] \in Seq(Replies) /\ Len(old \o added[s]) <= MaxFetches
          /\ \A i \in DOMAIN (old \o added[s]) :
               ~(old \o added[s])[i].current \/ (Len(added[s]) = 1 /\ (old \o added[s])[i] = added[s][1])
      BY <3>2, <3>3, <3>5, <3>6, <3>7, LengthenedFits
    <3>10. Len(added[s]) = 1 => added[s][1] = me
      BY <3>4
    <3> QED
      BY <3>8, <3>9, <3>10
  <2>10. AnswersFit'
    BY <2>1, <2>2, <2>5, <2>9 DEF AnswersFit
  <2>11. fetches' \in [Tab -> Seq(Replies)]
    <3>1. DOMAIN fetches' = Tab /\ fetches' = [s \in Tab |-> fetches'[s]]
      BY <2>1
    <3> QED
      BY <2>9, <3>1
  <2>12. tab' \in [Tab -> Tabs]
    BY <1>0, <2>1, <2>4
  <2> QED
    BY <1>0, <2>1, <2>2, <2>3, <2>6, <2>10, <2>11, <2>12 DEF AccessInv, AccessTyped
<1>7. ASSUME NEW t \in Tab, NEW w \in Space, SetActiveWorkspace(t, w) PROVE AccessInv'
  <2>1. /\ w \in Memberships(tab[t].roles) /\ tab' = [tab EXCEPT ![t].active = w] /\ stored' = w
        /\ UNCHANGED <<standing, cookie, fetches, fresh>>
    BY <1>7 DEF SetActiveWorkspace
  <2>2. tab' \in [Tab -> Tabs]
    BY <1>0, <2>1 DEF Tabs
  <2>3. /\ \A s \in Tab : tab'[s].user = tab[s].user /\ tab'[s].roles = tab[s].roles
        /\ \A s \in Tab \ {t} : tab'[s].active = tab[s].active
        /\ tab'[t].active = w
    BY <1>0, <2>1 DEF Tabs
  <2>4. RolesNow' = RolesNow
    BY <2>1 DEF RolesNow
  <2>5. TabsFit'
    BY <2>1, <2>3, <2>4 DEF AccessInv, TabsFit
  <2>6. AnswersFit'
    BY <2>1, <2>4 DEF AccessInv, AnswersFit
  <2> QED
    BY <1>0, <2>1, <2>2, <2>5, <2>6 DEF AccessInv, AccessTyped
<1>8. CASE UNCHANGED accessVars
  <2>1. UNCHANGED <<standing, cookie, stored, tab, fetches, fresh>>
    BY <1>8 DEF accessVars
  <2> QED
    BY <2>1 DEF AccessInv, AccessTyped, AnswersFit, TabsFit, RolesNow
<1> QED
  BY <1>1, <1>2, <1>3, <1>4, <1>5, <1>6, <1>7, <1>8 DEF AccessNext

(* Hence it holds throughout.                                              *)
LEMMA AccessInvHolds == AccessSpec => []AccessInv
BY AccessInvInit, AccessInvStep, PTL DEF AccessSpec

(* It implies the property.                                                *)
LEMMA AccessInvGrants == AccessInv => OffersAreGranted
<1> SUFFICES ASSUME AccessInv, NEW t \in fresh, tab[t].active # "none"
             PROVE  /\ Granted({}, tab[t].active)
                    /\ \A o \in PageOffers \ UngatedOffers :
                         o.gate \subseteq Permissions[tab[t].roles[tab[t].active]]
                           => Granted(o.needs, tab[t].active)
  BY DEF OffersAreGranted
<1> DEFINE w == tab[t].active
<1>1. /\ t \in Tab /\ w \in Memberships(tab[t].roles) /\ tab[t].user = cookie /\ tab[t].roles = RolesNow
      /\ cookie # "none"
  BY DEF AccessInv, AccessTyped, TabsFit
<1>2. RolesNow = standing[cookie] /\ cookie \in Account
  BY <1>1 DEF RolesNow, AccessInv, AccessTyped, Users
<1>3. w \in Space /\ standing[cookie][w] \in Roles /\ standing[cookie][w] # "none"
  BY <1>1, <1>2 DEF Memberships, AccessInv, AccessTyped, AnyRoles
<1>4. Granted({}, w)
  BY <1>1, <1>3 DEF Granted, AuthGuard, WorkspaceGuard, RoleGuard
<1>5. ASSUME NEW o \in PageOffers \ UngatedOffers, o.gate \subseteq Permissions[tab[t].roles[w]]
      PROVE  Granted(o.needs, w)
  BY <1>1, <1>2, <1>3, <1>5, OffersFit DEF Fits, Granted, AuthGuard, WorkspaceGuard, RoleGuard
<1> QED
  BY <1>4, <1>5

(* AccessTypeOK, for every number of people, workspaces and tabs.          *)
THEOREM AccessTypesHold == AccessSpec => []AccessTypeOK
<1>1. AccessInv => AccessTypeOK
  BY DEF AccessInv, AccessTyped, AnswersFit, AccessTypeOK, Tabs, Users, AnyRoles
<1> QED
  BY <1>1, AccessInvHolds, PTL

(* OffersAreGranted, for every number of people, workspaces and tabs: what *)
(* a page offers by a permission, the guards grant while the tab shows     *)
(* what the server has, for every button of every page and every role.     *)
THEOREM OffersHold == AccessSpec => []OffersAreGranted
BY AccessInvGrants, AccessInvHolds, PTL
-----------------------------------------------------------------------------
(* The components in one run: a behaviour of them all holds one of each.   *)

(* Each component's part of a behaviour of all is a behaviour of its own:  *)
(* it takes one of its steps or rests.                                     *)
LEMMA ServicesAreTheirParts ==
  ServicesSpec =>
    /\ TokenSpec
    /\ HookSpec
    /\ InboxSpec
    /\ TeamSpec
    /\ SessionsSpec
    /\ EditorSpec
    /\ ComposerSpec
    /\ UploadSpec
    /\ InboxPageSpec
    /\ AccessSpec
<1>0. ServicesInit =>
        /\ TokenInit
        /\ HookInit
        /\ InboxInit
        /\ TeamInit
        /\ SessionsInit
        /\ EditorInit
        /\ ComposerInit
        /\ UploadInit
        /\ InboxPageInit
        /\ AccessInit
  BY DEF ServicesInit
<1>1. [ServicesNext]_<<focus, tokenVars, hookVars, inboxVars, teamVars, sessionVars, editorVars,
                             composerVars, uploadVars, inboxPageVars, accessVars>>
        => [TokenNext]_tokenVars
  BY DEF ServicesNext, OthersRest
<1>2. [ServicesNext]_<<focus, tokenVars, hookVars, inboxVars, teamVars, sessionVars, editorVars,
                             composerVars, uploadVars, inboxPageVars, accessVars>>
        => [HookNext]_hookVars
  BY DEF ServicesNext, OthersRest
<1>3. [ServicesNext]_<<focus, tokenVars, hookVars, inboxVars, teamVars, sessionVars, editorVars,
                             composerVars, uploadVars, inboxPageVars, accessVars>>
        => [InboxNext]_inboxVars
  BY DEF ServicesNext, OthersRest
<1>4. [ServicesNext]_<<focus, tokenVars, hookVars, inboxVars, teamVars, sessionVars, editorVars,
                             composerVars, uploadVars, inboxPageVars, accessVars>>
        => [TeamNext]_teamVars
  BY DEF ServicesNext, OthersRest
<1>5. [ServicesNext]_<<focus, tokenVars, hookVars, inboxVars, teamVars, sessionVars, editorVars,
                             composerVars, uploadVars, inboxPageVars, accessVars>>
        => [SessionsNext]_sessionVars
  BY DEF ServicesNext, OthersRest
<1>6. [ServicesNext]_<<focus, tokenVars, hookVars, inboxVars, teamVars, sessionVars, editorVars,
                             composerVars, uploadVars, inboxPageVars, accessVars>>
        => [EditorNext]_editorVars
  BY DEF ServicesNext, OthersRest
<1>7. [ServicesNext]_<<focus, tokenVars, hookVars, inboxVars, teamVars, sessionVars, editorVars,
                             composerVars, uploadVars, inboxPageVars, accessVars>>
        => [ComposerNext]_composerVars
  BY DEF ServicesNext, OthersRest
<1>8. [ServicesNext]_<<focus, tokenVars, hookVars, inboxVars, teamVars, sessionVars, editorVars,
                             composerVars, uploadVars, inboxPageVars, accessVars>>
        => [UploadNext]_uploadVars
  BY DEF ServicesNext, OthersRest
<1>9. [ServicesNext]_<<focus, tokenVars, hookVars, inboxVars, teamVars, sessionVars, editorVars,
                             composerVars, uploadVars, inboxPageVars, accessVars>>
        => [InboxPageNext]_inboxPageVars
  BY DEF ServicesNext, OthersRest
<1>10. [ServicesNext]_<<focus, tokenVars, hookVars, inboxVars, teamVars, sessionVars, editorVars,
                             composerVars, uploadVars, inboxPageVars, accessVars>>
        => [AccessNext]_accessVars
  BY DEF ServicesNext, OthersRest
<1> QED
  BY <1>0, <1>1, <1>2, <1>3, <1>4, <1>5, <1>6, <1>7, <1>8, <1>9, <1>10, PTL
     DEF ServicesSpec, TokenSpec, HookSpec, InboxSpec, TeamSpec, SessionsSpec, EditorSpec,
         ComposerSpec, UploadSpec, InboxPageSpec, AccessSpec

(* ServicesTypeOK, for every value of the constants: the types of every    *)
(* component that serves requests and of every page.                       *)
THEOREM ServicesAreTyped == ServicesSpec => []ServicesTypeOK
<1>1. /\ TokenTypeOK /\ HookTypeOK /\ InboxTypeOK /\ TeamTypeOK /\ SessionsTypeOK
      /\ EditorTypeOK /\ ComposerTypeOK /\ UploadTypeOK /\ InboxPageTypeOK /\ AccessTypeOK
      => ServicesTypeOK
  BY DEF ServicesTypeOK
<1> QED
  BY <1>1, ServicesAreTheirParts, TokenTypesHold, HooksAreTyped, InboxTypesHold, TeamIsTyped,
     SessionsAreTyped, EditorTypesHold, ComposerTypesHold, UploadTypesHold, InboxPageTypesHold,
     AccessTypesHold, PTL

(* PagesKeepFaith, for every value of the constants: what the pages show,  *)
(* offer and send fits what the services hold and do.                      *)
THEOREM PagesHold == ServicesSpec => []PagesKeepFaith
<1>1. ComposerKeepsFaith /\ UploadsAreWhole /\ InboxPageHolds /\ OffersAreGranted => PagesKeepFaith
  BY DEF PagesKeepFaith
<1> QED
  BY <1>1, ServicesAreTheirParts, ComposerHolds, UploadsHold, InboxPageKeepsFaith, OffersHold, PTL
=============================================================================
