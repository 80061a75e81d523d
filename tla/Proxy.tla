------------------------------- MODULE Proxy -------------------------------
(***************************************************************************)
(* Outbound traffic through a workspace's proxy.  A caller of              *)
(* forWorkspace reads the setting, takes a handle on a pooled dispatcher,  *)
(* obtains an attestation that the route works (cached in Redis, made by   *)
(* whoever holds the attestation lock) and sends its requests through the  *)
(* dispatcher, several at a time where an adapter uploads in parallel; the *)
(* first that fails ends the caller's work, and the handle is given back   *)
(* while the siblings are still under way.  Dispatchers are counted by     *)
(* handles and requests; one that left the LRU map is closed when both     *)
(* counts are zero.  The map (quick-lru) has a recent and an old           *)
(* generation: when the recent one is full, the old one is evicted whole   *)
(* and the recent one becomes old.                                         *)
(* A cache entry is keyed by the version of the setting; its time to live  *)
(* and that of the lock are the actions VerdictExpires and CheckKeyLapses. *)
(***************************************************************************)
EXTENDS Naturals, FiniteSets

CONSTANTS Client,         \* executions of forWorkspace and its caller
          Route,          \* proxy URLs
          Sibling,        \* the requests an execution may have under way at once
          MaxVersions,    \* bound on the updates of the setting
          MaxDispatchers, \* bound on the dispatchers created
          MaxChecks,      \* bound on the network checks made
          MaxMoves,       \* bound on the updates and the checks together
          MaxUses         \* bound on the handles, and the requests, of a dispatcher

ASSUME ProxyAssumption ==
  /\ IsFiniteSet(Client) /\ IsFiniteSet(Route) /\ Route # {} /\ IsFiniteSet(Sibling)
  /\ "nobody" \notin Client /\ "none" \notin Route /\ "check" \notin Sibling
  /\ {MaxVersions, MaxDispatchers, MaxChecks, MaxMoves, MaxUses} \subseteq Nat \ {0}

VARIABLES
  setting,    \* the WorkspaceProxySetting row
  verdict,    \* the cached result of each version: what, and of which check
  checkKey,   \* who holds the attestation lock of each version
  checks,     \* checks started, which also numbers them
  dispatcher, \* the entries of the pool, in a generation of the LRU map or out of it
  poolClosed,
  client,     \* where each execution is
  attested    \* the versions of which a check succeeded

proxyVars == <<setting, verdict, checkKey, checks, dispatcher, poolClosed, client, attested>>

Version == 1..MaxVersions
Entry == 1..MaxDispatchers
NoKey == "nobody"
NoVerdict == [kind |-> "none", of |-> 0]  \* of survives the expiry, for VerdictsMoveForward
NoEntry == [route |-> "none", handles |-> 0, requests |-> 0,
            evict |-> FALSE, closed |-> FALSE, gen |-> "out"]
\* kind: "calling", "forcing" a check (getNetworkStatus) or "editing"; out: its requests
\* under way; at "leaving" its handle is given back (or forgotten) and siblings may go on
NoClient == [kind |-> "none", at |-> "idle", version |-> 0, entry |-> 0, out |-> {},
             check |-> 0, good |-> FALSE, route |-> "none", lock |-> FALSE]

Pooled == {e \in Entry : dispatcher[e].gen # "out"}

ProxyTypeOK ==
  /\ setting \in [version : Version, route : Route \cup {"direct"}, lock : BOOLEAN]
  /\ \A v \in Version : /\ verdict[v].kind \in {"none", "success", "failure"}
                        /\ verdict[v].of \in 0..checks
                        /\ checkKey[v] \in Client \cup {NoKey}
  /\ checks \in 0..MaxChecks /\ poolClosed \in BOOLEAN /\ attested \subseteq Version
  /\ \A e \in Entry : /\ dispatcher[e].handles \in 0..MaxUses
                      /\ dispatcher[e].requests \in 0..MaxUses
                      /\ e \in Pooled => dispatcher[e].route \in Route
  /\ \A c \in Client : /\ client[c].version \in 0..MaxVersions
                       /\ client[c].entry \in 0..MaxDispatchers
                       /\ client[c].out \subseteq Sibling \cup {"check"}

ProxyInit ==
  /\ setting = [version |-> 1, route |-> CHOOSE r \in Route : TRUE, lock |-> FALSE]
  /\ verdict = [v \in Version |-> NoVerdict] /\ checkKey = [v \in Version |-> NoKey]
  /\ checks = 0 /\ poolClosed = FALSE /\ attested = {}
  /\ dispatcher = [e \in Entry |-> NoEntry] /\ client = [c \in Client |-> NoClient]
-----------------------------------------------------------------------------
(* The pool.  Two entries of one route are never listed together.          *)
Created == {e \in Entry : dispatcher[e].route # "none"}
Fresh == Cardinality(Created) + 1
Moves == setting.version - 1 + checks

\* Mutant of CheckEviction: forgets that requests outlive the handle.
CheckEvictionOfHandles(d) ==
  IF d.handles = 0 /\ d.evict THEN [d EXCEPT !.closed = TRUE] ELSE d

CheckEviction(d) ==
  IF d.requests = 0 /\ d.handles = 0 /\ d.evict THEN [d EXCEPT !.closed = TRUE] ELSE d

\* onEviction, or the sweep
Evicted(d) == CheckEviction([d EXCEPT !.evict = TRUE, !.gen = "out"])

\* The recent generation is full.
Turned(pool) ==
  [e \in Entry |-> CASE pool[e].gen = "old" -> Evicted(pool[e])
                     [] pool[e].gen = "recent" -> [pool[e] EXCEPT !.gen = "old"]
                     [] OTHER -> pool[e]]

ReleaseHandle(d) == CheckEviction([d EXCEPT !.handles = @ - 1])
ReleaseLease(d) == CheckEviction([d EXCEPT !.requests = @ - 1])

Quit(c) == client' = [client EXCEPT ![c] = NoClient]
Fail(c) ==
  /\ Quit(c)
  /\ dispatcher' = IF client[c].entry = 0 THEN dispatcher
                   ELSE [dispatcher EXCEPT ![client[c].entry] = ReleaseHandle(@)]

(* The timer: an entry idle for 15 minutes is closed and leaves the map.   *)
IdleSweep(e) ==
  /\ e \in Pooled /\ ~poolClosed
  /\ dispatcher[e].handles = 0 /\ dispatcher[e].requests = 0
  /\ dispatcher' = [dispatcher EXCEPT ![e] = Evicted(@)]
  /\ UNCHANGED <<setting, verdict, checkKey, checks, poolClosed, client, attested>>

(* The other workspaces' traffic fills the recent generation.              *)
OthersTurn ==
  /\ ~poolClosed /\ dispatcher' = Turned(dispatcher)
  /\ UNCHANGED <<setting, verdict, checkKey, checks, poolClosed, client, attested>>

(* Shutdown closes what is listed, in use or not.                          *)
CloseAll ==
  /\ ~poolClosed /\ poolClosed' = TRUE
  /\ dispatcher' = [e \in Entry |-> IF e \in Pooled
                      THEN [dispatcher[e] EXCEPT !.evict = TRUE, !.closed = TRUE, !.gen = "out"]
                      ELSE dispatcher[e]]
  /\ UNCHANGED <<setting, verdict, checkKey, checks, client, attested>>
-----------------------------------------------------------------------------
(* prepareWorkspace: without a proxy there is nothing to attest.           *)
Prepare(c, kind) ==
  /\ client[c] = NoClient /\ setting.route # "direct"
  /\ client' = [client EXCEPT ![c] = [NoClient EXCEPT !.kind = kind, !.at = "validated",
                                        !.version = setting.version, !.route = setting.route]]
  /\ UNCHANGED <<setting, verdict, checkKey, checks, dispatcher, poolClosed, attested>>

(* The endpoint was resolved and validated meanwhile.  A new entry, and an *)
(* old one that is found, goes into the recent generation, which may fill. *)
AcquireHandle(c) ==
  LET route == client[c].route
      known == {e \in Pooled : dispatcher[e].route = route}
  IN
  /\ client[c].at = "validated"
  /\ IF poolClosed THEN Quit(c) /\ UNCHANGED dispatcher
     ELSE \E e \in Entry, fills \in BOOLEAN :
       /\ e \in IF known # {} THEN known ELSE {Fresh}
       /\ fills => dispatcher[e].gen # "recent"
       /\ dispatcher[e].handles < MaxUses
       /\ LET used == [dispatcher EXCEPT ![e].route = route, ![e].gen = "recent",
                                         ![e].handles = @ + 1]
          IN dispatcher' = IF fills THEN Turned(used) ELSE used
       /\ client' = [client EXCEPT ![c].at = "asking", ![c].entry = e, ![c].route = "none"]
  /\ UNCHANGED <<setting, verdict, checkKey, checks, poolClosed, attested>>

Passed(c) == [NoClient EXCEPT !.at = "confirming", !.version = client[c].version,
                              !.entry = client[c].entry]

Answered(c, v) ==   \* what a cached verdict does to its reader
  \/ /\ verdict[v].kind = "failure" /\ Fail(c)
  \/ /\ verdict[v].kind = "success"
     /\ client' = [client EXCEPT ![c] = Passed(c)] /\ UNCHANGED dispatcher

\* Mutant of AskCache: any cached entry lets the caller through.
AskCacheForAny(c) ==
  LET v == client[c].version IN
  /\ client[c].at \in {"asking", "waiting"} /\ verdict[v].kind # "none"
  /\ client' = [client EXCEPT ![c] = Passed(c)]
  /\ UNCHANGED <<setting, verdict, checkKey, checks, dispatcher, poolClosed, attested>>

(* The cached answer, first thing or while another one checks.             *)
AskCache(c) ==
  LET v == client[c].version IN
  /\ client[c].at \in {"asking", "waiting"}
  /\ client[c].at = "asking" => client[c].kind # "forcing"
  /\ Answered(c, v)
  /\ UNCHANGED <<setting, verdict, checkKey, checks, poolClosed, attested>>

WaitingTimesOut(c) ==   \* 15 looks, some 17 seconds
  /\ client[c].at = "waiting" /\ Fail(c)
  /\ UNCHANGED <<setting, verdict, checkKey, checks, poolClosed, attested>>

TryCheckKey(c) ==
  LET v == client[c].version IN
  /\ client[c].at = "asking" /\ checks < MaxChecks /\ Moves < MaxMoves
  /\ verdict[v].kind = "none" \/ client[c].kind = "forcing"
  /\ IF checkKey[v] = NoKey
     THEN /\ checkKey' = [checkKey EXCEPT ![v] = c] /\ checks' = checks + 1
          /\ client' = [client EXCEPT ![c].at = "checking", ![c].check = checks + 1,
                                      ![c].out = {"check"}]
          /\ dispatcher[client[c].entry].requests < MaxUses
          /\ dispatcher' = [dispatcher EXCEPT ![client[c].entry].requests = @ + 1]
     ELSE /\ client' = [client EXCEPT ![c].at = "waiting"]
          /\ UNCHANGED <<checkKey, checks, dispatcher>>
  /\ UNCHANGED <<setting, verdict, poolClosed, attested>>

(* An answer that is not 2xx is not read: its request is never released.   *)
CheckNetwork(c, good, read) ==
  /\ client[c].at = "checking" /\ (good => read)
  /\ client' = [client EXCEPT ![c].at = "storing", ![c].good = good, ![c].out = {}]
  /\ dispatcher' = IF read THEN [dispatcher EXCEPT ![client[c].entry] = ReleaseLease(@)]
                   ELSE dispatcher
  /\ attested' = IF good THEN attested \cup {client[c].version} ELSE attested
  /\ UNCHANGED <<setting, verdict, checkKey, checks, poolClosed>>

Verdict(c) == [kind |-> IF client[c].good THEN "success" ELSE "failure", of |-> client[c].check]

\* Mutant of StoreVerdict: writes whoever holds the lock by now.
StoreVerdictAnyway(c) ==
  LET v == client[c].version IN
  /\ client[c].at = "storing" /\ verdict' = [verdict EXCEPT ![v] = Verdict(c)]
  /\ checkKey' = [checkKey EXCEPT ![v] = IF @ = c THEN NoKey ELSE @]
  /\ IF client[c].good
     THEN client' = [client EXCEPT ![c] = Passed(c)] /\ UNCHANGED dispatcher
     ELSE Fail(c)
  /\ UNCHANGED <<setting, checks, poolClosed, attested>>

(* setIfLockOwned, and the release of the lock.                            *)
StoreVerdict(c) ==
  LET v == client[c].version
      owned == checkKey[v] = c
  IN
  /\ client[c].at = "storing"
  /\ verdict' = IF owned THEN [verdict EXCEPT ![v] = Verdict(c)] ELSE verdict
  /\ checkKey' = IF owned THEN [checkKey EXCEPT ![v] = NoKey] ELSE checkKey
  /\ IF owned /\ client[c].good
     THEN client' = [client EXCEPT ![c] = Passed(c)] /\ UNCHANGED dispatcher
     ELSE Fail(c)
  /\ UNCHANGED <<setting, checks, poolClosed, attested>>

(* Only if the setting is still the one that was attested.                 *)
Confirm(c) ==
  /\ client[c].at = "confirming"
  /\ IF client[c].version = setting.version
     THEN client' = [client EXCEPT ![c].at = "using"] /\ UNCHANGED dispatcher
     ELSE Fail(c)
  /\ UNCHANGED <<setting, verdict, checkKey, checks, poolClosed, attested>>

(* A lease is taken whether or not the handle was given back.  A closed    *)
(* dispatcher refuses the request, whose lease is given back at once.      *)
StartRequest(c, q) ==
  /\ client[c].at \in {"using", "leaving"} /\ q \notin client[c].out
  /\ ~dispatcher[client[c].entry].closed /\ dispatcher[client[c].entry].requests < MaxUses
  /\ client' = [client EXCEPT ![c].out = @ \cup {q}]
  /\ dispatcher' = [dispatcher EXCEPT ![client[c].entry].requests = @ + 1]
  /\ UNCHANGED <<setting, verdict, checkKey, checks, poolClosed, attested>>

EndRequest(c, q) ==
  /\ client[c].at \in {"using", "leaving"} /\ q \in client[c].out
  /\ client' = [client EXCEPT ![c].out = @ \ {q}]
  /\ dispatcher' = [dispatcher EXCEPT ![client[c].entry] = ReleaseLease(@)]
  /\ UNCHANGED <<setting, verdict, checkKey, checks, poolClosed, attested>>

(* The workers release, whatever is under way; the API's                   *)
(* (await forWorkspace(..)).adapters and the refresh job forget to.        *)
ReleaseContext(c, forgets) ==
  /\ client[c].at = "using" /\ client' = [client EXCEPT ![c].at = "leaving"]
  /\ dispatcher' = IF forgets THEN dispatcher
                   ELSE [dispatcher EXCEPT ![client[c].entry] = ReleaseHandle(@)]
  /\ UNCHANGED <<setting, verdict, checkKey, checks, poolClosed, attested>>

(* The last sibling has settled.                                           *)
Settle(c) ==
  /\ client[c].at = "leaving" /\ client[c].out = {} /\ Quit(c)
  /\ UNCHANGED <<setting, verdict, checkKey, checks, dispatcher, poolClosed, attested>>

CheckKeyLapses(v) ==   \* 30 seconds without a heartbeat
  /\ checkKey[v] # NoKey /\ checkKey' = [checkKey EXCEPT ![v] = NoKey]
  /\ UNCHANGED <<setting, verdict, checks, dispatcher, poolClosed, client, attested>>

VerdictExpires(v) ==   \* 120 seconds, 10 for a failure
  /\ verdict[v].kind # "none" /\ verdict' = [verdict EXCEPT ![v].kind = "none"]
  /\ UNCHANGED <<setting, checkKey, checks, dispatcher, poolClosed, client, attested>>
-----------------------------------------------------------------------------
(* updateProxy: the client names the version it saw; the fields it does    *)
(* not send keep the value read before the write.                          *)
UpdateProxyRead(c) ==
  /\ client[c] = NoClient /\ setting.version < MaxVersions
  /\ client' = [client EXCEPT ![c] = [NoClient EXCEPT !.kind = "editing", !.at = "merging",
                                        !.version = setting.version, !.lock = setting.lock]]
  /\ UNCHANGED <<setting, verdict, checkKey, checks, dispatcher, poolClosed, attested>>

UpdateProxyWrite(c, route, lock, sent) ==
  /\ client[c].at = "merging" /\ Moves < MaxMoves /\ Quit(c)
  /\ setting' = IF client[c].version # setting.version THEN setting
                ELSE [version |-> setting.version + 1, route |-> route,
                      lock |-> IF sent THEN lock ELSE client[c].lock]
  /\ UNCHANGED <<verdict, checkKey, checks, dispatcher, poolClosed, attested>>

UpdateProxy(c) ==
  \/ UpdateProxyRead(c)
  \/ \E route \in Route \cup {"direct"} : UpdateProxyWrite(c, route, FALSE, FALSE)
  \/ UpdateProxyWrite(c, setting.route, ~setting.lock, TRUE)

ProxyNext ==
  \/ \E c \in Client :
       \/ \E kind \in {"calling", "forcing"} : Prepare(c, kind)
       \/ AcquireHandle(c) \/ AskCache(c) \/ WaitingTimesOut(c) \/ TryCheckKey(c)
       \/ \E good, read \in BOOLEAN : CheckNetwork(c, good, read)
       \/ StoreVerdict(c) \/ Confirm(c) \/ Settle(c) \/ UpdateProxy(c)
       \/ \E q \in Sibling : StartRequest(c, q) \/ EndRequest(c, q)
       \/ \E forgets \in BOOLEAN : ReleaseContext(c, forgets)
  \/ \E e \in Entry : IdleSweep(e)
  \/ \E v \in Version : CheckKeyLapses(v) \/ VerdictExpires(v)
  \/ OthersTurn \/ CloseAll

ProxySpec == ProxyInit /\ [][ProxyNext]_proxyVars
-----------------------------------------------------------------------------
(* Until the process shuts down, the dispatcher of an execution that still *)
(* has its handle, or whose requests are still under way after the handle  *)
(* was given back, is not closed: not by the LRU map, not by the idle      *)
(* timer, not by the release of another caller nor of its own context.     *)
Uses(c, e) ==
  /\ client[c].entry = e
  /\ client[c].at # "leaving" \/ client[c].out # {}

InUseStaysOpen ==
  \A c \in Client, e \in Entry : Uses(c, e) /\ ~poolClosed => ~dispatcher[e].closed

(* A dispatcher that left the map is closed as soon as the last handle and *)
(* the last request are given back, whichever of them comes last.          *)
RetiredIsClosed ==
  \A e \in Entry : dispatcher[e].evict /\ dispatcher[e].handles = 0 /\ dispatcher[e].requests = 0
                     => dispatcher[e].closed

(* Nothing is sent through a proxy whose very version of the setting has   *)
(* not passed a network check, whichever cache entry let the caller in.    *)
TrafficIsAttested ==
  \A c \in Client : client[c].out \cap Sibling # {} => client[c].version \in attested

(* An execution that lost the attestation lock while it checked never      *)
(* replaces the verdict of a later check.                                  *)
VerdictsMoveForward ==
  [][\A v \in Version : verdict'[v].of >= verdict[v].of]_proxyVars

(* No request is sent through a proxy nobody attested, nor through a       *)
(* dispatcher that is closed, and a retired proxy's sockets do not stay.   *)
ProxyTrafficIsSafe == TrafficIsAttested /\ InUseStaysOpen /\ RetiredIsClosed
=============================================================================
