------------------------- MODULE Background_proofs --------------------------
(***************************************************************************)
(* What holds of the background services, each for every value of its      *)
(* constants: of the proxy runtime, the media library, import and sync and *)
(* the adapters' calls; of the status that the API derives for a content   *)
(* post; of the numbers, from the platforms' answers to the dashboard; and *)
(* of the paged lists.                                                     *)
(*                                                                         *)
(* Every part has an inductive invariant of its own; what it counts is     *)
(* related to sets by the theorems on cardinality.                         *)
(***************************************************************************)
EXTENDS MCBackground, FiniteSetTheorems, SequenceTheorems, WellFoundedInduction, TLAPS

-----------------------------------------------------------------------------
(* The proxy runtime, for any number of clients, routes and versions and   *)
(* any capacity of the pool. The counts of an entry cover what is really   *)
(* held, so an entry closes only when nobody uses it; a verdict cached for *)
(* a version is never older than the checks under way.                     *)

(* The types of the pool's entries and of the executions.                  *)
Generations == {"out", "recent", "old"}
Slots == Sibling \cup {"check"}
Entries == [route : Route \cup {"none"}, handles : 0..MaxUses, requests : 0..MaxUses,
            evict : BOOLEAN, closed : BOOLEAN, gen : Generations]
HandleSteps == {"asking", "waiting", "checking", "storing", "confirming", "using"}
EntrySteps == HandleSteps \cup {"leaving"}
Clients == [kind : {"none", "calling", "forcing", "editing"},
            at : EntrySteps \cup {"idle", "validated", "merging"},
            version : 0..MaxVersions, entry : 0..MaxDispatchers, out : SUBSET Slots,
            check : 0..MaxChecks, good : BOOLEAN, route : Route \cup {"direct", "none"},
            lock : BOOLEAN]

(* An entry of the pool: a listed one is in service; one that left the map *)
(* is closed exactly when nobody holds it, as long as the process runs.    *)
EntryFits(d, down) ==
  /\ d \in Entries
  /\ d.gen # "out" => d.route # "none" /\ ~d.evict /\ ~d.closed
  /\ d.route = "none" => d = NoEntry
  /\ d.closed /\ ~down => d.handles = 0 /\ d.requests = 0
  /\ d.evict /\ d.handles = 0 /\ d.requests = 0 => d.closed

(* The entries made so far are the first ones.                             *)
PoolFits ==
  /\ dispatcher \in [Entry -> Entries]
  /\ \A e \in Entry : EntryFits(dispatcher[e], poolClosed)
  /\ \E k \in 0..MaxDispatchers : Created = 1..k

(* An execution: where it is, it holds what it should and has under way    *)
(* what it may; past the check its version of the setting is attested.     *)
ClientFits(r, passed, n) ==
  /\ r \in Clients
  /\ IF r.at \in EntrySteps THEN r.version \in Version /\ r.entry \in Entry ELSE r.entry = 0
  /\ r.at = "validated" => r.version \in Version /\ r.route \in Route
  /\ r.at = "merging" => r.version \in Version /\ r.version < MaxVersions
  /\ r.at \in {"confirming", "using", "leaving"} => r.version \in passed
  /\ r.at = "storing" /\ r.good => r.version \in passed
  /\ r.at \in {"checking", "storing"} => r.check \in 1..n
  /\ r.at = "checking" => r.out = {"check"}
  /\ r.at \in {"using", "leaving"} => r.out \subseteq Sibling
  /\ r.at \notin {"checking", "using", "leaving"} => r.out = {}

(* So is every client.                                                     *)
ClientsFit == client \in [Client -> Clients] /\ \A c \in Client : ClientFits(client[c], attested, checks)

(* The counts of a dispatcher are never below what is held; they may be    *)
(* above, as some callers forget to give back.                             *)
Holds(r, e) == r.entry = e /\ r.at # "leaving"
Requests(r, q, e) == r.entry = e /\ q \in r.out
Holders(e) == {c \in Client : Holds(client[c], e)}
Requesters(e) == {w \in Client \X Slots : Requests(client[w[1]], w[2], e)}

CountsCover ==
  \A e \in Entry : /\ Cardinality(Holders(e)) <= dispatcher[e].handles
                   /\ Cardinality(Requesters(e)) <= dispatcher[e].requests
                   /\ \A c \in Client : client[c].entry = e => dispatcher[e].route # "none"

(* Who holds the attestation lock of a version is checking it, and its     *)
(* check is at least as late as the one the cached verdict comes from.     *)
VerdictsFit ==
  /\ verdict \in [Version -> [kind : {"none", "success", "failure"}, of : 0..checks]]
  /\ checkKey \in [Version -> Client \cup {NoKey}]
  /\ \A v \in Version :
       /\ verdict[v].kind = "success" => v \in attested
       /\ \A c \in Client : checkKey[v] = c =>
            /\ client[c].at \in {"checking", "storing"} /\ client[c].version = v
            /\ verdict[v].of <= client[c].check

(* The setting and the counters.                                           *)
SettingFits ==
  /\ setting \in [version : Version, route : Route \cup {"direct"}, lock : BOOLEAN]
  /\ checks \in 0..MaxChecks /\ poolClosed \in BOOLEAN /\ attested \subseteq Version

(* The inductive invariant.                                                *)
ProxyInv == SettingFits /\ PoolFits /\ ClientsFit /\ CountsCover /\ VerdictsFit

(* What the assumption on the constants says of the numbers.               *)
LEMMA ProxyNumbers ==
  /\ MaxVersions \in Nat \ {0} /\ MaxDispatchers \in Nat \ {0} /\ MaxChecks \in Nat \ {0}
  /\ MaxUses \in Nat \ {0} /\ IsFiniteSet(Client) /\ NoKey \notin Client /\ "none" \notin Route
  /\ Route # {} /\ 0 \notin Version /\ 0 \notin Entry
  /\ IsFiniteSet(Sibling) /\ "check" \notin Sibling
BY ProxyAssumption DEF NoKey, Version, Entry

(* Nobody and nothing are of their types.                                  *)
LEMMA NothingFits == NoClient \in Clients /\ NoEntry \in Entries
BY ProxyNumbers DEF NoClient, Clients, EntrySteps, NoEntry, Entries, Generations

(* Nobody fits, whatever was attested.                                     *)
LEMMA NobodyFits == ASSUME NEW passed, NEW n PROVE ClientFits(NoClient, passed, n)
BY NothingFits DEF ClientFits, NoClient, EntrySteps, HandleSteps

(* Executions and their requests can be counted.                           *)
LEMMA UsersAreFinite ==
  ASSUME NEW e PROVE IsFiniteSet(Holders(e)) /\ IsFiniteSet(Requesters(e))
<1>1. IsFiniteSet(Slots)
  BY ProxyNumbers, FS_AddElement DEF Slots
<1>2. IsFiniteSet(Client \X Slots)
  BY <1>1, ProxyNumbers, FS_Product
<1> QED
  BY <1>2, ProxyNumbers, FS_Subset DEF Holders, Requesters

(* One element more or less.                                               *)
LEMMA CountChanges ==
  ASSUME NEW S, NEW T, NEW c, IsFiniteSet(S), T \ {c} = S \ {c}
  PROVE  /\ IsFiniteSet(T) /\ Cardinality(S) \in Nat /\ Cardinality(T) \in Nat
         /\ (c \in S) = (c \in T) => Cardinality(T) = Cardinality(S)
         /\ c \in S /\ c \notin T => Cardinality(T) = Cardinality(S) - 1
         /\ c \notin S /\ c \in T => Cardinality(T) = Cardinality(S) + 1
<1>1. CASE c \in S <=> c \in T
  <2>1. T = S
    BY <1>1
  <2> QED
    BY <2>1, <1>1, FS_CardinalityType
<1>2. CASE c \in S /\ c \notin T
  <2>1. T = S \ {c}
    BY <1>2
  <2> QED
    BY <2>1, <1>2, FS_CardinalityType, FS_RemoveElement
<1>3. CASE c \notin S /\ c \in T
  <2>1. T = S \cup {c}
    BY <1>3
  <2> QED
    BY <2>1, <1>3, FS_CardinalityType, FS_AddElement
<1> QED
  BY <1>1, <1>2, <1>3

(* A finite set with a member is not empty.                                *)
LEMMA MembersCount ==
  ASSUME NEW S, IsFiniteSet(S), NEW c \in S
  PROVE  Cardinality(S) \in Nat /\ Cardinality(S) > 0
BY FS_CardinalityType, FS_EmptySet

(* checkEviction gives back an entry that fits, whoever calls it after one *)
(* handle or one request less, or after the entry has left the map.        *)
LEMMA CheckedFits ==
  ASSUME NEW d \in Entries, NEW down,
         d.gen # "out" => d.route # "none" /\ ~d.evict /\ ~d.closed,
         d.route # "none",
         d.closed /\ ~down => d.handles = 0 /\ d.requests = 0
  PROVE  LET x == CheckEviction(d) IN
         /\ EntryFits(x, down) /\ x.route = d.route /\ x.gen = d.gen
         /\ x.handles = d.handles /\ x.requests = d.requests
<1>1. CASE d.requests = 0 /\ d.handles = 0 /\ d.evict
  <2> DEFINE x == [d EXCEPT !.closed = TRUE]
  <2>1. /\ x \in Entries /\ x.route = d.route /\ x.gen = d.gen /\ x.handles = d.handles
        /\ x.requests = d.requests /\ x.closed /\ x.evict = d.evict
    BY DEF Entries
  <2>2. CheckEviction(d) = x
    BY <1>1 DEF CheckEviction
  <2> HIDE DEF x
  <2> QED
    BY <1>1, <2>1, <2>2 DEF EntryFits
<1>2. CASE ~(d.requests = 0 /\ d.handles = 0 /\ d.evict)
  BY <1>2 DEF CheckEviction, EntryFits
<1> QED
  BY <1>1, <1>2

(* Giving back a handle, or a request.                                     *)
LEMMA ReleasedFits ==
  ASSUME NEW d, NEW down, EntryFits(d, down), d.handles # 0
  PROVE  LET x == ReleaseHandle(d) IN
         /\ EntryFits(x, down) /\ x.route = d.route /\ d.route # "none"
         /\ x.handles = d.handles - 1 /\ x.requests = d.requests
<1> DEFINE y == [d EXCEPT !.handles = @ - 1]
<1>1. d \in Entries /\ d.handles - 1 \in 0..MaxUses /\ d.handles \in 0..MaxUses /\ d.route # "none"
  BY ProxyNumbers DEF EntryFits, Entries, NoEntry
<1>2. /\ y \in Entries /\ y.route = d.route /\ y.gen = d.gen /\ y.handles = d.handles - 1
      /\ y.requests = d.requests /\ y.closed = d.closed /\ y.evict = d.evict
  BY <1>1 DEF Entries
<1> HIDE DEF y
<1>3. CheckEviction(y) = ReleaseHandle(d)
  BY DEF y, ReleaseHandle
<1>4. y.closed /\ ~down => y.handles = 0 /\ y.requests = 0
  BY <1>2 DEF EntryFits
<1>5. y.gen # "out" => y.route # "none" /\ ~y.evict /\ ~y.closed
  BY <1>2 DEF EntryFits
<1> QED
  BY <1>1, <1>2, <1>3, <1>4, <1>5, CheckedFits

LEMMA LeasedFits ==
  ASSUME NEW d, NEW down, EntryFits(d, down), d.requests # 0
  PROVE  LET x == ReleaseLease(d) IN
         /\ EntryFits(x, down) /\ x.route = d.route /\ d.route # "none"
         /\ x.handles = d.handles /\ x.requests = d.requests - 1
<1> DEFINE y == [d EXCEPT !.requests = @ - 1]
<1>1. d \in Entries /\ d.requests - 1 \in 0..MaxUses /\ d.requests \in 0..MaxUses /\ d.route # "none"
  BY ProxyNumbers DEF EntryFits, Entries, NoEntry
<1>2. /\ y \in Entries /\ y.route = d.route /\ y.gen = d.gen /\ y.handles = d.handles
      /\ y.requests = d.requests - 1 /\ y.closed = d.closed /\ y.evict = d.evict
  BY <1>1 DEF Entries
<1> HIDE DEF y
<1>3. CheckEviction(y) = ReleaseLease(d)
  BY DEF y, ReleaseLease
<1>4. y.closed /\ ~down => y.handles = 0 /\ y.requests = 0
  BY <1>2 DEF EntryFits
<1>5. y.gen # "out" => y.route # "none" /\ ~y.evict /\ ~y.closed
  BY <1>2 DEF EntryFits
<1> QED
  BY <1>1, <1>2, <1>3, <1>4, <1>5, CheckedFits

(* A request more, on an entry that is open.                               *)
LEMMA RequestedFits ==
  ASSUME NEW d, NEW down, EntryFits(d, down), d.closed => down, d.route # "none",
         d.requests < MaxUses
  PROVE  LET x == [d EXCEPT !.requests = @ + 1] IN
         /\ EntryFits(x, down) /\ x.route = d.route
         /\ x.handles = d.handles /\ x.requests = d.requests + 1
<1> DEFINE x == [d EXCEPT !.requests = @ + 1]
<1>1. d \in Entries /\ d.requests + 1 \in 0..MaxUses /\ d.requests \in 0..MaxUses
  BY ProxyNumbers DEF EntryFits, Entries
<1>2. /\ x \in Entries /\ x.route = d.route /\ x.gen = d.gen /\ x.handles = d.handles
      /\ x.requests = d.requests + 1 /\ x.closed = d.closed /\ x.evict = d.evict
  BY <1>1 DEF Entries
<1> HIDE DEF x
<1>3. EntryFits(x, down)
  BY <1>1, <1>2 DEF EntryFits
<1> QED
  BY <1>2, <1>3 DEF x

(* An entry that leaves the map, in use or not.                            *)
LEMMA EvictedFits ==
  ASSUME NEW d, NEW down, EntryFits(d, down), d.gen # "out"
  PROVE  LET x == Evicted(d) IN
         /\ EntryFits(x, down) /\ x.route = d.route /\ d.route # "none"
         /\ x.handles = d.handles /\ x.requests = d.requests
<1> DEFINE y == [d EXCEPT !.evict = TRUE, !.gen = "out"]
<1>1. d \in Entries /\ d.route # "none" /\ ~d.closed
  BY DEF EntryFits
<1>2. /\ y \in Entries /\ y.route = d.route /\ y.gen = "out" /\ y.handles = d.handles
      /\ y.requests = d.requests /\ y.closed = d.closed
  BY <1>1 DEF Entries, Generations
<1> HIDE DEF y
<1>3. CheckEviction(y) = Evicted(d)
  BY DEF y, Evicted
<1> QED
  BY <1>1, <1>2, <1>3, CheckedFits

(* The conjuncts of the invariant, under a step of one execution.          *)
LEMMA ClientsKept ==
  ASSUME ClientsFit, NEW c \in Client, NEW r, client' = [client EXCEPT ![c] = r],
         ClientFits(r, attested', checks'),
         attested \subseteq attested', checks \in Nat, checks' \in Nat, checks <= checks'
  PROVE  /\ ClientsFit' /\ client'[c] = r
         /\ \A x \in Client \ {c} : client'[x] = client[x]
<1>1. client' \in [Client -> Clients] /\ client'[c] = r /\ \A x \in Client \ {c} : client'[x] = client[x]
  BY DEF ClientsFit, ClientFits
<1>2. ASSUME NEW x \in Client PROVE ClientFits(client'[x], attested', checks')
  <2>1. CASE x = c
    BY <2>1, <1>1
  <2>2. CASE x # c
    <3>1. ClientFits(client[x], attested, checks) /\ client'[x] = client[x]
      BY <2>2, <1>1 DEF ClientsFit
    <3> QED
      BY <3>1 DEF ClientFits
  <2> QED
    BY <2>1, <2>2
<1> QED
  BY <1>1, <1>2 DEF ClientsFit

(* The counts still cover what is held when each moved with the one        *)
(* execution, and the one request of it, that took a step.                 *)
LEMMA CountsKept ==
  ASSUME CountsCover, PoolFits, PoolFits', ClientsFit, NEW c \in Client, NEW r, NEW q \in Slots,
         client' = [client EXCEPT ![c] = r],
         \A e \in Entry :
           /\ dispatcher'[e].handles >= dispatcher[e].handles + (IF Holds(r, e) THEN 1 ELSE 0)
                                          - (IF Holds(client[c], e) THEN 1 ELSE 0)
           /\ dispatcher'[e].requests >= dispatcher[e].requests + (IF Requests(r, q, e) THEN 1 ELSE 0)
                                          - (IF Requests(client[c], q, e) THEN 1 ELSE 0)
           /\ \A p \in Slots \ {q} : Requests(r, p, e) <=> Requests(client[c], p, e)
           /\ dispatcher[e].route # "none" \/ r.entry = e => dispatcher'[e].route # "none"
  PROVE  CountsCover'
<1> SUFFICES ASSUME NEW e \in Entry
             PROVE  /\ Cardinality(Holders(e)') <= dispatcher'[e].handles
                    /\ Cardinality(Requesters(e)') <= dispatcher'[e].requests
                    /\ \A x \in Client : client'[x].entry = e => dispatcher'[e].route # "none"
  BY DEF CountsCover
<1>1. client'[c] = r /\ \A x \in Client \ {c} : client'[x] = client[x]
  BY DEF ClientsFit
<1>2. /\ dispatcher[e].handles \in Nat /\ dispatcher'[e].handles \in Nat
      /\ dispatcher[e].requests \in Nat /\ dispatcher'[e].requests \in Nat
  BY ProxyNumbers DEF PoolFits, Entries
<1>3. IsFiniteSet(Holders(e)) /\ IsFiniteSet(Requesters(e))
  BY UsersAreFinite
<1>4. Holders(e)' \ {c} = Holders(e) \ {c}
  BY <1>1 DEF Holders
<1>5. Requesters(e)' \ {<<c, q>>} = Requesters(e) \ {<<c, q>>}
  <2>1. ASSUME NEW w \in Client \X Slots, w # <<c, q>>
        PROVE  Requests(client'[w[1]], w[2], e) <=> Requests(client[w[1]], w[2], e)
    <3>1. CASE w[1] = c
      <4>1. w[2] \in Slots \ {q}
        BY <2>1, <3>1
      <4> QED
        BY <1>1, <3>1, <4>1
    <3>2. CASE w[1] # c
      <4>1. client'[w[1]] = client[w[1]]
        BY <1>1, <3>2
      <4> QED
        BY <4>1
    <3> QED
      BY <3>1, <3>2
  <2>2. /\ Requesters(e)' = {w \in Client \X Slots : Requests(client'[w[1]], w[2], e)}
        /\ Requesters(e) = {w \in Client \X Slots : Requests(client[w[1]], w[2], e)}
    BY DEF Requesters, Requests
  <2> QED
    BY <2>1, <2>2
<1>6. /\ c \in Holders(e) <=> Holds(client[c], e)
      /\ c \in Holders(e)' <=> Holds(r, e)
  BY <1>1 DEF Holders, Holds
<1>7. /\ <<c, q>> \in Requesters(e) <=> Requests(client[c], q, e)
      /\ <<c, q>> \in Requesters(e)' <=> Requests(r, q, e)
  BY <1>1 DEF Requesters, Requests
<1>8. /\ Cardinality(Holders(e)) <= dispatcher[e].handles
      /\ Cardinality(Requesters(e)) <= dispatcher[e].requests
      /\ \A x \in Client : client[x].entry = e => dispatcher[e].route # "none"
  BY DEF CountsCover
<1>9. Cardinality(Holders(e)') <= dispatcher'[e].handles
  <2> DEFINE S == Holders(e)  T == Holders(e)'
  <2>1. /\ Cardinality(S) \in Nat /\ Cardinality(T) \in Nat
        /\ (c \in S) = (c \in T) => Cardinality(T) = Cardinality(S)
        /\ c \in S /\ c \notin T => Cardinality(T) = Cardinality(S) - 1
        /\ c \notin S /\ c \in T => Cardinality(T) = Cardinality(S) + 1
    BY <1>3, <1>4, CountChanges
  <2>2. Cardinality(S) <= dispatcher[e].handles /\ (c \in S <=> Holds(client[c], e))
        /\ (c \in T <=> Holds(r, e))
    BY <1>6, <1>8
  <2> HIDE DEF S, T
  <2>3. dispatcher'[e].handles >= dispatcher[e].handles + (IF Holds(r, e) THEN 1 ELSE 0)
                                          - (IF Holds(client[c], e) THEN 1 ELSE 0)
    OBVIOUS
  <2>4. Cardinality(T) <= dispatcher'[e].handles
    BY <1>2, <2>1, <2>2, <2>3
  <2> QED
    BY <2>4 DEF T
<1>10. Cardinality(Requesters(e)') <= dispatcher'[e].requests
  <2> DEFINE S == Requesters(e)  T == Requesters(e)'  w == <<c, q>>
  <2>1. S \ {w} = T \ {w} /\ IsFiniteSet(S)
    BY <1>3, <1>5
  <2>2. Cardinality(S) <= dispatcher[e].requests /\ (w \in S <=> Requests(client[c], q, e))
        /\ (w \in T <=> Requests(r, q, e))
    BY <1>7, <1>8
  <2> HIDE DEF S, T, w
  <2>3. /\ Cardinality(S) \in Nat /\ Cardinality(T) \in Nat
        /\ (w \in S) = (w \in T) => Cardinality(T) = Cardinality(S)
        /\ w \in S /\ w \notin T => Cardinality(T) = Cardinality(S) - 1
        /\ w \notin S /\ w \in T => Cardinality(T) = Cardinality(S) + 1
    BY <2>1, CountChanges
  <2>4. dispatcher'[e].requests >= dispatcher[e].requests + (IF Requests(r, q, e) THEN 1 ELSE 0)
                                          - (IF Requests(client[c], q, e) THEN 1 ELSE 0)
    OBVIOUS
  <2>5. Cardinality(T) <= dispatcher'[e].requests
    BY <1>2, <2>2, <2>3, <2>4
  <2> QED
    BY <2>5 DEF T
<1>11. ASSUME NEW x \in Client, client'[x].entry = e PROVE dispatcher'[e].route # "none"
  <2>1. CASE x = c
    BY <1>1, <1>11, <2>1
  <2>2. CASE x # c
    BY <1>1, <1>8, <1>11, <2>2
  <2> QED
    BY <2>1, <2>2
<1> QED
  BY <1>9, <1>10, <1>11

(* The cached verdicts and the locks on checking are untouched, and the    *)
(* execution that took a step is not one of those that check, or goes on   *)
(* with the same check.                                                    *)
LEMMA VerdictsKept ==
  ASSUME VerdictsFit, ClientsFit, NEW c \in Client, NEW r, client' = [client EXCEPT ![c] = r],
         UNCHANGED <<verdict, checkKey>>, attested \subseteq attested',
         checks \in Nat, checks' \in Nat, checks <= checks',
         \/ client[c].at \notin {"checking", "storing"}
         \/ /\ client[c].at \in {"checking", "storing"} /\ r.at \in {"checking", "storing"}
            /\ r.version = client[c].version /\ r.check = client[c].check
  PROVE  VerdictsFit'
<1>1. client'[c] = r /\ \A x \in Client \ {c} : client'[x] = client[x]
  BY DEF ClientsFit
<1>2. verdict' \in [Version -> [kind : {"none", "success", "failure"}, of : 0..checks']]
  BY DEF VerdictsFit
<1> QED
  BY <1>1, <1>2 DEF VerdictsFit

(* One entry changed.                                                      *)
LEMMA PoolKept ==
  ASSUME PoolFits, NEW x \in Entry, NEW d, dispatcher' = [dispatcher EXCEPT ![x] = d],
         EntryFits(d, poolClosed), d.route # "none", dispatcher[x].route # "none", UNCHANGED poolClosed
  PROVE  /\ PoolFits' /\ dispatcher'[x] = d
         /\ \A e \in Entry \ {x} : dispatcher'[e] = dispatcher[e]
<1>1. dispatcher' \in [Entry -> Entries] /\ dispatcher'[x] = d
      /\ \A e \in Entry \ {x} : dispatcher'[e] = dispatcher[e]
  BY DEF PoolFits, EntryFits
<1>2. \A e \in Entry : EntryFits(dispatcher'[e], poolClosed')
  BY <1>1 DEF PoolFits
<1>3. Created' = Created
  BY <1>1 DEF Created
<1> QED
  BY <1>1, <1>2, <1>3 DEF PoolFits

(* What an execution holds is counted.                                     *)
LEMMA HeldIsCounted ==
  ASSUME ProxyInv, NEW c \in Client, client[c].entry # 0
  PROVE  /\ client[c].entry \in Entry
         /\ EntryFits(dispatcher[client[c].entry], poolClosed)
         /\ dispatcher[client[c].entry].route # "none"
         /\ dispatcher[client[c].entry].handles \in Nat
         /\ dispatcher[client[c].entry].requests \in Nat
         /\ client[c].at # "leaving" => dispatcher[client[c].entry].handles # 0
         /\ client[c].out # {} => dispatcher[client[c].entry].requests # 0
<1> DEFINE e == client[c].entry
<1>1. e \in Entry /\ client[c].out \subseteq Slots
  BY DEF ProxyInv, ClientsFit, ClientFits, Clients
<1>2. EntryFits(dispatcher[e], poolClosed) /\ dispatcher[e].handles \in Nat
      /\ dispatcher[e].requests \in Nat
  BY <1>1, ProxyNumbers DEF ProxyInv, PoolFits, EntryFits, Entries
<1>3. /\ IsFiniteSet(Holders(e)) /\ Cardinality(Holders(e)) <= dispatcher[e].handles
      /\ IsFiniteSet(Requesters(e)) /\ Cardinality(Requesters(e)) <= dispatcher[e].requests
      /\ dispatcher[e].route # "none"
  BY <1>1, UsersAreFinite DEF ProxyInv, CountsCover
<1>4. ASSUME client[c].at # "leaving" PROVE dispatcher[e].handles # 0
  <2>1. c \in Holders(e)
    BY <1>4 DEF Holders, Holds
  <2>2. Cardinality(Holders(e)) \in Nat /\ Cardinality(Holders(e)) > 0
    BY <1>3, <2>1, MembersCount
  <2> QED
    BY <1>2, <1>3, <2>2
<1>5. ASSUME client[c].out # {} PROVE dispatcher[e].requests # 0
  <2>1. PICK q \in Slots : q \in client[c].out
    BY <1>1, <1>5
  <2>2. <<c, q>> \in Requesters(e)
    BY <2>1 DEF Requesters, Requests
  <2>3. Cardinality(Requesters(e)) \in Nat /\ Cardinality(Requesters(e)) > 0
    BY <1>3, <2>2, MembersCount
  <2> QED
    BY <1>2, <1>3, <2>3
<1> QED
  BY <1>1, <1>2, <1>3, <1>4, <1>5

(* Counts and routes of the pool in order, for CountsKept.                 *)
LEMMA PoolCounts ==
  ASSUME PoolFits PROVE \A e \in Entry : dispatcher[e].handles \in Nat /\ dispatcher[e].requests \in Nat
BY ProxyNumbers DEF PoolFits, Entries

(* An execution with nothing under way ends: with its handle given back,   *)
(* or forgotten.                                                           *)
LEMMA QuitKeeps ==
  ASSUME ProxyInv, NEW c \in Client, Quit(c), UNCHANGED <<dispatcher, poolClosed, attested, checks>>,
         client[c].out = {}
  PROVE  ClientsFit' /\ PoolFits' /\ CountsCover'
<1> DEFINE r == NoClient  q == "check"
<1>1. ClientFits(r, attested', checks') /\ r.entry = 0 /\ r.out = {} /\ q \in Slots
  BY NobodyFits DEF NoClient, Slots
<1>2. /\ checks \in Nat /\ checks' \in Nat /\ checks <= checks' /\ attested \subseteq attested'
      /\ client' = [client EXCEPT ![c] = r] /\ ClientsFit /\ CountsCover /\ PoolFits
  BY ProxyNumbers DEF ProxyInv, SettingFits, Quit
<1> HIDE DEF r, q
<1>3. ClientsFit'
  BY <1>1, <1>2, ClientsKept
<1>4. PoolFits'
  BY DEF ProxyInv, PoolFits, Created
<1>5. \A e \in Entry : dispatcher[e].handles \in Nat /\ dispatcher[e].requests \in Nat
  BY <1>2, PoolCounts
<1>6. \A e \in Entry : /\ r.entry # e /\ ~Holds(r, e)
                       /\ \A p \in Slots : ~Requests(r, p, e) /\ ~Requests(client[c], p, e)
  BY <1>1, ProxyNumbers DEF Holds, Requests
<1>7. \A e \in Entry :
        /\ dispatcher'[e].handles >= dispatcher[e].handles + (IF Holds(r, e) THEN 1 ELSE 0)
                                       - (IF Holds(client[c], e) THEN 1 ELSE 0)
        /\ dispatcher'[e].requests >= dispatcher[e].requests + (IF Requests(r, q, e) THEN 1 ELSE 0)
                                       - (IF Requests(client[c], q, e) THEN 1 ELSE 0)
        /\ \A p \in Slots \ {q} : Requests(r, p, e) <=> Requests(client[c], p, e)
        /\ dispatcher[e].route # "none" \/ r.entry = e => dispatcher'[e].route # "none"
  BY <1>1, <1>5, <1>6
<1>8. CountsCover'
  BY <1>1, <1>2, <1>4, <1>7, CountsKept
<1> QED
  BY <1>3, <1>4, <1>8

(* An execution gives back its handle: it ends, or leaves its requests     *)
(* under way behind.                                                       *)
LEMMA GivingBackKeeps ==
  ASSUME ProxyInv, NEW c \in Client, NEW r, client' = [client EXCEPT ![c] = r],
         UNCHANGED <<poolClosed, attested, checks>>, ClientFits(r, attested, checks),
         NEW x \in Entry, client[c].entry = x, client[c].at # "leaving", \A e \in Entry : ~Holds(r, e),
         \/ r.entry = 0 /\ client[c].out = {} /\ r.out = {}
         \/ r.entry = x /\ r.out = client[c].out,
         dispatcher' = [dispatcher EXCEPT ![x] = ReleaseHandle(@)]
  PROVE  ClientsFit' /\ PoolFits' /\ CountsCover'
<1> DEFINE d == ReleaseHandle(dispatcher[x])  q == "check"
<1>1. /\ checks \in Nat /\ checks' \in Nat /\ checks <= checks' /\ attested \subseteq attested'
      /\ ClientsFit /\ CountsCover /\ PoolFits /\ q \in Slots /\ x # 0
  BY ProxyNumbers DEF ProxyInv, SettingFits, Slots
<1>2. ClientFits(r, attested', checks')
  OBVIOUS
<1>3. ClientsFit'
  BY <1>1, <1>2, ClientsKept
<1>4. /\ EntryFits(dispatcher[x], poolClosed) /\ dispatcher[x].handles # 0
      /\ dispatcher[x].route # "none"
  BY <1>1, HeldIsCounted
<1>5. dispatcher' = [dispatcher EXCEPT ![x] = d]
  OBVIOUS
<1>6. /\ EntryFits(d, poolClosed) /\ d.route = dispatcher[x].route /\ d.route # "none"
      /\ d.handles = dispatcher[x].handles - 1 /\ d.requests = dispatcher[x].requests
  BY <1>4, ReleasedFits
<1> HIDE DEF d, q
<1>7. PoolFits' /\ dispatcher'[x] = d /\ \A e \in Entry \ {x} : dispatcher'[e] = dispatcher[e]
  BY <1>1, <1>4, <1>5, <1>6, PoolKept
<1>8. \A e \in Entry : dispatcher[e].handles \in Nat /\ dispatcher[e].requests \in Nat
  BY <1>1, PoolCounts
<1>9. /\ \A e \in Entry : /\ Holds(client[c], e) <=> e = x
                          /\ \A p \in Slots : Requests(r, p, e) <=> Requests(client[c], p, e)
                          /\ r.entry = e => e = x
  BY ProxyNumbers DEF Holds, Requests
<1>10. \A e \in Entry :
         /\ dispatcher'[e].handles >= dispatcher[e].handles + (IF Holds(r, e) THEN 1 ELSE 0)
                                        - (IF Holds(client[c], e) THEN 1 ELSE 0)
         /\ dispatcher'[e].requests >= dispatcher[e].requests + (IF Requests(r, q, e) THEN 1 ELSE 0)
                                        - (IF Requests(client[c], q, e) THEN 1 ELSE 0)
         /\ \A p \in Slots \ {q} : Requests(r, p, e) <=> Requests(client[c], p, e)
         /\ dispatcher[e].route # "none" \/ r.entry = e => dispatcher'[e].route # "none"
  <2> SUFFICES ASSUME NEW e \in Entry
               PROVE  /\ dispatcher'[e].handles >= dispatcher[e].handles - (IF e = x THEN 1 ELSE 0)
                      /\ dispatcher'[e].requests = dispatcher[e].requests
                      /\ dispatcher[e].route # "none" \/ e = x => dispatcher'[e].route # "none"
    BY <1>1, <1>8, <1>9
  <2>1. CASE e = x
    BY <1>4, <1>6, <1>7, <1>8, <2>1
  <2>2. CASE e # x
    BY <1>7, <1>8, <2>2
  <2> QED
    BY <2>1, <2>2
<1>11. CountsCover'
  <2>1. client' = [client EXCEPT ![c] = r] /\ CountsCover /\ PoolFits /\ PoolFits' /\ ClientsFit /\ q \in Slots
    BY <1>1, <1>7
  <2> QED
    BY ONLY <2>1, <1>10, CountsKept, c \in Client
<1> QED
  BY <1>3, <1>7, <1>11

(* An execution that fails gives back its handle.                          *)
LEMMA FailKeeps ==
  ASSUME ProxyInv, NEW c \in Client, Fail(c), UNCHANGED <<poolClosed, attested, checks>>,
         client[c].at # "leaving", client[c].out = {}
  PROVE  ClientsFit' /\ PoolFits' /\ CountsCover'
<1>1. CASE client[c].entry = 0
  <2>1. Quit(c) /\ UNCHANGED dispatcher
    BY <1>1 DEF Fail
  <2> QED
    BY <2>1, QuitKeeps
<1>2. CASE client[c].entry # 0
  <2> DEFINE r == NoClient  x == client[c].entry
  <2>1. /\ client' = [client EXCEPT ![c] = r] /\ dispatcher' = [dispatcher EXCEPT ![x] = ReleaseHandle(@)]
        /\ client[c].entry = x
    BY <1>2 DEF Fail, Quit
  <2>2. ClientFits(r, attested, checks) /\ r.entry = 0 /\ r.out = {}
    BY NobodyFits DEF NoClient
  <2>3. x \in Entry
    BY <1>2, HeldIsCounted
  <2> HIDE DEF r, x
  <2>4. \A e \in Entry : ~Holds(r, e)
    BY <2>2, ProxyNumbers DEF Holds
  <2> QED
    BY <2>1, <2>2, <2>3, <2>4, GivingBackKeeps
<1> QED
  BY <1>1, <1>2

(* It goes on as the record r says, with what it holds.                    *)
LEMMA GoingOnKeeps ==
  ASSUME ProxyInv, NEW c \in Client, NEW r, client' = [client EXCEPT ![c] = r],
         ClientFits(r, attested', checks'), attested \subseteq attested',
         checks' \in Nat, checks <= checks', UNCHANGED <<dispatcher, poolClosed>>,
         r.entry = client[c].entry, r.out = client[c].out,
         r.at # "leaving", client[c].at # "leaving"
  PROVE  ClientsFit' /\ PoolFits' /\ CountsCover'
<1> DEFINE q == "check"
<1>1. checks \in Nat /\ ClientsFit /\ PoolFits /\ CountsCover /\ q \in Slots
  BY ProxyNumbers DEF ProxyInv, SettingFits, Slots
<1>2. ClientsFit'
  BY <1>1, ClientsKept
<1>3. PoolFits'
  BY DEF ProxyInv, PoolFits, Created
<1>4. \A e \in Entry : dispatcher[e].handles \in Nat /\ dispatcher[e].requests \in Nat
  BY <1>1, PoolCounts
<1> HIDE DEF q
<1>5. \A e \in Entry : /\ Holds(r, e) <=> Holds(client[c], e)
                       /\ \A p \in Slots : Requests(r, p, e) <=> Requests(client[c], p, e)
                       /\ r.entry = e => dispatcher[e].route # "none"
  BY <1>1 DEF Requests, Holds, CountsCover
<1>6. \A e \in Entry :
        /\ dispatcher'[e].handles >= dispatcher[e].handles + (IF Holds(r, e) THEN 1 ELSE 0)
                                       - (IF Holds(client[c], e) THEN 1 ELSE 0)
        /\ dispatcher'[e].requests >= dispatcher[e].requests + (IF Requests(r, q, e) THEN 1 ELSE 0)
                                       - (IF Requests(client[c], q, e) THEN 1 ELSE 0)
        /\ \A p \in Slots \ {q} : Requests(r, p, e) <=> Requests(client[c], p, e)
        /\ dispatcher[e].route # "none" \/ r.entry = e => dispatcher'[e].route # "none"
  BY <1>1, <1>4, <1>5
<1>7. CountsCover'
  BY <1>1, <1>3, <1>6, CountsKept
<1> QED
  BY <1>2, <1>3, <1>7

(* The same for a step that leaves checks and attestations alone, of one   *)
(* that neither makes a request nor checks the route.                      *)
LEMMA PlainStepKeeps ==
  ASSUME ProxyInv, NEW c \in Client, NEW r, client' = [client EXCEPT ![c] = r],
         ClientFits(r, attested, checks), r.entry = client[c].entry, r.out = client[c].out,
         r.at # "leaving", client[c].at \notin {"checking", "storing", "leaving"},
         UNCHANGED <<verdict, checkKey, checks, dispatcher, poolClosed, attested>>
  PROVE  ClientsFit' /\ PoolFits' /\ CountsCover' /\ VerdictsFit'
<1>1. checks \in Nat /\ checks' \in Nat /\ checks <= checks' /\ attested \subseteq attested'
  BY ProxyNumbers DEF ProxyInv, SettingFits
<1>2. ClientFits(r, attested', checks')
  OBVIOUS
<1>3. ClientsFit' /\ PoolFits' /\ CountsCover'
  BY <1>1, <1>2, GoingOnKeeps
<1>4. VerdictsFit /\ ClientsFit
  BY DEF ProxyInv
<1>5. VerdictsFit'
  BY <1>1, <1>4, VerdictsKept
<1> QED
  BY <1>3, <1>5

(* Failing, or just leaving, outside of a check.                           *)
LEMMA FailingKeeps ==
  ASSUME ProxyInv, NEW c \in Client,
         \/ Fail(c) /\ client[c].at # "leaving"
         \/ Quit(c) /\ UNCHANGED dispatcher,
         client[c].out = {}, client[c].at \notin {"checking", "storing"},
         UNCHANGED <<verdict, checkKey, checks, poolClosed, attested>>
  PROVE  ClientsFit' /\ PoolFits' /\ CountsCover' /\ VerdictsFit'
<1>1. checks \in Nat /\ checks' \in Nat /\ checks <= checks' /\ attested \subseteq attested'
  BY ProxyNumbers DEF ProxyInv, SettingFits
<1>2. client' = [client EXCEPT ![c] = NoClient]
  BY DEF Fail, Quit
<1>5. VerdictsFit /\ ClientsFit
  BY DEF ProxyInv
<1>6. VerdictsFit'
  <2> DEFINE r == NoClient
  <2>1. client' = [client EXCEPT ![c] = r]
    BY <1>2
  <2> HIDE DEF r
  <2>2. client[c].at \notin {"checking", "storing"} /\ UNCHANGED <<verdict, checkKey>>
    OBVIOUS
  <2> QED
    BY <1>1, <1>5, <2>1, <2>2, VerdictsKept
<1>7. ClientsFit' /\ PoolFits' /\ CountsCover'
  <2>1. CASE Fail(c) /\ client[c].at # "leaving"
    BY <2>1, FailKeeps
  <2>2. CASE Quit(c) /\ UNCHANGED dispatcher
    BY <2>2, QuitKeeps
  <2> QED
    BY <2>1, <2>2
<1> QED
  BY <1>6, <1>7

(* The same when one request of it, at an entry, begins or ends.           *)
LEMMA RequestKeeps ==
  ASSUME ProxyInv, NEW c \in Client, NEW r, NEW d, NEW x \in Entry, NEW q \in Slots,
         client' = [client EXCEPT ![c] = r], dispatcher' = [dispatcher EXCEPT ![x] = d],
         ClientFits(r, attested', checks'), attested \subseteq attested',
         checks' \in Nat, checks <= checks', UNCHANGED poolClosed,
         r.entry = x, client[c].entry = x, r.at = "leaving" <=> client[c].at = "leaving",
         r.out \ {q} = client[c].out \ {q},
         EntryFits(d, poolClosed), d.route # "none", dispatcher[x].route # "none",
         d.handles = dispatcher[x].handles,
         d.requests >= dispatcher[x].requests + (IF q \in r.out THEN 1 ELSE 0)
                         - (IF q \in client[c].out THEN 1 ELSE 0)
  PROVE  ClientsFit' /\ PoolFits' /\ CountsCover'
<1>1. checks \in Nat /\ ClientsFit /\ PoolFits /\ CountsCover
  BY ProxyNumbers DEF ProxyInv, SettingFits
<1>2. ClientsFit'
  BY <1>1, ClientsKept
<1>3. PoolFits' /\ dispatcher'[x] = d /\ \A e \in Entry \ {x} : dispatcher'[e] = dispatcher[e]
  BY <1>1, PoolKept
<1>4. \A e \in Entry : dispatcher[e].handles \in Nat /\ dispatcher[e].requests \in Nat
  BY <1>1, PoolCounts
<1>5. \A e \in Entry :
        /\ Holds(r, e) <=> Holds(client[c], e)
        /\ \A p \in Slots \ {q} : Requests(r, p, e) <=> Requests(client[c], p, e)
        /\ Requests(r, q, e) <=> e = x /\ q \in r.out
        /\ Requests(client[c], q, e) <=> e = x /\ q \in client[c].out
  BY DEF Requests, Holds
<1>6. \A e \in Entry :
        /\ dispatcher'[e].handles >= dispatcher[e].handles + (IF Holds(r, e) THEN 1 ELSE 0)
                                       - (IF Holds(client[c], e) THEN 1 ELSE 0)
        /\ dispatcher'[e].requests >= dispatcher[e].requests + (IF Requests(r, q, e) THEN 1 ELSE 0)
                                       - (IF Requests(client[c], q, e) THEN 1 ELSE 0)
        /\ \A p \in Slots \ {q} : Requests(r, p, e) <=> Requests(client[c], p, e)
        /\ dispatcher[e].route # "none" \/ r.entry = e => dispatcher'[e].route # "none"
  BY <1>3, <1>4, <1>5
<1>7. CountsCover'
  BY <1>1, <1>3, <1>6, CountsKept
<1> QED
  BY <1>2, <1>3, <1>7

(* A step of the pool alone, which leaves counts and routes as they are.   *)
LEMMA PoolStepKeeps ==
  ASSUME ProxyInv, UNCHANGED <<setting, verdict, checkKey, checks, client, attested>>,
         poolClosed' \in BOOLEAN, dispatcher' \in [Entry -> Entries],
         \A e \in Entry : /\ EntryFits(dispatcher'[e], poolClosed')
                          /\ dispatcher'[e].route = dispatcher[e].route
                          /\ dispatcher'[e].handles = dispatcher[e].handles
                          /\ dispatcher'[e].requests = dispatcher[e].requests
  PROVE  ProxyInv'
<1>0. SettingFits /\ PoolFits /\ ClientsFit /\ CountsCover /\ VerdictsFit
  BY DEF ProxyInv
<1>1. PoolFits'
  <2>1. Created' = Created
    BY DEF Created
  <2> QED
    BY <1>0, <2>1 DEF PoolFits
<1>2. CountsCover'
  BY <1>0 DEF CountsCover, Holders, Requesters, Holds, Requests
<1> QED
  BY <1>0, <1>1, <1>2 DEF ProxyInv, SettingFits, ClientsFit, VerdictsFit

(* When the recent generation is full, counts and routes stay; what was    *)
(* recent is only marked old.                                              *)
LEMMA TurnedPool ==
  ASSUME NEW pool \in [Entry -> Entries], NEW down, \A e \in Entry : EntryFits(pool[e], down)
  PROVE  /\ Turned(pool) \in [Entry -> Entries]
         /\ \A e \in Entry : LET d == Turned(pool)[e] IN
              /\ EntryFits(d, down) /\ d.route = pool[e].route
              /\ d.handles = pool[e].handles /\ d.requests = pool[e].requests
<1>1. ASSUME NEW e \in Entry
      PROVE  LET d == Turned(pool)[e] IN
               /\ EntryFits(d, down) /\ d.route = pool[e].route
               /\ d.handles = pool[e].handles /\ d.requests = pool[e].requests
  <2>1. EntryFits(pool[e], down) /\ pool[e] \in Entries
    OBVIOUS
  <2>2. CASE pool[e].gen = "old"
    <3>1. Turned(pool)[e] = Evicted(pool[e])
      BY <2>2 DEF Turned
    <3>2. pool[e].gen # "out"
      BY <2>2
    <3> QED
      BY <2>1, <3>1, <3>2, EvictedFits
  <2>3. CASE pool[e].gen = "recent"
    <3> DEFINE d == [pool[e] EXCEPT !.gen = "old"]
    <3>1. Turned(pool)[e] = d
      BY <2>3 DEF Turned
    <3>2. /\ d \in Entries /\ d.gen = "old" /\ d.route = pool[e].route /\ d.handles = pool[e].handles
          /\ d.requests = pool[e].requests /\ d.evict = pool[e].evict /\ d.closed = pool[e].closed
      BY <2>1 DEF Entries, Generations
    <3>3. pool[e].route # "none"
      BY <2>1, <2>3 DEF EntryFits
    <3> HIDE DEF d
    <3>4. EntryFits(d, down)
      BY <2>1, <2>3, <3>2, <3>3 DEF EntryFits
    <3> QED
      BY <3>1, <3>2, <3>4
  <2>4. CASE pool[e].gen \notin {"old", "recent"}
    <3>1. Turned(pool)[e] = pool[e]
      BY <2>4 DEF Turned
    <3> QED
      BY <2>1, <3>1
  <2> QED
    BY <2>2, <2>3, <2>4
<1>2. \A e \in Entry : Turned(pool)[e] \in Entries
  BY <1>1 DEF EntryFits
<1>3. Turned(pool) = [e \in Entry |-> Turned(pool)[e]]
  BY DEF Turned
<1> QED
  BY <1>1, <1>2, <1>3

(* Initially the pool is empty and nobody is at work.                      *)
LEMMA ProxyInvInit == ProxyInit => ProxyInv
<1> SUFFICES ASSUME ProxyInit PROVE ProxyInv
  OBVIOUS
<1>1. SettingFits
  <2>1. (CHOOSE r \in Route : TRUE) \in Route
    BY ProxyNumbers
  <2>2. 1 \in 1..MaxVersions /\ 0 \in 0..MaxChecks
    BY ProxyNumbers
  <2> QED
    BY <2>1, <2>2 DEF ProxyInit, SettingFits, Version
<1>2. PoolFits
  <2>1. /\ \A e \in Entry : dispatcher[e] = NoEntry
        /\ dispatcher = [e \in Entry |-> NoEntry]
    BY DEF ProxyInit
  <2>2. Created = 1..0 /\ 0 \in 0..MaxDispatchers
    BY <2>1, ProxyNumbers DEF Created, NoEntry
  <2>3. EntryFits(NoEntry, poolClosed)
    BY NothingFits DEF EntryFits, NoEntry
  <2> QED
    BY <2>1, <2>2, <2>3, NothingFits DEF PoolFits
<1>3. ClientsFit
  <2>1. ClientFits(NoClient, attested, checks)
    BY NobodyFits
  <2> QED
    BY <2>1, NothingFits DEF ProxyInit, ClientsFit
<1>4. CountsCover
  <2> SUFFICES ASSUME NEW e \in Entry
               PROVE  /\ Cardinality(Holders(e)) <= dispatcher[e].handles
                      /\ Cardinality(Requesters(e)) <= dispatcher[e].requests
                      /\ \A c \in Client : client[c].entry # e
    BY DEF CountsCover
  <2>0. \A c \in Client : client[c].entry # e /\ client[c].out = {}
    BY ProxyNumbers DEF ProxyInit, NoClient
  <2>1. Holders(e) = {} /\ Requesters(e) = {}
    BY <2>0 DEF Holders, Requesters, Holds, Requests
  <2>2. dispatcher[e].handles = 0 /\ dispatcher[e].requests = 0
    BY DEF ProxyInit, NoEntry
  <2> QED
    BY <2>0, <2>1, <2>2, FS_EmptySet
<1>5. VerdictsFit
  <2>1. \A v \in Version : verdict[v] = NoVerdict /\ checkKey[v] = NoKey
    BY DEF ProxyInit
  <2>2. NoVerdict \in [kind : {"none", "success", "failure"}, of : 0..checks] /\ NoVerdict.kind = "none"
    BY DEF ProxyInit, NoVerdict
  <2> QED
    BY <2>1, <2>2, ProxyNumbers DEF ProxyInit, VerdictsFit
<1> QED
  BY <1>1, <1>2, <1>3, <1>4, <1>5 DEF ProxyInv

(* One step per action.                                                    *)
LEMMA ProxyInvStep ==
  ASSUME ProxyInv, [ProxyNext]_proxyVars
  PROVE  ProxyInv'
<1>0. /\ SettingFits /\ PoolFits /\ ClientsFit /\ CountsCover /\ VerdictsFit
      /\ checks \in 0..MaxChecks /\ checks \in Nat /\ MaxChecks \in Nat
      /\ client \in [Client -> Clients] /\ dispatcher \in [Entry -> Entries]
  BY ProxyNumbers DEF ProxyInv, SettingFits, ClientsFit, PoolFits
<1>c. ASSUME NEW c \in Client
      PROVE  client[c] \in Clients /\ ClientFits(client[c], attested, checks)
  BY <1>0 DEF ClientsFit
<1>n. /\ NoClient.version = 0 /\ NoClient.entry = 0 /\ NoClient.at = "idle" /\ NoClient \in Clients
      /\ NoClient.check = 0 /\ ~NoClient.good /\ NoClient.out = {}
  BY NothingFits DEF NoClient
<1>1. ASSUME NEW c \in Client, NEW how \in {"calling", "forcing"}, Prepare(c, how) PROVE ProxyInv'
  <2> DEFINE r == [NoClient EXCEPT !.kind = how, !.at = "validated",
                                   !.version = setting.version, !.route = setting.route]
  <2>1. /\ client[c] = NoClient /\ client' = [client EXCEPT ![c] = r]
        /\ UNCHANGED <<setting, verdict, checkKey, checks, dispatcher, poolClosed, attested>>
    BY <1>1 DEF Prepare
  <2>2. setting.version \in Version /\ setting.route \in Route /\ setting.version \in 0..MaxVersions
    BY <1>1, <1>0, ProxyNumbers DEF Prepare, SettingFits, Version
  <2>3. /\ r \in Clients /\ r.at = "validated" /\ r.version = setting.version /\ r.route = setting.route
        /\ r.entry = 0 /\ r.out = {}
    BY <2>2, <1>n DEF Clients
  <2> HIDE DEF r
  <2>4. ClientFits(r, attested, checks)
    BY <2>2, <2>3 DEF ClientFits, EntrySteps, HandleSteps
  <2>5. ClientsFit' /\ PoolFits' /\ CountsCover' /\ VerdictsFit'
    BY <1>n, <2>1, <2>3, <2>4, PlainStepKeeps
  <2> QED
    BY <1>0, <2>1, <2>5 DEF ProxyInv, SettingFits
<1>2. ASSUME NEW c \in Client, AskCache(c) PROVE ProxyInv'
  <2> DEFINE v == client[c].version
  <2>1. /\ client[c].at \in {"asking", "waiting"} /\ Answered(c, v)
        /\ UNCHANGED <<setting, verdict, checkKey, checks, poolClosed, attested>>
    BY <1>2 DEF AskCache
  <2>2. v \in Version /\ client[c].entry \in Entry /\ client[c].out = {}
    BY <1>c, <2>1 DEF ClientFits, EntrySteps, HandleSteps
  <2>3. CASE Fail(c)
    <3>1. ClientsFit' /\ PoolFits' /\ CountsCover' /\ VerdictsFit'
      BY <2>1, <2>2, <2>3, FailingKeeps
    <3> QED
      BY <1>0, <2>1, <3>1 DEF ProxyInv, SettingFits
  <2>4. CASE verdict[v].kind = "success" /\ client' = [client EXCEPT ![c] = Passed(c)] /\ UNCHANGED dispatcher
    <3>1. /\ Passed(c) \in Clients /\ Passed(c).at = "confirming" /\ Passed(c).version = v
          /\ Passed(c).entry = client[c].entry /\ Passed(c).out = {}
      <4>1. client[c].version \in 0..MaxVersions /\ client[c].entry \in 0..MaxDispatchers
            /\ "confirming" \in EntrySteps
        BY <1>c DEF Clients, EntrySteps, HandleSteps
      <4> QED
        BY <4>1, <1>n DEF Passed, Clients
    <3>2. v \in attested
      BY <1>0, <2>2, <2>4 DEF VerdictsFit
    <3> DEFINE r == Passed(c)
    <3> HIDE DEF r, v
    <3>3. ClientFits(r, attested, checks)
      BY <2>2, <3>1, <3>2 DEF ClientFits, EntrySteps, HandleSteps, r
    <3>4. /\ client' = [client EXCEPT ![c] = r] /\ r.entry = client[c].entry /\ r.at = "confirming"
          /\ r.out = client[c].out
      BY <2>2, <2>4, <3>1 DEF r
    <3>5. ClientsFit' /\ PoolFits' /\ CountsCover' /\ VerdictsFit'
      BY <2>1, <2>4, <3>3, <3>4, PlainStepKeeps
    <3> QED
      BY <1>0, <2>1, <3>5 DEF ProxyInv, SettingFits
  <2> QED
    BY <2>1, <2>3, <2>4 DEF Answered
<1>3. ASSUME NEW c \in Client, WaitingTimesOut(c) PROVE ProxyInv'
  <2>1. /\ client[c].at = "waiting" /\ Fail(c)
        /\ UNCHANGED <<setting, verdict, checkKey, checks, poolClosed, attested>>
    BY <1>3 DEF WaitingTimesOut
  <2>2. client[c].out = {}
    BY <1>c, <2>1 DEF ClientFits
  <2>3. ClientsFit' /\ PoolFits' /\ CountsCover' /\ VerdictsFit'
    BY <2>1, <2>2, FailingKeeps
  <2> QED
    BY <1>0, <2>1, <2>3 DEF ProxyInv, SettingFits
<1>4. ASSUME NEW c \in Client, Confirm(c) PROVE ProxyInv'
  <2>1. /\ client[c].at = "confirming"
        /\ UNCHANGED <<setting, verdict, checkKey, checks, poolClosed, attested>>
    BY <1>4 DEF Confirm
  <2>0. client[c].out = {}
    BY <1>c, <2>1 DEF ClientFits
  <2>2. CASE Fail(c)
    <3>1. ClientsFit' /\ PoolFits' /\ CountsCover' /\ VerdictsFit'
      BY <2>0, <2>1, <2>2, FailingKeeps
    <3> QED
      BY <1>0, <2>1, <3>1 DEF ProxyInv, SettingFits
  <2>3. CASE client' = [client EXCEPT ![c].at = "using"] /\ UNCHANGED dispatcher
    <3> DEFINE r == [client[c] EXCEPT !.at = "using"]
    <3>1. client' = [client EXCEPT ![c] = r] /\ "using" \in EntrySteps
      BY <2>3, <1>0 DEF EntrySteps, HandleSteps
    <3>2. /\ r \in Clients /\ r.at = "using" /\ r.version = client[c].version
          /\ r.entry = client[c].entry /\ r.out = client[c].out
      BY <1>c, <3>1 DEF Clients
    <3> HIDE DEF r
    <3>3. ClientFits(r, attested, checks)
      BY <1>c, <2>0, <2>1, <3>1, <3>2 DEF ClientFits, EntrySteps, HandleSteps
    <3>4. ClientsFit' /\ PoolFits' /\ CountsCover' /\ VerdictsFit'
      BY <2>1, <2>3, <3>1, <3>2, <3>3, PlainStepKeeps
    <3> QED
      BY <1>0, <2>1, <3>4 DEF ProxyInv, SettingFits
  <2> QED
    BY <1>4, <2>2, <2>3 DEF Confirm
<1>5. ASSUME NEW c \in Client, NEW forgets \in BOOLEAN, ReleaseContext(c, forgets) PROVE ProxyInv'
  <2> DEFINE x == client[c].entry
             r == [client[c] EXCEPT !.at = "leaving"]
  <2>1. /\ client[c].at = "using" /\ UNCHANGED <<setting, verdict, checkKey, checks, poolClosed, attested>>
        /\ checks <= checks' /\ attested \subseteq attested' /\ checks' \in Nat
        /\ client' = [client EXCEPT ![c] = r] /\ "leaving" \in EntrySteps
    BY <1>0, <1>5 DEF ReleaseContext, EntrySteps
  <2>2. x \in Entry /\ client[c].version \in Version
    BY <1>c, <2>1 DEF ClientFits, EntrySteps, HandleSteps
  <2>3. /\ r \in Clients /\ r.at = "leaving" /\ r.version = client[c].version /\ r.entry = x
        /\ r.out = client[c].out
    BY <1>c, <2>1 DEF Clients
  <2>4. client[c].entry = x
    OBVIOUS
  <2> HIDE DEF r
  <2>5. ClientFits(r, attested, checks)
    BY <1>c, <2>1, <2>2, <2>3 DEF ClientFits, EntrySteps, HandleSteps
  <2>6. \A e \in Entry : ~Holds(r, e)
    BY <2>3 DEF Holds
  <2>7. ASSUME forgets PROVE ClientsFit' /\ PoolFits' /\ CountsCover'
    <3> DEFINE q == "check"
    <3>0. UNCHANGED dispatcher /\ q \in Slots
      BY <1>5, <2>7 DEF ReleaseContext, Slots
    <3>1. ClientsFit' /\ PoolFits'
      <4>1. ClientFits(r, attested', checks')
        BY <2>1, <2>5
      <4>2. ClientsFit'
        BY <1>0, <2>1, <4>1, ClientsKept
      <4> QED
        BY <1>0, <2>1, <3>0, <4>2 DEF PoolFits, Created
    <3> HIDE DEF q
    <3>2. \A e \in Entry : dispatcher[e].handles \in Nat /\ dispatcher[e].requests \in Nat
      BY <1>0, PoolCounts
    <3>3. \A e \in Entry : /\ \A p \in Slots : Requests(r, p, e) <=> Requests(client[c], p, e)
                           /\ r.entry = e => dispatcher[e].route # "none"
      BY <1>0, <2>3 DEF Requests, CountsCover
    <3>4. \A e \in Entry :
            /\ dispatcher'[e].handles >= dispatcher[e].handles + (IF Holds(r, e) THEN 1 ELSE 0)
                                           - (IF Holds(client[c], e) THEN 1 ELSE 0)
            /\ dispatcher'[e].requests >= dispatcher[e].requests + (IF Requests(r, q, e) THEN 1 ELSE 0)
                                           - (IF Requests(client[c], q, e) THEN 1 ELSE 0)
            /\ \A p \in Slots \ {q} : Requests(r, p, e) <=> Requests(client[c], p, e)
            /\ dispatcher[e].route # "none" \/ r.entry = e => dispatcher'[e].route # "none"
      BY <2>6, <3>0, <3>2, <3>3
    <3>5. CountsCover'
      BY <1>0, <2>1, <3>0, <3>1, <3>4, CountsKept
    <3> QED
      BY <3>1, <3>5
  <2>8. ASSUME ~forgets PROVE ClientsFit' /\ PoolFits' /\ CountsCover'
    <3>1. dispatcher' = [dispatcher EXCEPT ![x] = ReleaseHandle(@)]
      BY <1>5, <2>8 DEF ReleaseContext
    <3> HIDE DEF x
    <3> QED
      BY <2>1, <2>2, <2>3, <2>4, <2>5, <2>6, <3>1, GivingBackKeeps
  <2>9. ClientsFit' /\ PoolFits' /\ CountsCover'
    BY <2>7, <2>8
  <2>10. VerdictsFit'
    BY <1>0, <2>1, VerdictsKept
  <2> QED
    BY <1>0, <2>1, <2>9, <2>10 DEF ProxyInv, SettingFits
<1>6. ASSUME NEW c \in Client, UpdateProxyRead(c) PROVE ProxyInv'
  <2> DEFINE r == [NoClient EXCEPT !.kind = "editing", !.at = "merging",
                                   !.version = setting.version, !.lock = setting.lock]
  <2>1. /\ client[c] = NoClient /\ client' = [client EXCEPT ![c] = r] /\ setting.version < MaxVersions
        /\ UNCHANGED <<setting, verdict, checkKey, checks, dispatcher, poolClosed, attested>>
    BY <1>6 DEF UpdateProxyRead
  <2>2. setting.version \in Version /\ setting.lock \in BOOLEAN /\ setting.version \in 0..MaxVersions
    BY <1>0, ProxyNumbers DEF SettingFits, Version
  <2>3. /\ r \in Clients /\ r.at = "merging" /\ r.version = setting.version /\ r.entry = 0 /\ r.out = {}
    BY <2>2, <1>n DEF Clients
  <2> HIDE DEF r
  <2>4. ClientFits(r, attested, checks)
    BY <2>1, <2>2, <2>3 DEF ClientFits, EntrySteps, HandleSteps
  <2>5. ClientsFit' /\ PoolFits' /\ CountsCover' /\ VerdictsFit'
    BY <1>n, <2>1, <2>3, <2>4, PlainStepKeeps
  <2> QED
    BY <1>0, <2>1, <2>5 DEF ProxyInv, SettingFits
<1>7. ASSUME NEW c \in Client, NEW route \in Route \cup {"direct"}, NEW lock \in BOOLEAN,
             NEW sent \in BOOLEAN, UpdateProxyWrite(c, route, lock, sent)
      PROVE  ProxyInv'
  <2>1. /\ client[c].at = "merging" /\ Quit(c)
        /\ UNCHANGED <<verdict, checkKey, checks, dispatcher, poolClosed, attested>>
    BY <1>7 DEF UpdateProxyWrite
  <2>2. client[c].version \in Version /\ client[c].version < MaxVersions /\ client[c].lock \in BOOLEAN
    BY <1>c, <2>1 DEF ClientFits, Clients
  <2>3. setting' \in [version : Version, route : Route \cup {"direct"}, lock : BOOLEAN]
    <3>1. CASE client[c].version # setting.version
      BY <1>0, <1>7, <3>1 DEF UpdateProxyWrite, SettingFits
    <3>2. CASE client[c].version = setting.version
      <4>1. setting.version + 1 \in Version
        BY <2>2, <3>2, ProxyNumbers DEF Version
      <4> QED
        BY <1>7, <2>2, <3>2, <4>1 DEF UpdateProxyWrite
    <3> QED
      BY <3>1, <3>2
  <2>4. ClientsFit' /\ PoolFits' /\ CountsCover' /\ VerdictsFit'
    <3>1. client[c].out = {}
      BY <1>c, <2>1 DEF ClientFits
    <3> QED
      BY <2>1, <3>1, FailingKeeps
  <2> QED
    BY <1>0, <2>1, <2>3, <2>4 DEF ProxyInv, SettingFits
<1>8. ASSUME NEW c \in Client, TryCheckKey(c) PROVE ProxyInv'
  <2> DEFINE v == client[c].version
             x == client[c].entry
  <2>1. /\ client[c].at = "asking" /\ checks < MaxChecks
        /\ UNCHANGED <<setting, verdict, poolClosed, attested>>
    BY <1>8 DEF TryCheckKey
  <2>2. v \in Version /\ x \in Entry /\ client[c].out = {}
    BY <1>c, <2>1 DEF ClientFits, EntrySteps, HandleSteps
  <2>3. CASE checkKey[v] = NoKey
    <3> DEFINE r == [client[c] EXCEPT !.at = "checking", !.check = checks + 1, !.out = {"check"}]
               d == [dispatcher[x] EXCEPT !.requests = @ + 1]
    <3>1. /\ checkKey' = [checkKey EXCEPT ![v] = c] /\ checks' = checks + 1
          /\ client' = [client EXCEPT ![c] = r] /\ dispatcher[x].requests < MaxUses
          /\ dispatcher' = [dispatcher EXCEPT ![x] = d]
      BY <1>8, <1>0, <2>2, <2>3 DEF TryCheckKey
    <3>2. checks + 1 \in 0..MaxChecks /\ checks + 1 \in 1..(checks + 1) /\ "checking" \in EntrySteps
          /\ "check" \in Slots
      BY <1>0, <2>1 DEF EntrySteps, HandleSteps, Slots
    <3>3. /\ r \in Clients /\ r.at = "checking" /\ r.version = v /\ r.entry = x /\ r.check = checks + 1
          /\ r.out = {"check"}
      BY <1>c, <3>2 DEF Clients
    <3>4. EntryFits(dispatcher[x], poolClosed) /\ dispatcher[x].route # "none"
          /\ (dispatcher[x].closed => poolClosed)
      <4>1. x # 0 /\ client[c].at # "leaving"
        BY <2>1, <2>2, ProxyNumbers
      <4>2. EntryFits(dispatcher[x], poolClosed) /\ dispatcher[x].handles # 0 /\ dispatcher[x].route # "none"
        BY <4>1, HeldIsCounted
      <4> QED
        BY <4>2 DEF EntryFits
    <3>5. /\ EntryFits(d, poolClosed) /\ d.route = dispatcher[x].route /\ d.route # "none"
          /\ d.handles = dispatcher[x].handles /\ d.requests = dispatcher[x].requests + 1
      BY <3>1, <3>4, RequestedFits
    <3> HIDE DEF r, d, v, x
    <3>6. /\ checks' \in Nat /\ checks <= checks' /\ attested \subseteq attested' /\ client[c].entry = x
          /\ UNCHANGED poolClosed
      BY <1>0, <2>1, <3>1 DEF x
    <3>7. ClientFits(r, attested', checks')
      BY <2>1, <2>2, <3>1, <3>2, <3>3 DEF ClientFits, EntrySteps, HandleSteps
    <3>8. client'[c] = r /\ \A y \in Client \ {c} : client'[y] = client[y]
      BY <1>0, <3>1
    <3>9. d.requests >= dispatcher[x].requests + (IF "check" \in r.out THEN 1 ELSE 0)
                          - (IF "check" \in client[c].out THEN 1 ELSE 0)
      <4>1. dispatcher[x].requests \in Nat
        BY <1>0, <2>2, ProxyNumbers DEF Entries
      <4> QED
        BY <2>2, <3>3, <3>5, <4>1
    <3>10. ClientsFit' /\ PoolFits' /\ CountsCover'
      <4>1. /\ r.at = "leaving" <=> client[c].at = "leaving"
            /\ r.out \ {"check"} = client[c].out \ {"check"}
            /\ d.handles = dispatcher[x].handles /\ dispatcher[x].route # "none"
        BY <2>1, <2>2, <3>3, <3>4, <3>5
      <4> QED
        BY <2>2, <3>1, <3>2, <3>3, <3>5, <3>6, <3>7, <3>9, <4>1, RequestKeeps
    <3>11. VerdictsFit'
      <4>1. verdict' \in [Version -> [kind : {"none", "success", "failure"}, of : 0..checks']]
        BY <1>0, <2>1, <3>1 DEF VerdictsFit
      <4>2. checkKey' \in [Version -> Client \cup {NoKey}] /\ checkKey'[v] = c
            /\ \A w \in Version \ {v} : checkKey'[w] = checkKey[w]
        BY <1>0, <2>2, <3>1 DEF VerdictsFit
      <4>3. \A w \in Version : checkKey[w] # c
        BY <1>0, <2>1 DEF VerdictsFit
      <4>4. verdict[v].of \in 0..checks
        BY <1>0, <2>2 DEF VerdictsFit
      <4>5. client'[c].at = "checking" /\ client'[c].version = v /\ verdict[v].of <= client'[c].check
        BY <1>0, <3>3, <3>8, <4>4
      <4> QED
        BY <1>0, <2>1, <3>8, <4>1, <4>2, <4>3, <4>5 DEF VerdictsFit
    <3> QED
      BY <1>0, <2>1, <3>1, <3>2, <3>10, <3>11 DEF ProxyInv, SettingFits
  <2>4. CASE checkKey[v] # NoKey
    <3> DEFINE r == [client[c] EXCEPT !.at = "waiting"]
    <3>1. client' = [client EXCEPT ![c] = r] /\ UNCHANGED <<checkKey, checks, dispatcher>>
          /\ "waiting" \in EntrySteps
      BY <1>8, <1>0, <2>4 DEF TryCheckKey, EntrySteps, HandleSteps
    <3>2. r \in Clients /\ r.at = "waiting" /\ r.version = v /\ r.entry = x
          /\ r.out = client[c].out
      BY <1>c, <3>1 DEF Clients
    <3> HIDE DEF r, v
    <3>3. ClientFits(r, attested, checks)
      BY <2>2, <3>1, <3>2 DEF ClientFits, EntrySteps, HandleSteps
    <3>4. ClientsFit' /\ PoolFits' /\ CountsCover' /\ VerdictsFit'
      BY <2>1, <3>1, <3>2, <3>3, PlainStepKeeps
    <3> QED
      BY <1>0, <2>1, <3>1, <3>4 DEF ProxyInv, SettingFits
  <2> QED
    BY <2>3, <2>4
<1>9. ASSUME NEW c \in Client, NEW good \in BOOLEAN, NEW read \in BOOLEAN, CheckNetwork(c, good, read)
      PROVE  ProxyInv'
  <2> DEFINE x == client[c].entry
             r == [client[c] EXCEPT !.at = "storing", !.good = good, !.out = {}]
  <2>1. /\ client[c].at = "checking" /\ UNCHANGED <<setting, verdict, checkKey, checks, poolClosed>>
        /\ attested' = IF good THEN attested \cup {client[c].version} ELSE attested
    BY <1>9 DEF CheckNetwork
  <2>2. client[c].version \in Version /\ x \in Entry /\ client[c].check \in 1..checks
        /\ client[c].out = {"check"} /\ "check" \in Slots
    BY <1>c, <2>1 DEF ClientFits, EntrySteps, HandleSteps, Slots
  <2>3. client' = [client EXCEPT ![c] = r] /\ "storing" \in EntrySteps
    BY <1>9, <1>0 DEF CheckNetwork, EntrySteps, HandleSteps
  <2>4. /\ r \in Clients /\ r.at = "storing" /\ r.version = client[c].version /\ r.entry = x
        /\ r.check = client[c].check /\ r.good = good /\ r.out = {}
    BY <1>c, <2>3 DEF Clients
  <2>5. /\ EntryFits(dispatcher[x], poolClosed) /\ dispatcher[x].handles \in Nat
        /\ dispatcher[x].requests \in Nat \ {0} /\ dispatcher[x].route # "none"
    BY <2>1, <2>2, HeldIsCounted, ProxyNumbers
  <2> HIDE DEF r
  <2>6. PoolFits' /\ \A e \in Entry :
          /\ dispatcher'[e].handles = dispatcher[e].handles
          /\ dispatcher'[e].requests >= dispatcher[e].requests - (IF e = x THEN 1 ELSE 0)
          /\ dispatcher'[e].route = dispatcher[e].route
    <3>1. \A e \in Entry : /\ dispatcher[e].handles \in Nat /\ dispatcher[e].requests \in Nat
      BY <1>0, ProxyNumbers DEF Entries
    <3>2. CASE read
      <4> DEFINE d == ReleaseLease(dispatcher[x])
      <4>1. dispatcher' = [dispatcher EXCEPT ![x] = d]
        BY <1>9, <3>2 DEF CheckNetwork
      <4>2. /\ EntryFits(d, poolClosed) /\ d.route = dispatcher[x].route /\ d.route # "none"
            /\ d.handles = dispatcher[x].handles /\ d.requests = dispatcher[x].requests - 1
        BY <2>5, LeasedFits
      <4> HIDE DEF d
      <4>3. PoolFits' /\ dispatcher'[x] = d /\ \A e \in Entry \ {x} : dispatcher'[e] = dispatcher[e]
        BY <1>0, <2>1, <2>2, <4>1, <4>2, PoolKept
      <4> QED
        BY <3>1, <4>2, <4>3
    <3>3. CASE ~read
      <4>1. UNCHANGED <<dispatcher, poolClosed>>
        BY <1>9, <3>3 DEF CheckNetwork
      <4>2. PoolFits'
        BY <1>0, <4>1 DEF PoolFits, Created
      <4> QED
        BY <3>1, <4>1, <4>2
    <3> QED
      BY <3>2, <3>3
  <2>7. ClientFits(r, attested', checks')
    BY <2>1, <2>2, <2>4 DEF ClientFits, EntrySteps, HandleSteps
  <2>8. /\ checks \in Nat /\ checks' \in Nat /\ checks <= checks' /\ attested \subseteq attested'
        /\ attested' \subseteq Version
    BY <1>0, <2>1, <2>2 DEF SettingFits
  <2>9. ClientsFit'
    BY <1>0, <2>3, <2>7, <2>8, ClientsKept
  <2>10. CountsCover'
    <3>1. \A e \in Entry : /\ dispatcher[e].handles \in Nat /\ dispatcher[e].requests \in Nat
      BY <1>0, ProxyNumbers DEF Entries
    <3>2. \A e \in Entry :
            /\ ~Requests(r, "check", e)
            /\ Requests(client[c], "check", e) <=> e = x
            /\ Holds(r, e) <=> e = x
            /\ Holds(client[c], e) <=> e = x
            /\ \A p \in Slots \ {"check"} : ~Requests(r, p, e) /\ ~Requests(client[c], p, e)
            /\ r.entry = e => e = x
      BY <2>1, <2>2, <2>4 DEF Requests, Holds
    <3> HIDE DEF x
    <3> DEFINE q == "check"
    <3>4. \A e \in Entry :
            /\ dispatcher'[e].handles >= dispatcher[e].handles + (IF Holds(r, e) THEN 1 ELSE 0)
                                           - (IF Holds(client[c], e) THEN 1 ELSE 0)
            /\ dispatcher'[e].requests >= dispatcher[e].requests + (IF Requests(r, q, e) THEN 1 ELSE 0)
                                           - (IF Requests(client[c], q, e) THEN 1 ELSE 0)
            /\ \A p \in Slots \ {q} : Requests(r, p, e) <=> Requests(client[c], p, e)
            /\ dispatcher[e].route # "none" \/ r.entry = e => dispatcher'[e].route # "none"
      BY <2>5, <2>6, <3>1, <3>2
    <3>5. /\ client' = [client EXCEPT ![c] = r] /\ CountsCover /\ PoolFits /\ PoolFits' /\ ClientsFit
          /\ q \in Slots
      BY <1>0, <2>2, <2>3, <2>6
    <3> HIDE DEF q
    <3> QED
      BY ONLY <3>4, <3>5, c \in Client, CountsKept
  <2>11. VerdictsFit'
    <3>1. /\ client[c].at \in {"checking", "storing"} /\ r.at \in {"checking", "storing"}
          /\ r.version = client[c].version /\ r.check = client[c].check
      BY <2>1, <2>4
    <3>2. UNCHANGED <<verdict, checkKey>>
      BY <2>1
    <3> QED
      BY <1>0, <2>3, <2>8, <3>1, <3>2, VerdictsKept
  <2> QED
    BY <1>0, <2>1, <2>6, <2>8, <2>9, <2>10, <2>11 DEF ProxyInv, SettingFits
<1>10. ASSUME NEW c \in Client, StoreVerdict(c) PROVE ProxyInv'
  <2> DEFINE v == client[c].version
             owned == checkKey[v] = c
  <2>1. /\ client[c].at = "storing" /\ UNCHANGED <<setting, checks, poolClosed, attested>>
        /\ checks <= checks' /\ attested \subseteq attested' /\ checks' \in Nat
    BY <1>10, <1>0 DEF StoreVerdict
  <2>2. v \in Version /\ client[c].entry \in Entry /\ client[c].check \in 1..checks
        /\ client[c].out = {}
    BY <1>c, <2>1 DEF ClientFits, EntrySteps, HandleSteps
  <2>3. ASSUME owned /\ client[c].good PROVE ClientsFit' /\ PoolFits' /\ CountsCover'
    <3> DEFINE r == Passed(c)
    <3>1. client' = [client EXCEPT ![c] = r] /\ UNCHANGED <<dispatcher, poolClosed>>
      BY <1>10, <2>1, <2>3 DEF StoreVerdict
    <3>2. /\ r \in Clients /\ r.at = "confirming" /\ r.version = v /\ r.entry = client[c].entry
          /\ r.out = {}
      <4>1. client[c].version \in 0..MaxVersions /\ client[c].entry \in 0..MaxDispatchers
            /\ "confirming" \in EntrySteps
        BY <1>c DEF Clients, EntrySteps, HandleSteps
      <4> QED
        BY <4>1, <1>n DEF Passed, Clients
    <3>3. v \in attested
      BY <1>c, <2>1, <2>3 DEF ClientFits
    <3> HIDE DEF r, v
    <3>4. ClientFits(r, attested', checks')
      BY <2>1, <2>2, <3>2, <3>3 DEF ClientFits, EntrySteps, HandleSteps
    <3>5. r.at # "leaving" /\ client[c].at # "leaving" /\ r.out = client[c].out
      BY <2>1, <2>2, <3>2
    <3>6. ClientsFit' /\ PoolFits' /\ CountsCover'
      BY <2>1, <3>1, <3>2, <3>4, <3>5, GoingOnKeeps
    <3> QED
      BY <3>6
  <2>4. ASSUME ~(owned /\ client[c].good) PROVE ClientsFit' /\ PoolFits' /\ CountsCover'
    <3>1. Fail(c)
      BY <1>10, <2>4 DEF StoreVerdict
    <3> QED
      BY <2>1, <2>2, <3>1, FailKeeps
  <2>5. ClientsFit' /\ PoolFits' /\ CountsCover'
    BY <2>3, <2>4
  <2>6. \A y \in Client \ {c} : client'[y] = client[y]
    BY <1>10, <1>0 DEF StoreVerdict, Fail, Quit
  <2>7. VerdictsFit'
    <3>1. \A w \in Version \ {v} : checkKey[w] # c
      BY <1>0 DEF VerdictsFit
    <3>2. CASE owned
      <4>1. /\ verdict' = [verdict EXCEPT ![v] = Verdict(c)] /\ checkKey' = [checkKey EXCEPT ![v] = NoKey]
        BY <1>10, <3>2 DEF StoreVerdict
      <4>2. /\ Verdict(c) \in [kind : {"none", "success", "failure"}, of : 0..checks]
            /\ Verdict(c).kind = "success" => v \in attested
        BY <1>0, <1>c, <2>1, <2>2 DEF Verdict, ClientFits
      <4>3. /\ verdict' \in [Version -> [kind : {"none", "success", "failure"}, of : 0..checks']]
            /\ checkKey' \in [Version -> Client \cup {NoKey}]
            /\ verdict'[v] = Verdict(c) /\ checkKey'[v] = NoKey
            /\ \A w \in Version \ {v} : verdict'[w] = verdict[w] /\ checkKey'[w] = checkKey[w]
        BY <1>0, <2>1, <2>2, <4>1, <4>2 DEF VerdictsFit
      <4> HIDE DEF v
      <4> QED
        BY <1>0, <2>1, <2>2, <2>6, <3>1, <4>2, <4>3, ProxyNumbers DEF VerdictsFit
    <3>3. CASE ~owned
      <4>1. UNCHANGED <<verdict, checkKey>>
        BY <1>10, <3>3 DEF StoreVerdict
      <4>2. \A w \in Version : checkKey[w] # c
        BY <3>1, <3>3
      <4> HIDE DEF v
      <4> QED
        BY <1>0, <2>1, <2>6, <4>1, <4>2 DEF VerdictsFit
    <3> QED
      BY <3>2, <3>3
  <2> QED
    BY <1>0, <2>1, <2>5, <2>7 DEF ProxyInv, SettingFits
<1>11. ASSUME NEW c \in Client, NEW q \in Sibling, StartRequest(c, q) PROVE ProxyInv'
  <2> DEFINE x == client[c].entry
             r == [client[c] EXCEPT !.out = @ \cup {q}]
             d == [dispatcher[x] EXCEPT !.requests = @ + 1]
  <2>1. /\ client[c].at \in {"using", "leaving"} /\ q \in Slots
        /\ UNCHANGED <<setting, verdict, checkKey, checks, poolClosed, attested>>
        /\ checks <= checks' /\ attested \subseteq attested' /\ checks' \in Nat
        /\ q \notin client[c].out
    BY <1>11, <1>0 DEF StartRequest, Slots
  <2>2. client[c].version \in Version /\ x \in Entry /\ x # 0 /\ client[c].out \subseteq Sibling
    BY <1>c, <2>1, ProxyNumbers DEF ClientFits, EntrySteps, HandleSteps
  <2>3. /\ client' = [client EXCEPT ![c] = r] /\ dispatcher' = [dispatcher EXCEPT ![x] = d]
    BY <1>11, <1>0, <2>2 DEF StartRequest
  <2>4. /\ r \in Clients /\ r.at = client[c].at /\ r.version = client[c].version /\ r.entry = x
        /\ r.out = client[c].out \cup {q}
    BY <1>c, <2>1, <2>2 DEF Clients, Slots
  <2>5. /\ EntryFits(dispatcher[x], poolClosed) /\ dispatcher[x].route # "none"
        /\ dispatcher[x].requests \in Nat
        /\ client[c].out # {} => dispatcher[x].requests # 0
    BY <2>2, HeldIsCounted
  <2>6. /\ EntryFits(d, poolClosed) /\ d.route # "none" /\ d.handles = dispatcher[x].handles
        /\ d.requests = dispatcher[x].requests + 1
    <3>1. dispatcher[x].requests < MaxUses /\ (dispatcher[x].closed => poolClosed)
      BY <1>11 DEF StartRequest
    <3> QED
      BY <2>5, <3>1, RequestedFits
  <2>7. client[c].entry = x
    OBVIOUS
  <2> HIDE DEF r, d, x
  <2>8. ClientFits(r, attested', checks')
    BY <1>c, <2>1, <2>2, <2>4 DEF ClientFits, EntrySteps, HandleSteps
  <2>9. d.requests >= dispatcher[x].requests + (IF q \in r.out THEN 1 ELSE 0)
                        - (IF q \in client[c].out THEN 1 ELSE 0)
    BY <2>1, <2>4, <2>5, <2>6
  <2>10. /\ r.out \ {q} = client[c].out \ {q}
         /\ r.at = "leaving" <=> client[c].at = "leaving"
    BY <2>4
  <2>11. ClientsFit' /\ PoolFits' /\ CountsCover'
    BY <2>1, <2>2, <2>3, <2>4, <2>5, <2>6, <2>7, <2>8, <2>9, <2>10, RequestKeeps
  <2>12. VerdictsFit'
    BY <1>0, <2>1, <2>3, VerdictsKept
  <2> QED
    BY <1>0, <2>1, <2>11, <2>12 DEF ProxyInv, SettingFits
<1>12. ASSUME NEW c \in Client, NEW q \in Sibling, EndRequest(c, q) PROVE ProxyInv'
  <2> DEFINE x == client[c].entry
             r == [client[c] EXCEPT !.out = @ \ {q}]
             d == ReleaseLease(dispatcher[x])
  <2>1. /\ client[c].at \in {"using", "leaving"} /\ q \in Slots
        /\ UNCHANGED <<setting, verdict, checkKey, checks, poolClosed, attested>>
        /\ checks <= checks' /\ attested \subseteq attested' /\ checks' \in Nat
        /\ q \in client[c].out
    BY <1>12, <1>0 DEF EndRequest, Slots
  <2>2. client[c].version \in Version /\ x \in Entry /\ x # 0 /\ client[c].out \subseteq Sibling
    BY <1>c, <2>1, ProxyNumbers DEF ClientFits, EntrySteps, HandleSteps
  <2>3. /\ client' = [client EXCEPT ![c] = r] /\ dispatcher' = [dispatcher EXCEPT ![x] = d]
    BY <1>12, <1>0, <2>2 DEF EndRequest
  <2>4. /\ r \in Clients /\ r.at = client[c].at /\ r.version = client[c].version /\ r.entry = x
        /\ r.out = client[c].out \ {q}
    BY <1>c, <2>1, <2>2 DEF Clients, Slots
  <2>5. /\ EntryFits(dispatcher[x], poolClosed) /\ dispatcher[x].route # "none"
        /\ dispatcher[x].requests \in Nat
        /\ client[c].out # {} => dispatcher[x].requests # 0
    BY <2>2, HeldIsCounted
  <2>6. /\ EntryFits(d, poolClosed) /\ d.route # "none" /\ d.handles = dispatcher[x].handles
        /\ d.requests = dispatcher[x].requests - 1
    <3>1. dispatcher[x].requests # 0
      BY <2>1, <2>5
    <3> QED
      BY <2>5, <3>1, LeasedFits
  <2>7. client[c].entry = x
    OBVIOUS
  <2> HIDE DEF r, d, x
  <2>8. ClientFits(r, attested', checks')
    BY <1>c, <2>1, <2>2, <2>4 DEF ClientFits, EntrySteps, HandleSteps
  <2>9. d.requests >= dispatcher[x].requests + (IF q \in r.out THEN 1 ELSE 0)
                        - (IF q \in client[c].out THEN 1 ELSE 0)
    BY <2>1, <2>4, <2>5, <2>6
  <2>10. /\ r.out \ {q} = client[c].out \ {q}
         /\ r.at = "leaving" <=> client[c].at = "leaving"
    BY <2>4
  <2>11. ClientsFit' /\ PoolFits' /\ CountsCover'
    BY <2>1, <2>2, <2>3, <2>4, <2>5, <2>6, <2>7, <2>8, <2>9, <2>10, RequestKeeps
  <2>12. VerdictsFit'
    BY <1>0, <2>1, <2>3, VerdictsKept
  <2> QED
    BY <1>0, <2>1, <2>11, <2>12 DEF ProxyInv, SettingFits
<1>19. ASSUME NEW c \in Client, Settle(c) PROVE ProxyInv'
  <2>1. /\ client[c].at = "leaving" /\ client[c].out = {} /\ Quit(c) /\ UNCHANGED dispatcher
        /\ UNCHANGED <<setting, verdict, checkKey, checks, poolClosed, attested>>
    BY <1>19 DEF Settle
  <2>2. ClientsFit' /\ PoolFits' /\ CountsCover' /\ VerdictsFit'
    BY <2>1, FailingKeeps
  <2> QED
    BY <1>0, <2>1, <2>2 DEF ProxyInv, SettingFits
<1>13. ASSUME NEW c \in Client, AcquireHandle(c) PROVE ProxyInv'
  <2>1. /\ client[c].at = "validated"
        /\ UNCHANGED <<setting, verdict, checkKey, checks, poolClosed, attested>>
    BY <1>13 DEF AcquireHandle
  <2>m. checks <= checks' /\ attested \subseteq attested' /\ checks' \in Nat
    BY <1>0, <2>1
  <2>2. /\ client[c].version \in Version /\ client[c].route \in Route /\ client[c].entry = 0
        /\ client[c].route # "none" /\ client[c].out = {}
    BY <1>c, <2>1, ProxyNumbers DEF ClientFits, EntrySteps, HandleSteps
  <2>3. CASE poolClosed
    <3>1. Quit(c) /\ UNCHANGED dispatcher
      BY <1>13, <2>3 DEF AcquireHandle
    <3>2. ClientsFit' /\ PoolFits' /\ CountsCover' /\ VerdictsFit'
      BY <2>1, <2>2, <3>1, FailingKeeps
    <3> QED
      BY <1>0, <2>1, <3>2 DEF ProxyInv, SettingFits
  <2>4. CASE ~poolClosed
    <3> DEFINE route == client[c].route
               known == {e \in Pooled : dispatcher[e].route = route}
    <3>1. PICK e \in Entry, fills \in BOOLEAN :
            /\ e \in IF known # {} THEN known ELSE {Fresh}
            /\ dispatcher[e].handles < MaxUses
            /\ dispatcher' = IF fills
                              THEN Turned([dispatcher EXCEPT ![e].route = route, ![e].gen = "recent",
                                                             ![e].handles = @ + 1])
                              ELSE [dispatcher EXCEPT ![e].route = route, ![e].gen = "recent",
                                                      ![e].handles = @ + 1]
            /\ client' = [client EXCEPT ![c].at = "asking", ![c].entry = e, ![c].route = "none"]
      BY <1>13, <2>4 DEF AcquireHandle
    <3> DEFINE d == [dispatcher[e] EXCEPT !.route = route, !.gen = "recent", !.handles = @ + 1]
               P == [dispatcher EXCEPT ![e] = d]
               r == [client[c] EXCEPT !.at = "asking", !.entry = e, !.route = "none"]
    <3>2. PICK k \in 0..MaxDispatchers : Created = 1..k
      BY <1>0 DEF PoolFits
    <3>3. dispatcher[e] \in Entries /\ EntryFits(dispatcher[e], poolClosed)
      BY <1>0 DEF PoolFits
    <3>4. /\ dispatcher[e].route \in {route, "none"} /\ ~dispatcher[e].evict /\ ~dispatcher[e].closed
          /\ \/ e \in Created
             \/ e = k + 1 /\ k + 1 \in 0..MaxDispatchers
      <4>1. CASE known # {}
        <5>1. dispatcher[e].gen # "out" /\ dispatcher[e].route = route
          BY <3>1, <4>1 DEF Pooled
        <5> QED
          BY <2>2, <3>3, <5>1 DEF EntryFits, Created
      <4>2. CASE known = {}
        <5>0. \A n \in 0..MaxDispatchers : n \in Nat
          BY ProxyNumbers
        <5>1. k \in Nat /\ Cardinality(1..k) = k
          <6>1. k \in Nat
            BY <5>0
          <6>2. 1 \in Int /\ k \in Int /\ k - 1 + 1 = k /\ (1 > k <=> k = 0)
            BY <6>1
          <6> QED
            BY <6>1, <6>2, FS_Interval
        <5>2. e = k + 1 /\ e \notin Created /\ k + 1 \in 0..MaxDispatchers
          BY <3>1, <3>2, <4>2, <5>1, ProxyNumbers DEF Fresh, Entry
        <5>3. dispatcher[e] = NoEntry /\ dispatcher[e].route = "none"
          BY <3>3, <5>2 DEF EntryFits, Created
        <5> QED
          BY <5>2, <5>3 DEF NoEntry
      <4> QED
        BY <4>1, <4>2
    <3> HIDE DEF known
    <3>5. dispatcher[e].handles + 1 \in 0..MaxUses /\ dispatcher[e].handles \in Nat
      BY <3>1, <3>3, ProxyNumbers DEF Entries
    <3>6. /\ d \in Entries /\ d.route = route /\ d.gen = "recent" /\ d.handles = dispatcher[e].handles + 1
          /\ d.requests = dispatcher[e].requests /\ ~d.evict /\ ~d.closed
      BY <2>2, <3>3, <3>4, <3>5 DEF Entries, Generations
    <3>7. EntryFits(d, poolClosed)
      BY <2>2, <3>6 DEF EntryFits
    <3>8. dispatcher' = IF fills THEN Turned(P) ELSE P
      BY <1>0, <3>1
    <3>9. client' = [client EXCEPT ![c] = r] /\ "asking" \in EntrySteps /\ e \in 0..MaxDispatchers
      <4>1. client' = [client EXCEPT ![c] = r]
        BY <1>0, <3>1
      <4> QED
        BY <4>1, ProxyNumbers DEF EntrySteps, HandleSteps, Entry
    <3>10. /\ r \in Clients /\ r.at = "asking" /\ r.version = client[c].version /\ r.entry = e
           /\ r.out = {}
      BY <1>c, <2>2, <3>9 DEF Clients
    <3> HIDE DEF d, r
    <3>11. /\ P \in [Entry -> Entries] /\ P[e] = d /\ \A y \in Entry \ {e} : P[y] = dispatcher[y]
           /\ \A y \in Entry : EntryFits(P[y], poolClosed)
      BY <1>0, <3>6, <3>7 DEF PoolFits
    <3> HIDE DEF P
    <3>12. /\ dispatcher' \in [Entry -> Entries]
           /\ \A y \in Entry : /\ EntryFits(dispatcher'[y], poolClosed)
                               /\ dispatcher'[y].route = P[y].route
                               /\ dispatcher'[y].handles = P[y].handles
                               /\ dispatcher'[y].requests = P[y].requests
      <4>1. CASE fills
        BY <3>8, <3>11, <4>1, TurnedPool
      <4>2. CASE ~fills
        BY <3>8, <3>11, <4>2
      <4> QED
        BY <4>1, <4>2
    <3>14. PoolFits'
      <4>1. \A y \in Entry : EntryFits(dispatcher'[y], poolClosed')
        BY <2>1, <3>12
      <4>2. Created' = Created \cup {e}
        BY <2>2, <3>6, <3>11, <3>12 DEF Created
      <4>3. Created' = 1..k \/ (Created' = 1..(k + 1) /\ k + 1 \in 0..MaxDispatchers)
        <5>1. CASE e \in Created
          BY <3>2, <4>2, <5>1
        <5>2. CASE e = k + 1 /\ k + 1 \in 0..MaxDispatchers
          <6>1. (1..k) \cup {k + 1} = 1..(k + 1)
            BY <3>2, ProxyNumbers
          <6> QED
            BY <3>2, <4>2, <5>2, <6>1
        <5> QED
          BY <3>4, <5>1, <5>2
      <4> QED
        BY <3>12, <4>1, <4>3 DEF PoolFits
    <3>15. ClientFits(r, attested', checks')
      BY <2>1, <2>2, <3>9, <3>10 DEF ClientFits, EntrySteps, HandleSteps
    <3>16. ClientsFit'
      BY <1>0, <2>m, <3>9, <3>15, ClientsKept
    <3>17. \A y \in Entry : dispatcher[y].handles \in Nat /\ dispatcher[y].requests \in Nat
      BY <1>0, PoolCounts
    <3>18. \A y \in Entry : /\ ~Holds(client[c], y)
                            /\ Holds(r, y) <=> y = e
                            /\ \A p \in Slots : ~Requests(r, p, y) /\ ~Requests(client[c], p, y)
      BY <2>2, <3>10, ProxyNumbers DEF Requests, Holds
    <3>19. \A y \in Entry :
             /\ dispatcher'[y].handles >= dispatcher[y].handles + (IF Holds(r, y) THEN 1 ELSE 0)
                                            - (IF Holds(client[c], y) THEN 1 ELSE 0)
             /\ dispatcher'[y].requests >= dispatcher[y].requests + (IF Requests(r, "check", y) THEN 1 ELSE 0)
                                            - (IF Requests(client[c], "check", y) THEN 1 ELSE 0)
             /\ \A p \in Slots \ {"check"} : Requests(r, p, y) <=> Requests(client[c], p, y)
             /\ dispatcher[y].route # "none" \/ r.entry = y => dispatcher'[y].route # "none"
      <4>1. "check" \in Slots
        BY DEF Slots
      <4> QED
        BY <2>2, <3>6, <3>10, <3>11, <3>12, <3>17, <3>18, <4>1
    <3>20. CountsCover'
      <4>1. "check" \in Slots
        BY DEF Slots
      <4> QED
        BY <1>0, <3>9, <3>14, <3>19, <4>1, CountsKept
    <3>21. VerdictsFit'
      <4>1. client[c].at \notin {"checking", "storing"} /\ UNCHANGED <<verdict, checkKey>>
        BY <2>1
      <4> QED
        BY <1>0, <2>m, <3>9, <4>1, VerdictsKept
    <3> QED
      BY <1>0, <2>1, <3>14, <3>16, <3>20, <3>21 DEF ProxyInv, SettingFits
  <2> QED
    BY <2>3, <2>4
<1>14. ASSUME NEW e \in Entry, IdleSweep(e) PROVE ProxyInv'
  <2> DEFINE d == Evicted(dispatcher[e])
  <2>1. /\ dispatcher' = [dispatcher EXCEPT ![e] = d] /\ dispatcher[e].gen # "out"
        /\ UNCHANGED <<setting, verdict, checkKey, checks, poolClosed, client, attested>>
    BY <1>14 DEF IdleSweep, Pooled
  <2>2. EntryFits(dispatcher[e], poolClosed)
    BY <1>0 DEF PoolFits
  <2>3. /\ EntryFits(d, poolClosed) /\ d.route = dispatcher[e].route
        /\ d.handles = dispatcher[e].handles /\ d.requests = dispatcher[e].requests
    BY <2>1, <2>2, EvictedFits
  <2> HIDE DEF d
  <2>4. dispatcher' \in [Entry -> Entries] /\ dispatcher'[e] = d
        /\ \A y \in Entry \ {e} : dispatcher'[y] = dispatcher[y]
    BY <1>0, <2>1, <2>3 DEF EntryFits
  <2>5. /\ poolClosed' \in BOOLEAN
        /\ \A y \in Entry : /\ EntryFits(dispatcher'[y], poolClosed')
                            /\ dispatcher'[y].route = dispatcher[y].route
                            /\ dispatcher'[y].handles = dispatcher[y].handles
                            /\ dispatcher'[y].requests = dispatcher[y].requests
    BY <1>0, <2>1, <2>3, <2>4 DEF PoolFits, SettingFits
  <2> QED
    BY <2>1, <2>4, <2>5, PoolStepKeeps
<1>20. ASSUME OthersTurn PROVE ProxyInv'
  <2>1. /\ dispatcher' = Turned(dispatcher)
        /\ UNCHANGED <<setting, verdict, checkKey, checks, poolClosed, client, attested>>
    BY <1>20 DEF OthersTurn
  <2>2. \A e \in Entry : EntryFits(dispatcher[e], poolClosed)
    BY <1>0 DEF PoolFits
  <2>3. /\ dispatcher' \in [Entry -> Entries] /\ poolClosed' \in BOOLEAN
        /\ \A y \in Entry : /\ EntryFits(dispatcher'[y], poolClosed')
                            /\ dispatcher'[y].route = dispatcher[y].route
                            /\ dispatcher'[y].handles = dispatcher[y].handles
                            /\ dispatcher'[y].requests = dispatcher[y].requests
    BY <1>0, <2>1, <2>2, TurnedPool DEF SettingFits
  <2> QED
    BY <2>1, <2>3, PoolStepKeeps
<1>15. ASSUME CloseAll PROVE ProxyInv'
  <2>1. /\ ~poolClosed /\ poolClosed' = TRUE
        /\ dispatcher' = [e \in Entry |-> IF e \in Pooled
                            THEN [dispatcher[e] EXCEPT !.evict = TRUE, !.closed = TRUE, !.gen = "out"]
                            ELSE dispatcher[e]]
        /\ UNCHANGED <<setting, verdict, checkKey, checks, client, attested>>
    BY <1>15 DEF CloseAll
  <2>2. ASSUME NEW e \in Entry
        PROVE  /\ EntryFits(dispatcher'[e], TRUE) /\ dispatcher'[e].route = dispatcher[e].route
               /\ dispatcher'[e].handles = dispatcher[e].handles
               /\ dispatcher'[e].requests = dispatcher[e].requests
    <3>1. EntryFits(dispatcher[e], poolClosed) /\ dispatcher[e] \in Entries
      BY <1>0 DEF PoolFits
    <3>2. CASE e \in Pooled
      <4> DEFINE d == [dispatcher[e] EXCEPT !.evict = TRUE, !.closed = TRUE, !.gen = "out"]
      <4>1. dispatcher'[e] = d
        BY <2>1, <3>2
      <4>2. /\ d \in Entries /\ d.route = dispatcher[e].route /\ d.handles = dispatcher[e].handles
            /\ d.requests = dispatcher[e].requests /\ d.closed /\ d.gen = "out"
        BY <3>1 DEF Entries, Generations
      <4>3. d.route # "none"
        BY <3>1, <3>2, <4>2 DEF EntryFits, Pooled
      <4> HIDE DEF d
      <4> QED
        BY <4>1, <4>2, <4>3 DEF EntryFits
    <3>3. CASE e \notin Pooled
      BY <2>1, <3>1, <3>3 DEF EntryFits, Pooled
    <3> QED
      BY <3>2, <3>3
  <2>3. dispatcher' \in [Entry -> Entries]
    BY <2>1, <2>2 DEF EntryFits
  <2> QED
    BY <2>1, <2>2, <2>3, PoolStepKeeps
<1>16. ASSUME NEW v \in Version, CheckKeyLapses(v) PROVE ProxyInv'
  <2>1. /\ checkKey' = [checkKey EXCEPT ![v] = NoKey]
        /\ UNCHANGED <<setting, verdict, checks, dispatcher, poolClosed, client, attested>>
    BY <1>16 DEF CheckKeyLapses
  <2>2. VerdictsFit'
    <3>1. /\ checkKey' \in [Version -> Client \cup {NoKey}] /\ checkKey'[v] = NoKey
          /\ \A w \in Version \ {v} : checkKey'[w] = checkKey[w]
      BY <1>0, <2>1 DEF VerdictsFit
    <3> QED
      BY <1>0, <2>1, <3>1, ProxyNumbers DEF VerdictsFit
  <2> QED
    BY <1>0, <2>1, <2>2 DEF ProxyInv, SettingFits, PoolFits, Created, ClientsFit, CountsCover,
       Holders, Requesters, Holds, Requests
<1>17. ASSUME NEW v \in Version, VerdictExpires(v) PROVE ProxyInv'
  <2>1. /\ verdict' = [verdict EXCEPT ![v].kind = "none"]
        /\ UNCHANGED <<setting, checkKey, checks, dispatcher, poolClosed, client, attested>>
    BY <1>17 DEF VerdictExpires
  <2>2. VerdictsFit'
    <3>1. /\ verdict' \in [Version -> [kind : {"none", "success", "failure"}, of : 0..checks']]
          /\ verdict'[v].kind = "none" /\ verdict'[v].of = verdict[v].of
          /\ \A w \in Version \ {v} : verdict'[w] = verdict[w]
      BY <1>0, <2>1 DEF VerdictsFit
    <3> QED
      BY <1>0, <2>1, <3>1 DEF VerdictsFit
  <2> QED
    BY <1>0, <2>1, <2>2 DEF ProxyInv, SettingFits, PoolFits, Created, ClientsFit, CountsCover,
       Holders, Requesters, Holds, Requests
<1>18. ASSUME UNCHANGED proxyVars PROVE ProxyInv'
  <2>1. SettingFits' /\ ClientsFit'
    BY <1>0, <1>18 DEF proxyVars, SettingFits, ClientsFit
  <2>2. PoolFits'
    BY <1>0, <1>18 DEF proxyVars, PoolFits, Created
  <2>3. CountsCover'
    BY <1>0, <1>18 DEF proxyVars, CountsCover, Holders, Requesters, Holds, Requests
  <2>4. VerdictsFit'
    BY <1>0, <1>18 DEF proxyVars, VerdictsFit
  <2> QED
    BY <2>1, <2>2, <2>3, <2>4 DEF ProxyInv
<1> QED
  <2>1. CASE ProxyNext
    <3>1. ASSUME NEW c \in Client, UpdateProxy(c) PROVE ProxyInv'
      <4>1. setting.route \in Route \cup {"direct"} /\ (~setting.lock) \in BOOLEAN
        BY <1>0 DEF SettingFits
      <4> QED
        BY <1>6, <1>7, <3>1, <4>1 DEF UpdateProxy
    <3> QED
      BY <1>1, <1>2, <1>3, <1>4, <1>5, <1>8, <1>9, <1>10, <1>11, <1>12, <1>13, <1>14, <1>15,
         <1>16,
         <1>17, <1>19, <1>20, <2>1, <3>1 DEF ProxyNext
  <2> QED
    BY <1>18, <2>1

(* Hence it holds throughout.                                              *)
LEMMA ProxyInvHolds == ProxySpec => []ProxyInv
<1>1. ProxyInit => ProxyInv
  BY ProxyInvInit
<1>2. ProxyInv /\ [ProxyNext]_proxyVars => ProxyInv'
  BY ProxyInvStep
<1> QED
  BY <1>1, <1>2, PTL DEF ProxySpec

(* The setting, the verdicts, the counts and every execution stay within   *)
(* their types: no count goes below zero, no execution points at an entry  *)
(* that was never made.                                                    *)
THEOREM ProxyTypesHold == ProxySpec => []ProxyTypeOK
<1>1. ProxyInv => ProxyTypeOK
  <2> SUFFICES ASSUME ProxyInv PROVE ProxyTypeOK
    OBVIOUS
  <2>1. SettingFits
    BY DEF ProxyInv
  <2>2. ASSUME NEW v \in Version
        PROVE  /\ verdict[v].kind \in {"none", "success", "failure"} /\ verdict[v].of \in 0..checks
               /\ checkKey[v] \in Client \cup {NoKey}
    BY DEF ProxyInv, VerdictsFit
  <2>3. ASSUME NEW e \in Entry
        PROVE  /\ dispatcher[e].handles \in 0..MaxUses /\ dispatcher[e].requests \in 0..MaxUses
               /\ e \in Pooled => dispatcher[e].route \in Route
    BY DEF ProxyInv, PoolFits, EntryFits, Entries, Pooled
  <2>4. ASSUME NEW c \in Client
        PROVE  /\ client[c].version \in 0..MaxVersions /\ client[c].entry \in 0..MaxDispatchers
               /\ client[c].out \subseteq Sibling \cup {"check"}
    BY DEF ProxyInv, ClientsFit, Clients, Slots
  <2> QED
    BY <2>1, <2>2, <2>3, <2>4 DEF SettingFits, ProxyTypeOK
<1> QED
  BY <1>1, ProxyInvHolds, PTL

(* Whatever the callers, the updates of the setting, the evictions and the *)
(* expiries of the cache do: nothing is sent through an unattested route,  *)
(* no dispatcher is closed while the process runs and an execution has its *)
(* handle or a request through it under way, not even one it left behind;  *)
(* and one that left the map and is not in use does not stay open.         *)
THEOREM ProxyTrafficHolds == ProxySpec => []ProxyTrafficIsSafe
<1>1. ProxyInv => TrafficIsAttested
  <2> SUFFICES ASSUME ProxyInv, NEW c \in Client, client[c].out \cap Sibling # {}
               PROVE  client[c].version \in attested
    BY DEF TrafficIsAttested
  <2>1. ClientFits(client[c], attested, checks)
    BY DEF ProxyInv, ClientsFit
  <2> QED
    BY <2>1, ProxyNumbers DEF ClientFits
<1>2. ProxyInv => InUseStaysOpen
  <2> SUFFICES ASSUME ProxyInv, NEW c \in Client, NEW e \in Entry, Uses(c, e), ~poolClosed
               PROVE  ~dispatcher[e].closed
    BY DEF InUseStaysOpen
  <2>1. client[c].entry = e /\ client[c].entry # 0
    BY ProxyNumbers DEF Uses
  <2>2. EntryFits(dispatcher[e], poolClosed) /\ (dispatcher[e].handles # 0 \/ dispatcher[e].requests # 0)
    BY <2>1, HeldIsCounted DEF Uses
  <2> QED
    BY <2>2 DEF EntryFits
<1>3. ProxyInv => RetiredIsClosed
  BY DEF ProxyInv, PoolFits, EntryFits, RetiredIsClosed
<1> QED
  BY <1>1, <1>2, <1>3, ProxyInvHolds, PTL DEF ProxyTrafficIsSafe

(* The cached verdict of a version only ever comes from a later check.     *)
THEOREM VerdictsOnlyForward == ProxySpec => VerdictsMoveForward
<1>1. ProxyInv /\ [ProxyNext]_proxyVars => [\A v \in Version : verdict'[v].of >= verdict[v].of]_proxyVars
  <2> SUFFICES ASSUME ProxyInv, ProxyNext, NEW v \in Version PROVE verdict'[v].of >= verdict[v].of
    OBVIOUS
  <2>0. verdict \in [Version -> [kind : {"none", "success", "failure"}, of : 0..checks]] /\ checks \in Nat
    BY ProxyNumbers DEF ProxyInv, VerdictsFit, SettingFits
  <2>1. verdict[v].of \in 0..checks
    BY <2>0
  <2>2. ASSUME NEW c \in Client, StoreVerdict(c) PROVE verdict'[v].of >= verdict[v].of
    <3> DEFINE w == client[c].version
    <3>1. CASE checkKey[w] = c
      <4>1. verdict' = [verdict EXCEPT ![w] = Verdict(c)]
        BY <2>2, <3>1 DEF StoreVerdict
      <4>2. client[c].check \in 1..checks /\ w \in Version
        BY <2>2 DEF StoreVerdict, ProxyInv, ClientsFit, ClientFits, EntrySteps, HandleSteps
      <4>3. verdict[w].of <= client[c].check
        BY <3>1, <4>2 DEF ProxyInv, VerdictsFit
      <4>4. Verdict(c).of = client[c].check
        BY DEF Verdict
      <4> QED
        BY <2>0, <2>1, <4>1, <4>2, <4>3, <4>4
    <3>2. CASE checkKey[w] # c
      BY <2>1, <2>2, <3>2 DEF StoreVerdict
    <3> QED
      BY <3>1, <3>2
  <2>3. ASSUME NEW w \in Version, VerdictExpires(w) PROVE verdict'[v].of >= verdict[v].of
    BY <2>0, <2>1, <2>3 DEF VerdictExpires
  <2>4. ASSUME UNCHANGED verdict PROVE verdict'[v].of >= verdict[v].of
    BY <2>1, <2>4
  <2> QED
    BY ZenonT(30), <2>2, <2>3, <2>4
       DEF ProxyNext, Prepare, AcquireHandle, AskCache, WaitingTimesOut, TryCheckKey, CheckNetwork,
           Confirm, StartRequest, EndRequest, Settle, UpdateProxy, UpdateProxyRead,
           UpdateProxyWrite, ReleaseContext, OthersTurn, IdleSweep, CheckKeyLapses, CloseAll
<1> QED
  BY <1>1, ProxyInvHolds, PTL DEF ProxySpec, VerdictsMoveForward
-----------------------------------------------------------------------------
(* The media library, for any number of editors and of attempts at a       *)
(* thumbnail. As long as operations on an asset do not overlap and the     *)
(* storage answers, each knows the state it acts on.                       *)

(* The steps of a thumbnail job that is not over.                          *)
Working == {"waiting", "read", "stored"}

(* The types, and that a thumbnail job that waits has an attempt left.     *)
MediaTypes ==
  /\ asset \in Statuses \cup {"none", "gone"}
  /\ video \in BOOLEAN /\ file \in BOOLEAN /\ sweeping \in BOOLEAN /\ quiet \in BOOLEAN
  /\ post \in {"none", "draft", "published"} /\ editing \in [Editor -> Edits]
  /\ thumbJob \in {"none", "waiting", "read", "stored", "kept"} /\ thumbTry \in 0..ThumbTries
  /\ thumbJob = "waiting" => thumbTry < ThumbTries
  /\ s3Errors \in 0..MaxS3Errors

(* What is quiet has one operation under way at most.                      *)
OneAtATime ==
  /\ \A e, f \in Editor : ~Idle(e) /\ ~Idle(f) => e = f
  /\ \A e \in Editor : ~Idle(e) => thumbJob \notin Working /\ ~sweeping
  /\ thumbJob \in Working => ~sweeping

(* What each request is in the middle of, when it is the only one.         *)
RequestFits(what) ==
  /\ what = "confirm" => file /\ asset = "PENDING_UPLOAD"
  /\ what = "enqueue" => file /\ video /\ asset = "PROCESSING" /\ thumbJob = "none"
  /\ what = "reenqueue" => video /\ asset = "PROCESSING"
  /\ what \in {"delete", "drop"} => There /\ post = "none"
  /\ what = "archive" => There /\ post # "draft"

(* The job, and the sweep, likewise; an upload that was not confirmed has  *)
(* neither job nor post.                                                   *)
JobsFit ==
  /\ thumbJob \in {"waiting", "read"} => video /\ asset \in {"PROCESSING", "FAILED"}
  /\ thumbJob = "read" => asset = "PROCESSING"
  /\ thumbJob = "stored" => file /\ asset = "READY"
  /\ sweeping => There /\ post # "draft"
  /\ asset \in {"none", "PENDING_UPLOAD"} => thumbJob = "none" /\ post = "none"

(* The operations are accounted for while they do not overlap.             *)
Accounted == OneAtATime /\ (\A e \in Editor : RequestFits(editing[e])) /\ JobsFit /\ LibraryAgrees
MediaInv == MediaTypes /\ (quiet => Accounted)

(* Initially there is no asset.                                            *)
LEMMA MediaInvInit == MediaInit => MediaInv
<1> SUFFICES ASSUME MediaInit PROVE MediaInv
  OBVIOUS
<1>1. MediaTypes
  <2>1. file \in BOOLEAN /\ sweeping \in BOOLEAN /\ quiet \in BOOLEAN
    BY DEF MediaInit
  <2> QED
    BY <2>1, MediaAssumption DEF MediaInit, MediaTypes, Statuses, Edits
<1> QED
  BY <1>1 DEF MediaInit, MediaInv, Accounted, OneAtATime, RequestFits, JobsFit, LibraryAgrees,
     ReadyHasFile, DraftKeepsItsMedia, ProcessingIsProcessed, Idle, Working

(* The types are kept by any step.                                         *)
LEMMA MediaTypesStep ==
  ASSUME MediaTypes, [MediaNext]_mediaVars
  PROVE  MediaTypes'
<1> USE MediaAssumption
<1>0. ASSUME S3Error PROVE s3Errors' \in 0..MaxS3Errors /\ quiet' \in BOOLEAN
  <2>1. s3Errors' \in 0..MaxS3Errors
    BY <1>0 DEF MediaTypes, S3Error
  <2>2. quiet' = FALSE
    BY <1>0 DEF S3Error
  <2> QED
    BY <2>1, <2>2
<1>1. ASSUME CreateUpload PROVE MediaTypes'
  BY <1>1 DEF CreateUpload, MediaTypes, Statuses
<1>2. ASSUME PutFile PROVE MediaTypes'
  BY <1>2 DEF PutFile, MediaTypes
<1>3. ASSUME AbortUpload PROVE MediaTypes'
  BY <1>3 DEF AbortUpload, MediaTypes, Statuses, Meets
<1>4. ASSUME DeleteUnused PROVE MediaTypes'
  BY <1>4 DEF DeleteUnused, MediaTypes, Statuses, Meets
<1>5. ASSUME Attach PROVE MediaTypes'
  BY <1>5 DEF Attach, MediaTypes, Meets
<1>6. ASSUME PostMoves PROVE MediaTypes'
  BY <1>6 DEF PostMoves, MediaTypes, Meets
<1>7. ASSUME ThumbTake PROVE MediaTypes'
  BY <1>7 DEF ThumbTake, MediaTypes, Statuses
<1>8. ASSUME ThumbStore PROVE MediaTypes'
  BY <1>0, <1>8 DEF ThumbStore, MediaTypes, Statuses
<1>9. ASSUME ThumbEnd PROVE MediaTypes'
  BY <1>9 DEF ThumbEnd, MediaTypes
<1>10. ASSUME Sweep PROVE MediaTypes'
  BY <1>10 DEF Sweep, MediaTypes, Statuses, Meets
<1>11. ASSUME SweepAsset PROVE MediaTypes'
  BY <1>0, <1>11 DEF SweepAsset, MediaTypes, Statuses
<1>12. ASSUME NEW e \in Editor, ConfirmUpload(e) PROVE MediaTypes'
  BY <1>12 DEF ConfirmUpload, MediaTypes, Statuses, Edits, Edit, Busy
<1>13. ASSUME NEW e \in Editor, StoreImage(e) PROVE MediaTypes'
  <2>1. file' \in BOOLEAN
    <3>1. file' = file \/ file' = TRUE
      BY <1>13 DEF StoreImage
    <3> QED
      BY <3>1 DEF MediaTypes
  <2>2. quiet' \in BOOLEAN /\ s3Errors' \in 0..MaxS3Errors
    BY <1>0, <1>13 DEF StoreImage, MediaTypes
  <2>3. asset' \in Statuses \cup {"none", "gone"} /\ editing' \in [Editor -> Edits]
    BY <1>13 DEF StoreImage, MediaTypes, Statuses, Edits, Edit
  <2> QED
    BY <1>13, <2>1, <2>2, <2>3 DEF StoreImage, MediaTypes
<1>14. ASSUME NEW e \in Editor, EnqueueThumbnail(e) PROVE MediaTypes'
  BY <1>0, <1>14 DEF EnqueueThumbnail, EnqueueWith, MediaTypes, Statuses, Edits, Edit
<1>15. ASSUME NEW e \in Editor, RegenerateThumbnail(e) PROVE MediaTypes'
  BY <1>15 DEF RegenerateThumbnail, MediaTypes, Statuses, Edits, Edit, Busy
<1>16. ASSUME NEW e \in Editor, StartDelete(e) PROVE MediaTypes'
  BY <1>16 DEF StartDelete, MediaTypes, Edits, Edit, Meets
<1>17. ASSUME NEW e \in Editor, StartArchive(e) PROVE MediaTypes'
  BY <1>17 DEF StartArchive, MediaTypes, Edits, Edit, Meets
<1>18. ASSUME NEW e \in Editor, DeleteFile(e) PROVE MediaTypes'
  <2>1. file' = FALSE /\ UNCHANGED <<video, post, thumbJob, thumbTry, sweeping>>
    BY <1>18 DEF DeleteFile
  <2>2. quiet' \in BOOLEAN /\ s3Errors' \in 0..MaxS3Errors
    BY <1>0, <1>18 DEF DeleteFile, MediaTypes
  <2>3. asset' \in {asset, "ARCHIVED"} /\ (Edit(e, "drop") \/ Edit(e, "idle"))
    BY <1>18 DEF DeleteFile
  <2>4. asset' \in Statuses \cup {"none", "gone"} /\ editing' \in [Editor -> Edits]
    BY <2>3 DEF MediaTypes, Statuses, Edits, Edit
  <2> QED
    BY <2>1, <2>2, <2>4 DEF MediaTypes
<1>19. ASSUME NEW e \in Editor, DropRow(e) PROVE MediaTypes'
  BY <1>19 DEF DropRow, MediaTypes, Statuses, Edits, Edit
<1>20. ASSUME UNCHANGED mediaVars PROVE MediaTypes'
  BY <1>20 DEF mediaVars, MediaTypes
<1> QED
  BY <1>1, <1>2, <1>3, <1>4, <1>5, <1>6, <1>7, <1>8, <1>9, <1>10, <1>11, <1>12, <1>13, <1>14,
     <1>15, <1>16, <1>17, <1>18, <1>19, <1>20 DEF MediaNext

(* A step of the one request there is, to what it does next.               *)
LEMMA EditKeeps ==
  ASSUME NEW e \in Editor, editing \in [Editor -> Edits], \A d \in Editor \ {e} : Idle(d),
         NEW what \in Edits, Edit(e, what), RequestFits(what)', ~sweeping', JobsFit',
         what # "idle" => thumbJob' \notin Working,
         asset' = "READY" /\ what = "idle" /\ thumbJob' \notin Working => file',
         post' = "draft" => file' /\ asset' \in {"READY", "PROCESSING"},
         asset' = "PROCESSING" => what # "idle" \/ thumbJob' \in Working
  PROVE  Accounted'
<1>1. editing'[e] = what /\ \A d \in Editor \ {e} : editing'[d] = "idle"
  BY DEF Edit, Idle
<1>2. OneAtATime'
  BY <1>1 DEF OneAtATime, Idle
<1>3. \A d \in Editor : RequestFits(editing[d])'
  BY <1>1 DEF RequestFits
<1>4. Busy' <=> what # "idle" \/ thumbJob' \in Working
  BY <1>1 DEF Busy, Working, Idle
<1>5. LibraryAgrees'
  BY <1>4 DEF LibraryAgrees, ReadyHasFile, DraftKeepsItsMedia, ProcessingIsProcessed
<1> QED
  BY <1>2, <1>3, <1>5 DEF Accounted

(* A step of the job, of the sweep, or of something that waits for nobody, *)
(* while there is no request.                                              *)
LEMMA JobKeeps ==
  ASSUME \A e \in Editor : Idle(e), UNCHANGED editing, JobsFit',
         thumbJob' \in Working => ~sweeping',
         asset' = "READY" /\ thumbJob' \notin Working /\ ~sweeping' => file',
         post' = "draft" => file' /\ asset' \in {"READY", "PROCESSING"},
         asset' = "PROCESSING" => thumbJob' \in Working \/ sweeping'
  PROVE  Accounted'
<1>1. OneAtATime' /\ \A e \in Editor : RequestFits(editing[e])'
  BY DEF OneAtATime, RequestFits, Idle
<1>2. Busy' <=> thumbJob' \in Working \/ sweeping'
  BY DEF Busy, Working, Idle
<1>3. LibraryAgrees'
  BY <1>2 DEF LibraryAgrees, ReadyHasFile, DraftKeepsItsMedia, ProcessingIsProcessed
<1> QED
  BY <1>1, <1>3 DEF Accounted

(* Who can be at work besides whom.                                        *)
LEMMA WhoIsAtWork ==
  ASSUME Accounted
  PROVE  /\ ~Busy => thumbJob \notin Working /\ ~sweeping /\ \A e \in Editor : Idle(e)
         /\ \A e \in Editor : ~Idle(e) => /\ thumbJob \notin Working /\ ~sweeping /\ RequestFits(editing[e])
                                         /\ \A d \in Editor \ {e} : Idle(d)
         /\ thumbJob \in Working => ~sweeping /\ \A e \in Editor : Idle(e)
         /\ sweeping => thumbJob \notin Working /\ \A e \in Editor : Idle(e)
BY DEF Accounted, OneAtATime, Busy, Working

(* One step per action, for a step after which all is still quiet.         *)
LEMMA MediaInvStep ==
  ASSUME MediaInv, [MediaNext]_mediaVars
  PROVE  MediaInv'
<1>0. /\ asset \in Statuses \cup {"none", "gone"} /\ editing \in [Editor -> Edits]
      /\ thumbJob \in {"none", "waiting", "read", "stored", "kept"}
      /\ post \in {"none", "draft", "published"}
  BY DEF MediaInv, MediaTypes
<1>a. ASSUME quiet
      PROVE  /\ Accounted /\ JobsFit /\ (post = "draft" => file /\ asset \in {"READY", "PROCESSING"})
             /\ asset = "READY" /\ ~Busy => file
             /\ asset = "PROCESSING" => Busy
  BY <1>a DEF MediaInv, Accounted, LibraryAgrees, ReadyHasFile, DraftKeepsItsMedia,
     ProcessingIsProcessed
<1>1. ASSUME CreateUpload, quiet' PROVE Accounted'
  <2>1. /\ asset = "none" /\ asset' = "PENDING_UPLOAD" /\ quiet
        /\ UNCHANGED <<video, file, post, editing, thumbJob, sweeping>>
    BY <1>1 DEF CreateUpload
  <2>2. \A e \in Editor : Idle(e)
    BY <1>0, <1>a, <2>1 DEF Accounted, RequestFits, Idle, There, Edits
  <2> QED
    BY <1>a, <2>1, <2>2, JobKeeps DEF JobsFit, There, Working
<1>2. ASSUME PutFile, quiet' PROVE Accounted'
  <2>1. /\ asset = "PENDING_UPLOAD" /\ file' /\ quiet
        /\ UNCHANGED <<asset, video, post, editing, thumbJob, sweeping>>
    BY <1>2 DEF PutFile
  <2>2. OneAtATime' /\ JobsFit' /\ (Busy' <=> Busy)
    BY <1>a, <2>1 DEF Accounted, OneAtATime, JobsFit, Busy, Idle, There
  <2>3. \A e \in Editor : RequestFits(editing[e])'
    BY <1>a, <2>1 DEF Accounted, RequestFits, There
  <2>4. LibraryAgrees'
    BY <1>a, <2>1, <2>2 DEF LibraryAgrees, ReadyHasFile, DraftKeepsItsMedia,
       ProcessingIsProcessed
  <2> QED
    BY <2>2, <2>3, <2>4 DEF Accounted
<1>3. ASSUME AbortUpload, quiet' PROVE Accounted'
  <2>1. quiet /\ ~Busy /\ UNCHANGED editing
    BY <1>3 DEF AbortUpload, Meets
  <2>2. thumbJob \notin Working /\ ~sweeping /\ \A e \in Editor : Idle(e)
    BY <1>a, <2>1, WhoIsAtWork
  <2>3. /\ JobsFit' /\ (thumbJob' \in Working => ~sweeping')
        /\ asset' = "READY" /\ thumbJob' \notin Working /\ ~sweeping' => file'
        /\ post' = "draft" => file' /\ asset' \in {"READY", "PROCESSING"}
        /\ asset' = "PROCESSING" => thumbJob' \in Working \/ sweeping'
    BY <1>0, <1>a, <1>3, <2>1, <2>2 DEF AbortUpload, JobsFit, There, Working, Statuses
  <2> QED
    BY <2>1, <2>2, <2>3, JobKeeps
<1>4. ASSUME DeleteUnused, quiet' PROVE Accounted'
  <2>1. quiet /\ ~Busy /\ UNCHANGED editing
    BY <1>4 DEF DeleteUnused, Meets
  <2>2. thumbJob \notin Working /\ ~sweeping /\ \A e \in Editor : Idle(e)
    BY <1>a, <2>1, WhoIsAtWork
  <2>3. /\ JobsFit' /\ (thumbJob' \in Working => ~sweeping')
        /\ asset' = "READY" /\ thumbJob' \notin Working /\ ~sweeping' => file'
        /\ post' = "draft" => file' /\ asset' \in {"READY", "PROCESSING"}
        /\ asset' = "PROCESSING" => thumbJob' \in Working \/ sweeping'
    BY <1>0, <1>a, <1>4, <2>1, <2>2 DEF DeleteUnused, JobsFit, There, Working, Statuses
  <2> QED
    BY <2>1, <2>2, <2>3, JobKeeps
<1>5. ASSUME Attach, quiet' PROVE Accounted'
  <2>1. quiet /\ ~Busy /\ UNCHANGED editing
    BY <1>5 DEF Attach, Meets
  <2>2. thumbJob \notin Working /\ ~sweeping /\ \A e \in Editor : Idle(e)
    BY <1>a, <2>1, WhoIsAtWork
  <2>3. /\ JobsFit' /\ (thumbJob' \in Working => ~sweeping')
        /\ asset' = "READY" /\ thumbJob' \notin Working /\ ~sweeping' => file'
        /\ post' = "draft" => file' /\ asset' \in {"READY", "PROCESSING"}
        /\ asset' = "PROCESSING" => thumbJob' \in Working \/ sweeping'
    BY <1>0, <1>a, <1>5, <2>1, <2>2 DEF Attach, JobsFit, There, Working, Statuses
  <2> QED
    BY <2>1, <2>2, <2>3, JobKeeps
<1>6. ASSUME PostMoves, quiet' PROVE Accounted'
  <2>1. quiet /\ ~Busy /\ UNCHANGED editing
    BY <1>6 DEF PostMoves, Meets
  <2>2. thumbJob \notin Working /\ ~sweeping /\ \A e \in Editor : Idle(e)
    BY <1>a, <2>1, WhoIsAtWork
  <2>3. /\ JobsFit' /\ (thumbJob' \in Working => ~sweeping')
        /\ asset' = "READY" /\ thumbJob' \notin Working /\ ~sweeping' => file'
        /\ post' = "draft" => file' /\ asset' \in {"READY", "PROCESSING"}
        /\ asset' = "PROCESSING" => thumbJob' \in Working \/ sweeping'
    BY <1>0, <1>a, <1>6, <2>1, <2>2 DEF PostMoves, JobsFit, There, Working, Statuses
  <2> QED
    BY <2>1, <2>2, <2>3, JobKeeps
<1>7. ASSUME ThumbTake, quiet' PROVE Accounted'
  <2>1. quiet /\ UNCHANGED editing
    BY <1>7 DEF ThumbTake, S3Error
  <2>2. thumbJob \in Working /\ ~sweeping /\ \A e \in Editor : Idle(e)
    BY <1>a, <1>7, <2>1, WhoIsAtWork DEF ThumbTake, Working
  <2>3. /\ JobsFit' /\ (thumbJob' \in Working => ~sweeping')
        /\ asset' = "READY" /\ thumbJob' \notin Working /\ ~sweeping' => file'
        /\ post' = "draft" => file' /\ asset' \in {"READY", "PROCESSING"}
        /\ asset' = "PROCESSING" => thumbJob' \in Working \/ sweeping'
    BY <1>0, <1>a, <1>7, <2>1, <2>2 DEF ThumbTake, S3Error, JobsFit, There, Working, Statuses
  <2> QED
    BY <2>1, <2>2, <2>3, JobKeeps
<1>8. ASSUME ThumbStore, quiet' PROVE Accounted'
  <2>1. quiet /\ UNCHANGED editing
    BY <1>8 DEF ThumbStore, S3Error
  <2>2. thumbJob \in Working /\ ~sweeping /\ \A e \in Editor : Idle(e)
    BY <1>a, <1>8, <2>1, WhoIsAtWork DEF ThumbStore, Working
  <2>3. /\ JobsFit' /\ (thumbJob' \in Working => ~sweeping')
        /\ asset' = "READY" /\ thumbJob' \notin Working /\ ~sweeping' => file'
        /\ post' = "draft" => file' /\ asset' \in {"READY", "PROCESSING"}
        /\ asset' = "PROCESSING" => thumbJob' \in Working \/ sweeping'
    BY <1>0, <1>a, <1>8, <2>1, <2>2 DEF ThumbStore, S3Error, JobsFit, There, Working, Statuses
  <2> QED
    BY <2>1, <2>2, <2>3, JobKeeps
<1>9. ASSUME ThumbEnd, quiet' PROVE Accounted'
  <2>1. quiet /\ UNCHANGED editing
    BY <1>9 DEF ThumbEnd, S3Error
  <2>2. thumbJob \in Working /\ ~sweeping /\ \A e \in Editor : Idle(e)
    BY <1>a, <1>9, <2>1, WhoIsAtWork DEF ThumbEnd, Working
  <2>3. /\ JobsFit' /\ (thumbJob' \in Working => ~sweeping')
        /\ asset' = "READY" /\ thumbJob' \notin Working /\ ~sweeping' => file'
        /\ post' = "draft" => file' /\ asset' \in {"READY", "PROCESSING"}
        /\ asset' = "PROCESSING" => thumbJob' \in Working \/ sweeping'
    BY <1>0, <1>a, <1>9, <2>1, <2>2 DEF ThumbEnd, S3Error, JobsFit, There, Working, Statuses
  <2> QED
    BY <2>1, <2>2, <2>3, JobKeeps
<1>10. ASSUME Sweep, quiet' PROVE Accounted'
  <2>1. quiet /\ ~Busy /\ UNCHANGED editing
    BY <1>10 DEF Sweep, Meets
  <2>2. thumbJob \notin Working /\ ~sweeping /\ \A e \in Editor : Idle(e)
    BY <1>a, <2>1, WhoIsAtWork
  <2>3. /\ JobsFit' /\ (thumbJob' \in Working => ~sweeping')
        /\ asset' = "READY" /\ thumbJob' \notin Working /\ ~sweeping' => file'
        /\ post' = "draft" => file' /\ asset' \in {"READY", "PROCESSING"}
        /\ asset' = "PROCESSING" => thumbJob' \in Working \/ sweeping'
    BY <1>0, <1>a, <1>10, <2>1, <2>2 DEF Sweep, JobsFit, There, Working, Statuses
  <2> QED
    BY <2>1, <2>2, <2>3, JobKeeps
<1>11. ASSUME SweepAsset, quiet' PROVE Accounted'
  <2>1. quiet /\ UNCHANGED editing
    BY <1>11 DEF SweepAsset, S3Error
  <2>2. thumbJob \notin Working /\ sweeping /\ \A e \in Editor : Idle(e)
    BY <1>a, <1>11, <2>1, WhoIsAtWork DEF SweepAsset, Working
  <2>3. /\ JobsFit' /\ (thumbJob' \in Working => ~sweeping')
        /\ asset' = "READY" /\ thumbJob' \notin Working /\ ~sweeping' => file'
        /\ post' = "draft" => file' /\ asset' \in {"READY", "PROCESSING"}
        /\ asset' = "PROCESSING" => thumbJob' \in Working \/ sweeping'
    BY <1>0, <1>a, <1>11, <2>1, <2>2 DEF SweepAsset, S3Error, JobsFit, There, Working, Statuses
  <2> QED
    BY <2>1, <2>2, <2>3, JobKeeps
<1>12. ASSUME NEW e \in Editor, ConfirmUpload(e), quiet' PROVE Accounted'
  <2>1. PICK what \in {"enqueue", "confirm"} :
          Edit(e, what) /\ (what = "enqueue" <=> video) /\ asset' = IF video THEN "PROCESSING" ELSE asset
    BY <1>12 DEF ConfirmUpload
  <2>2. quiet /\ ~Busy /\ UNCHANGED <<file, video, post, thumbJob, sweeping>>
    BY <1>12 DEF ConfirmUpload, Meets
  <2>3. thumbJob \notin Working /\ ~sweeping /\ \A d \in Editor : Idle(d)
    BY <1>a, <2>2, WhoIsAtWork
  <2>4. RequestFits(what)' /\ what \in Edits
    <3>1. asset = "PENDING_UPLOAD" /\ file /\ thumbJob = "none"
      BY <1>a, <1>12, <2>2 DEF ConfirmUpload, JobsFit
    <3>2. asset' = (IF what = "enqueue" THEN "PROCESSING" ELSE asset) /\ (what = "enqueue" => video)
      BY <2>1
    <3> QED
      BY <2>2, <3>1, <3>2 DEF RequestFits, Edits
  <2>5. /\ JobsFit' /\ what # "idle"
        /\ post' = "draft" => file' /\ asset' \in {"READY", "PROCESSING"}
    BY <1>0, <1>a, <1>12, <2>1, <2>2, <2>3 DEF ConfirmUpload, JobsFit, There, Working, Statuses
  <2> QED
    BY <1>0, <2>1, <2>2, <2>3, <2>4, <2>5, EditKeeps
<1>13. ASSUME NEW e \in Editor, StoreImage(e), quiet' PROVE Accounted'
  <2>1. quiet /\ ~Idle(e) /\ UNCHANGED sweeping
    BY <1>13 DEF StoreImage, S3Error, Idle
  <2>2. /\ thumbJob \notin Working /\ ~sweeping /\ RequestFits(editing[e])
        /\ \A d \in Editor \ {e} : Idle(d)
    BY <1>a, <2>1, WhoIsAtWork
  <2>3. PICK what \in {"idle"} : Edit(e, what) /\ (what # "idle" => editing[e] = "delete")
    BY <1>13 DEF StoreImage
  <2>4. JobsFit' /\ RequestFits(what)' /\ what \in Edits
    BY <1>0, <1>a, <1>13, <2>1, <2>2, <2>3 DEF StoreImage, S3Error, JobsFit, RequestFits,
       There, Working, Edits
  <2>5. /\ what # "idle" => thumbJob' \notin Working
        /\ asset' = "READY" /\ what = "idle" /\ thumbJob' \notin Working => file'
        /\ post' = "draft" => file' /\ asset' \in {"READY", "PROCESSING"}
        /\ asset' = "PROCESSING" => what # "idle" \/ thumbJob' \in Working
    BY <1>0, <1>a, <1>13, <2>1, <2>2, <2>3 DEF StoreImage, S3Error, RequestFits, JobsFit,
       There, Working
  <2> QED
    BY <1>0, <2>1, <2>2, <2>3, <2>4, <2>5, EditKeeps
<1>14. ASSUME NEW e \in Editor, EnqueueThumbnail(e), quiet' PROVE Accounted'
  <2>1. quiet /\ ~Idle(e) /\ UNCHANGED sweeping
    BY <1>14 DEF EnqueueThumbnail, EnqueueWith, S3Error, Idle
  <2>2. /\ thumbJob \notin Working /\ ~sweeping /\ RequestFits(editing[e])
        /\ \A d \in Editor \ {e} : Idle(d)
    BY <1>a, <2>1, WhoIsAtWork
  <2>3. PICK what \in {"idle"} : Edit(e, what) /\ (what # "idle" => editing[e] = "delete")
    BY <1>14 DEF EnqueueThumbnail, EnqueueWith
  <2>4. JobsFit' /\ RequestFits(what)' /\ what \in Edits
    BY <1>0, <1>a, <1>14, <2>1, <2>2, <2>3 DEF EnqueueThumbnail, EnqueueWith, S3Error, JobsFit,
       RequestFits, There, Working, Edits
  <2>5. /\ what # "idle" => thumbJob' \notin Working
        /\ asset' = "READY" /\ what = "idle" /\ thumbJob' \notin Working => file'
        /\ post' = "draft" => file' /\ asset' \in {"READY", "PROCESSING"}
        /\ asset' = "PROCESSING" => what # "idle" \/ thumbJob' \in Working
    BY <1>0, <1>a, <1>14, <2>1, <2>2, <2>3 DEF EnqueueThumbnail, EnqueueWith, S3Error,
       RequestFits, JobsFit, There, Working
  <2> QED
    BY <1>0, <2>1, <2>2, <2>3, <2>4, <2>5, EditKeeps
<1>15. ASSUME NEW e \in Editor, RegenerateThumbnail(e), quiet' PROVE Accounted'
  <2>1. PICK what \in {"reenqueue"} : Edit(e, what)
    BY <1>15 DEF RegenerateThumbnail
  <2>2. quiet /\ ~Busy /\ UNCHANGED <<file, video, post, thumbJob, sweeping>>
    BY <1>15 DEF RegenerateThumbnail, Meets
  <2>3. thumbJob \notin Working /\ ~sweeping /\ \A d \in Editor : Idle(d)
    BY <1>a, <2>2, WhoIsAtWork
  <2>4. RequestFits(what)' /\ what \in Edits
    BY <1>0, <1>a, <1>15, <2>1, <2>2, <2>3 DEF RegenerateThumbnail, RequestFits, Edits, Edit,
       There, Statuses, JobsFit
  <2>5. /\ JobsFit' /\ what # "idle"
        /\ post' = "draft" => file' /\ asset' \in {"READY", "PROCESSING"}
    BY <1>0, <1>a, <1>15, <2>1, <2>2, <2>3 DEF RegenerateThumbnail, JobsFit, There, Working,
       Statuses
  <2> QED
    BY <1>0, <2>1, <2>2, <2>3, <2>4, <2>5, EditKeeps
<1>16. ASSUME NEW e \in Editor, StartDelete(e), quiet' PROVE Accounted'
  <2>1. PICK what \in {"delete"} : Edit(e, what)
    BY <1>16 DEF StartDelete
  <2>2. quiet /\ ~Busy /\ UNCHANGED <<file, video, post, thumbJob, sweeping>>
    BY <1>16 DEF StartDelete, Meets
  <2>3. thumbJob \notin Working /\ ~sweeping /\ \A d \in Editor : Idle(d)
    BY <1>a, <2>2, WhoIsAtWork
  <2>4. RequestFits(what)' /\ what \in Edits
    BY <1>0, <1>a, <1>16, <2>1, <2>2, <2>3 DEF StartDelete, RequestFits, Edits, Edit, There,
       Statuses, JobsFit
  <2>5. /\ JobsFit' /\ what # "idle"
        /\ post' = "draft" => file' /\ asset' \in {"READY", "PROCESSING"}
    BY <1>0, <1>a, <1>16, <2>1, <2>2, <2>3 DEF StartDelete, JobsFit, There, Working, Statuses
  <2> QED
    BY <1>0, <2>1, <2>2, <2>3, <2>4, <2>5, EditKeeps
<1>17. ASSUME NEW e \in Editor, StartArchive(e), quiet' PROVE Accounted'
  <2>1. PICK what \in {"archive"} : Edit(e, what)
    BY <1>17 DEF StartArchive
  <2>2. quiet /\ ~Busy /\ UNCHANGED <<file, video, post, thumbJob, sweeping>>
    BY <1>17 DEF StartArchive, Meets
  <2>3. thumbJob \notin Working /\ ~sweeping /\ \A d \in Editor : Idle(d)
    BY <1>a, <2>2, WhoIsAtWork
  <2>4. RequestFits(what)' /\ what \in Edits
    BY <1>0, <1>a, <1>17, <2>1, <2>2, <2>3 DEF StartArchive, RequestFits, Edits, Edit, There,
       Statuses, JobsFit
  <2>5. /\ JobsFit' /\ what # "idle"
        /\ post' = "draft" => file' /\ asset' \in {"READY", "PROCESSING"}
    BY <1>0, <1>a, <1>17, <2>1, <2>2, <2>3 DEF StartArchive, JobsFit, There, Working, Statuses
  <2> QED
    BY <1>0, <2>1, <2>2, <2>3, <2>4, <2>5, EditKeeps
<1>18. ASSUME NEW e \in Editor, DeleteFile(e), quiet' PROVE Accounted'
  <2>1. quiet /\ ~Idle(e) /\ UNCHANGED sweeping
    BY <1>18 DEF DeleteFile, S3Error, Idle
  <2>2. /\ thumbJob \notin Working /\ ~sweeping /\ RequestFits(editing[e])
        /\ \A d \in Editor \ {e} : Idle(d)
    BY <1>a, <2>1, WhoIsAtWork
  <2>3. PICK what \in {"drop", "idle"} :
          /\ Edit(e, what) /\ (what # "idle" <=> editing[e] = "delete")
          /\ asset' = IF what = "idle" /\ There THEN "ARCHIVED" ELSE asset
    BY <1>18, <2>1 DEF DeleteFile, S3Error
  <2>4. JobsFit' /\ RequestFits(what)' /\ what \in Edits
    BY <1>0, <1>a, <1>18, <2>1, <2>2, <2>3 DEF DeleteFile, S3Error, JobsFit, RequestFits,
       There, Working, Edits
  <2>5. /\ what # "idle" => thumbJob' \notin Working
        /\ asset' = "READY" /\ what = "idle" /\ thumbJob' \notin Working => file'
        /\ post' = "draft" => file' /\ asset' \in {"READY", "PROCESSING"}
        /\ asset' = "PROCESSING" => what # "idle" \/ thumbJob' \in Working
    BY <1>0, <1>a, <1>18, <2>1, <2>2, <2>3 DEF DeleteFile, S3Error, RequestFits, JobsFit,
       There, Working
  <2> QED
    BY <1>0, <2>1, <2>2, <2>3, <2>4, <2>5, EditKeeps
<1>19. ASSUME NEW e \in Editor, DropRow(e), quiet' PROVE Accounted'
  <2>1. quiet /\ ~Idle(e) /\ UNCHANGED sweeping
    BY <1>19 DEF DropRow, S3Error, Idle
  <2>2. /\ thumbJob \notin Working /\ ~sweeping /\ RequestFits(editing[e])
        /\ \A d \in Editor \ {e} : Idle(d)
    BY <1>a, <2>1, WhoIsAtWork
  <2>3. PICK what \in {"idle"} : Edit(e, what) /\ (what # "idle" => editing[e] = "delete")
    BY <1>19 DEF DropRow
  <2>4. JobsFit' /\ RequestFits(what)' /\ what \in Edits
    BY <1>0, <1>a, <1>19, <2>1, <2>2, <2>3 DEF DropRow, S3Error, JobsFit, RequestFits, There,
       Working, Edits
  <2>5. /\ what # "idle" => thumbJob' \notin Working
        /\ asset' = "READY" /\ what = "idle" /\ thumbJob' \notin Working => file'
        /\ post' = "draft" => file' /\ asset' \in {"READY", "PROCESSING"}
        /\ asset' = "PROCESSING" => what # "idle" \/ thumbJob' \in Working
    BY <1>0, <1>a, <1>19, <2>1, <2>2, <2>3 DEF DropRow, S3Error, RequestFits, JobsFit, There,
       Working
  <2> QED
    BY <1>0, <2>1, <2>2, <2>3, <2>4, <2>5, EditKeeps
<1>20. ASSUME UNCHANGED mediaVars PROVE quiet' = quiet /\ (Accounted' <=> Accounted)
  BY <1>20 DEF mediaVars, Accounted, OneAtATime, RequestFits, JobsFit, LibraryAgrees,
     ReadyHasFile,
     DraftKeepsItsMedia, ProcessingIsProcessed, Idle, There, Busy
<1>21. ASSUME quiet' PROVE Accounted'
  BY <1>1, <1>2, <1>3, <1>4, <1>5, <1>6, <1>7, <1>8, <1>9, <1>10, <1>11, <1>12, <1>13, <1>14,
     <1>15,
     <1>16, <1>17, <1>18, <1>19, <1>20, <1>21 DEF MediaNext, MediaInv
<1> QED
  BY <1>21, MediaTypesStep DEF MediaInv

(* Hence it holds throughout.                                              *)
LEMMA MediaInvHolds == MediaSpec => []MediaInv
<1>1. MediaInit => MediaInv
  BY MediaInvInit
<1>2. MediaInv /\ [MediaNext]_mediaVars => MediaInv'
  BY MediaInvStep
<1> QED
  BY <1>1, <1>2, PTL DEF MediaSpec

(* MediaTypeOK, for every value of the constants.                          *)
THEOREM MediaTypesHold == MediaSpec => []MediaTypeOK
<1>1. MediaInv => MediaTypeOK
  <2> SUFFICES ASSUME MediaTypes PROVE MediaTypeOK
    BY DEF MediaInv
  <2>1. {video, file, sweeping, quiet} \subseteq BOOLEAN
    BY DEF MediaTypes
  <2> QED
    BY <2>1 DEF MediaTypes, MediaTypeOK
<1> QED
  BY <1>1, MediaInvHolds, PTL

(* LibraryAgrees, for every value of the constants: while operations do    *)
(* not overlap and the storage answers, an asset that is READY has its     *)
(* file, a draft keeps its media, and what is PROCESSING is being          *)
(* processed.                                                              *)
THEOREM LibraryHolds == MediaSpec => []LibraryAgrees
<1>1. MediaInv => LibraryAgrees
  BY DEF MediaInv, Accounted, LibraryAgrees, ReadyHasFile, DraftKeepsItsMedia,
     ProcessingIsProcessed
<1> QED
  BY <1>1, MediaInvHolds, PTL
-----------------------------------------------------------------------------
(* Import and sync, for any number of posts, syncs, attempts and mishaps.  *)
(* What a sync left behind is counted as failed at every step, in the row  *)
(* and in the memory of the worker.                                        *)

(* The posts that are recent enough to be imported.                        *)
Recent == {p \in Listed : p <= Cutoff}
(* The types of the counters, of what a worker knows, and of a job.        *)
Counters == [cursor : 0..(MaxListed - 1), scanned : Nat, failed : Nat]
Memories == [at : {"idle", "list", "import", "update", "create", "finish", "report"},
             page : SUBSET Listed, missing : SUBSET Listed,
             cursor : 0..(MaxListed - 1), scanned : Nat, failed : Nat]
SyncJobs == [state : ImportStates, tries : 0..ImportTries, stalled : BOOLEAN]

(* Each variable has its type.                                             *)
ImportTypes ==
  /\ asking \in [Importer -> {"no", "checked", "created", "done"}]
  /\ sync \in [Importer -> {"none", "QUEUED", "RUNNING"} \cup FinishedSync]
  /\ board \in [Importer -> {"none", "QUEUED", "RUNNING", "COMPLETED", "FAILED", "DEAD"}]
  /\ progress \in [Importer -> Counters] /\ importJob \in [Importer -> SyncJobs]
  /\ importing \in [Importer -> Memories]
  /\ kept \in SUBSET Listed /\ contents \in [Listed -> Nat] /\ importMishaps \in 0..MaxImportMishaps

(* Request, row, job and worker of one sync go together.                   *)
SyncFits(i) ==
  /\ asking[i] # "done" => importJob[i].state = "none"
  /\ asking[i] \in {"no", "checked"} => sync[i] = "none"
  /\ (importing[i].at # "idle") <=> (importJob[i].state = "running")
  /\ importing[i].at # "idle" => board[i] = "RUNNING"
  /\ importing[i].at \notin {"idle", "report"} => sync[i] = "RUNNING"
  /\ importJob[i].state \in {"none", "waiting"} => importJob[i].tries < ImportTries
  /\ importJob[i].state = "running" => importJob[i].tries > 0

(* The recent ones of the n newest posts that rows no row, but those that  *)
(* are still to be done.                                                   *)
Left(have, n, rest) == ({p \in Recent : p <= n} \ have) \ rest

(* What is left behind is counted as failed, in the row and in memory.     *)
LeftIsCounted(m, row, ended, have) ==
  /\ Cardinality(Left(have, row.cursor, {})) <= row.failed
  /\ m.at = "list" => Cardinality(Left(have, m.cursor, {})) <= m.failed
  /\ m.at \in {"import", "update", "create"} =>
       /\ Cardinality(Left(have, m.cursor + PageSize, m.missing)) <= m.failed
       /\ m.page = PageAfter(m.cursor)
  /\ m.at = "finish" \/ ended = "COMPLETED" => Cardinality(Recent \ have) <= row.failed

(* What is imported next is one of the page.                               *)
MissingFits(i) ==
  /\ importing[i].missing \subseteq importing[i].page
  /\ importing[i].at \in {"update", "create"} => importing[i].missing # {}
  /\ importing[i].at \notin {"import", "update", "create"} => importing[i].missing = {}
  /\ importing[i].at = "update" => Newest(i) \in kept

(* What is known of one sync.                                              *)
Fits(i) ==
  /\ SyncFits(i) /\ MissingFits(i)
  /\ LeftIsCounted(importing[i], progress[i], sync[i], kept)

(* The inductive invariant.                                                *)
ImportInv == ImportTypes /\ ContentsHaveRows /\ \A i \in Importer : Fits(i)

(* What the assumption on the constants says of the numbers.               *)
LEMMA ImportNumbers ==
  /\ MaxListed \in Nat \ {0} /\ PageSize \in Nat \ {0} /\ ImportTries \in Nat \ {0}
  /\ Cutoff \in 0..MaxListed /\ MaxImportMishaps \in Nat
BY ImportAssumption

(* A set of naturals has a least element: < is well-founded.               *)
LEMMA LeastExists ==
  ASSUME NEW S \in SUBSET Nat, S # {}
  PROVE  \E p \in S : \A q \in S : p <= q
<1> DEFINE R == OpToRel(<, Nat)
<1>1. IsWellFoundedOn(R, Nat)
  BY NatLessThanWellFounded
<1>2. \A x, y \in Nat : <<x, y>> \in R <=> x < y
  BY DEF OpToRel
<1> HIDE DEF R
<1>3. PICK p \in S : \A q \in S : ~(<<q, p>> \in R)
  BY <1>1, WFMin
<1>4. ASSUME NEW q \in S PROVE p <= q
  <2>1. p \in Nat /\ q \in Nat /\ ~(q < p)
    BY <1>2, <1>3
  <2> QED
    BY <2>1
<1> QED
  BY <1>4

(* Counting posts.                                                         *)
LEMMA PostsCount ==
  ASSUME NEW S \in SUBSET Listed, NEW T \in SUBSET Listed
  PROVE  /\ Cardinality(S) \in Nat /\ Cardinality(T) \in Nat
         /\ S \subseteq T => Cardinality(S) <= Cardinality(T)
         /\ \A p : S \subseteq T \cup {p} => Cardinality(S) <= Cardinality(T) + 1
<1>1. IsFiniteSet(Listed)
  BY ImportNumbers, FS_Interval DEF Listed
<1>2. IsFiniteSet(S) /\ IsFiniteSet(T)
  BY <1>1, FS_Subset
<1>3. Cardinality(S) \in Nat /\ Cardinality(T) \in Nat
  BY <1>2, FS_CardinalityType
<1>4. S \subseteq T => Cardinality(S) <= Cardinality(T)
  BY <1>2, FS_Subset
<1>5. ASSUME NEW p, S \subseteq T \cup {p} PROVE Cardinality(S) <= Cardinality(T) + 1
  <2>1. /\ IsFiniteSet(T \cup {p})
        /\ Cardinality(T \cup {p}) = IF p \in T THEN Cardinality(T) ELSE Cardinality(T) + 1
    BY <1>2, FS_AddElement
  <2>2. Cardinality(S) <= Cardinality(T \cup {p})
    BY <1>5, <2>1, FS_Subset
  <2> QED
    BY <1>3, <2>1, <2>2
<1> QED
  BY <1>3, <1>4, <1>5

(* What is left behind is a set of the platform's posts.                   *)
LEMMA LeftAreListed ==
  ASSUME NEW have, NEW n, NEW rest
  PROVE  Left(have, n, rest) \in SUBSET Listed /\ Recent \ have \in SUBSET Listed
BY DEF Left, Recent

(* A row more leaves no more behind.                                       *)
LEMMA RowsOnlyHelp ==
  ASSUME NEW have, NEW more, have \subseteq more, NEW m \in Memories, NEW row \in Counters, NEW ended,
         LeftIsCounted(m, row, ended, have)
  PROVE  LeftIsCounted(m, row, ended, more)
<1>1. ASSUME NEW n, NEW rest
      PROVE  /\ Cardinality(Left(more, n, rest)) \in Nat /\ Cardinality(Left(have, n, rest)) \in Nat
             /\ Cardinality(Left(more, n, rest)) <= Cardinality(Left(have, n, rest))
  <2>1. Left(more, n, rest) \subseteq Left(have, n, rest)
    BY DEF Left
  <2> QED
    BY <2>1, LeftAreListed, PostsCount
<1>2. /\ Cardinality(Recent \ more) \in Nat /\ Cardinality(Recent \ have) \in Nat
      /\ Cardinality(Recent \ more) <= Cardinality(Recent \ have)
  BY LeftAreListed, PostsCount
<1>3. row.failed \in Nat /\ m.failed \in Nat
  BY DEF Memories, Counters
<1> QED
  BY <1>1, <1>2, <1>3 DEF LeftIsCounted

(* While a post of the page is missing there is a newest one.              *)
LEMMA NewestIsMissing ==
  ASSUME ImportTypes, NEW i \in Importer, importing[i].missing # {}
  PROVE  Newest(i) \in importing[i].missing /\ Newest(i) \in Listed
<1> DEFINE S == importing[i].missing
<1>1. S \in SUBSET Listed /\ S \in SUBSET Nat
  BY ImportNumbers DEF ImportTypes, Memories, Listed
<1>2. \E p \in S : \A q \in S : p <= q
  BY <1>1, LeastExists
<1>3. Newest(i) \in S
  BY <1>2 DEF Newest
<1> QED
  BY <1>1, <1>3

(* A step of one sync leaves the others alone, but for the rows it makes.  *)
LEMMA OthersStay ==
  ASSUME ImportInv, NEW i \in Importer, kept \subseteq kept',
         NEW k \in Importer, k # i,
         asking'[k] = asking[k], sync'[k] = sync[k], progress'[k] = progress[k],
         importJob'[k] = importJob[k], importing'[k] = importing[k], board'[k] = board[k]
  PROVE  Fits(k)'
<1>1. Fits(k) /\ importing[k] \in Memories /\ progress[k] \in Counters
  BY DEF ImportInv, ImportTypes
<1>2. Newest(k)' = Newest(k)
  BY DEF Newest
<1>3. LeftIsCounted(importing[k], progress[k], sync[k], kept')
  BY <1>1, RowsOnlyHelp DEF Fits
<1> QED
  BY <1>1, <1>2, <1>3 DEF Fits, SyncFits, MissingFits

(* Before the first page nothing is left behind.                           *)
LEMMA NothingLeft ==
  /\ \A have : Cardinality(Left(have, 0, {})) = 0
  /\ Asleep \in Memories /\ NoProgress \in Counters
<1>1. ASSUME NEW have PROVE Left(have, 0, {}) = {}
  BY ImportNumbers DEF Left, Recent, Listed
<1>2. Asleep \in Memories /\ NoProgress \in Counters
  BY ImportNumbers DEF Asleep, Memories, NoProgress, Counters
<1> QED
  BY <1>1, <1>2, FS_EmptySet

(* Initially no sync has been asked for.                                   *)
LEMMA ImportInvInit == ImportInit => ImportInv
<1> SUFFICES ASSUME ImportInit PROVE ImportInv
  OBVIOUS
<1>1. ImportTypes
  <2>1. [state |-> "none", tries |-> 0, stalled |-> FALSE] \in SyncJobs
    BY ImportNumbers DEF SyncJobs, ImportStates
  <2> QED
    BY <2>1, NothingLeft, ImportNumbers DEF ImportInit, ImportTypes
<1>2. ContentsHaveRows
  BY DEF ImportInit, ContentsHaveRows
<1>3. ASSUME NEW i \in Importer PROVE Fits(i)
  <2>1. LeftIsCounted(importing[i], progress[i], sync[i], kept)
    BY NothingLeft DEF ImportInit, LeftIsCounted, Asleep, NoProgress
  <2> QED
    BY <2>1, ImportNumbers DEF ImportInit, Fits, SyncFits, MissingFits, Asleep
<1> QED
  BY <1>1, <1>2, <1>3 DEF ImportInv

(* One step per action.                                                    *)
LEMMA ImportInvStep ==
  ASSUME ImportInv, [ImportNext]_importVars
  PROVE  ImportInv'
<1>0. ImportTypes /\ ContentsHaveRows
  BY DEF ImportInv
<1>i. ASSUME NEW i \in Importer
      PROVE  /\ SyncFits(i) /\ MissingFits(i) /\ LeftIsCounted(importing[i], progress[i], sync[i], kept)
             /\ importing[i] \in Memories /\ progress[i] \in Counters /\ importJob[i] \in SyncJobs
  BY DEF ImportInv, ImportTypes, Fits
<1>1. ASSUME NEW i \in Importer, TriggerCheck(i) PROVE ImportInv'
  <2>1. ImportTypes' /\ ContentsHaveRows'
    BY <1>0, <1>1 DEF TriggerCheck, ImportTypes, ContentsHaveRows
  <2>2. Fits(i)'
    BY <1>0, <1>i, <1>1 DEF TriggerCheck, ImportTypes, Fits, SyncFits, MissingFits, Newest
  <2>3. ASSUME NEW k \in Importer, k # i PROVE Fits(k)'
    BY <1>0, <1>1, <2>3, OthersStay DEF TriggerCheck, ImportTypes
  <2> QED
    BY <2>1, <2>2, <2>3 DEF ImportInv
<1>2. ASSUME NEW i \in Importer, TriggerCreate(i) PROVE ImportInv'
  <2>1. ImportTypes' /\ ContentsHaveRows'
    BY <1>0, <1>2 DEF TriggerCreate, ImportTypes, ContentsHaveRows
  <2>2. Fits(i)'
    BY <1>0, <1>i, <1>2 DEF TriggerCreate, ImportTypes, Fits, SyncFits, MissingFits, Newest,
       LeftIsCounted
  <2>3. ASSUME NEW k \in Importer, k # i PROVE Fits(k)'
    BY <1>0, <1>2, <2>3, OthersStay DEF TriggerCreate, ImportTypes
  <2> QED
    BY <2>1, <2>2, <2>3 DEF ImportInv
<1>3. ASSUME NEW i \in Importer, TriggerQueue(i) PROVE ImportInv'
  <2>1. /\ asking[i] = "created" /\ asking' = [asking EXCEPT ![i] = "done"]
        /\ UNCHANGED <<sync, progress, importing, board, kept, contents>>
        /\ importJob' = importJob \/ importJob' = [importJob EXCEPT ![i].state = "waiting"]
        /\ importMishaps' \in 0..MaxImportMishaps
    BY <1>0, <1>3, ImportNumbers DEF TriggerQueue, ImportMishap, ImportTypes
  <2>2. /\ importJob' \in [Importer -> SyncJobs] /\ importJob'[i].tries = importJob[i].tries
        /\ importJob'[i].state \in {"none", "waiting"} /\ importJob[i].state = "none"
    <3>1. importJob[i].state = "none"
      BY <1>i, <2>1 DEF SyncFits
    <3>2. CASE importJob' = importJob
      BY <1>0, <3>1, <3>2 DEF ImportTypes
    <3>3. CASE importJob' = [importJob EXCEPT ![i].state = "waiting"]
      BY <1>0, <1>i, <3>1, <3>3 DEF ImportTypes, SyncJobs, ImportStates
    <3> QED
      BY <2>1, <3>2, <3>3
  <2>3. ImportTypes' /\ ContentsHaveRows'
    BY <1>0, <2>1, <2>2 DEF ImportTypes, ContentsHaveRows
  <2>4. Fits(i)'
    BY <1>0, <1>i, <2>1, <2>2 DEF ImportTypes, Fits, SyncFits, MissingFits, Newest
  <2>5. ASSUME NEW k \in Importer, k # i PROVE Fits(k)'
    BY <1>0, <2>1, <2>5, OthersStay DEF ImportTypes
  <2> QED
    BY <2>3, <2>4, <2>5 DEF ImportInv
<1>4. ASSUME NEW i \in Importer, TakeSync(i) PROVE ImportInv'
  <2>1. importJob[i].state = "waiting" /\ UNCHANGED <<asking, progress, kept, contents, importMishaps>>
    BY <1>4 DEF TakeSync
  <2>2. importing[i].at = "idle" /\ asking[i] = "done" /\ importJob[i].tries < ImportTries
    BY <1>i, <2>1 DEF SyncFits
  <2>3. CASE sync[i] \in FinishedSync
    <3> DEFINE j == [importJob[i] EXCEPT !.state = "done"]
    <3>1. importJob' = [importJob EXCEPT ![i] = j] /\ UNCHANGED <<board, sync, importing>>
      BY <1>0, <1>4, <2>3 DEF TakeSync, ImportTypes
    <3>2. j \in SyncJobs /\ j.state = "done"
      BY <1>i DEF SyncJobs, ImportStates
    <3> HIDE DEF j
    <3>3. ImportTypes' /\ ContentsHaveRows'
      BY <1>0, <2>1, <3>1, <3>2 DEF ImportTypes, ContentsHaveRows
    <3>4. Fits(i)'
      BY <1>0, <1>i, <2>1, <2>2, <3>1, <3>2 DEF ImportTypes, Fits, SyncFits, MissingFits, Newest
    <3>5. ASSUME NEW k \in Importer, k # i PROVE Fits(k)'
      BY <1>0, <2>1, <3>1, <3>5, OthersStay DEF ImportTypes
    <3> QED
      BY <3>3, <3>4, <3>5 DEF ImportInv
  <2>4. CASE sync[i] \notin FinishedSync
    <3> DEFINE j == [importJob[i] EXCEPT !.state = "running", !.tries = @ + 1]
               m == [Asleep EXCEPT !.at = "list", !.cursor = progress[i].cursor,
                                   !.scanned = progress[i].scanned, !.failed = progress[i].failed]
    <3>1. /\ importJob' = [importJob EXCEPT ![i] = j] /\ importing' = [importing EXCEPT ![i] = m]
          /\ board' = [board EXCEPT ![i] = "RUNNING"] /\ sync' = [sync EXCEPT ![i] = "RUNNING"]
      BY <1>0, <1>4, <2>4 DEF TakeSync, ImportTypes
    <3>2. j \in SyncJobs /\ j.state = "running" /\ j.tries > 0
      <4>1. importJob[i].tries + 1 \in 0..ImportTries /\ importJob[i].tries + 1 > 0
        BY <1>i, <2>2, ImportNumbers DEF SyncJobs
      <4> QED
        BY <1>i, <4>1 DEF SyncJobs, ImportStates
    <3>3. /\ m \in Memories /\ m.at = "list" /\ m.cursor = progress[i].cursor
          /\ m.failed = progress[i].failed /\ m.missing = {} /\ m.page = {}
      BY <1>i, NothingLeft DEF Memories, Counters, Asleep
    <3> HIDE DEF j, m
    <3>4. ImportTypes' /\ ContentsHaveRows'
      BY <1>0, <2>1, <3>1, <3>2, <3>3 DEF ImportTypes, ContentsHaveRows
    <3>5. LeftIsCounted(m, progress[i], "RUNNING", kept)
      BY <1>i, <3>3 DEF LeftIsCounted
    <3>6. Fits(i)'
      BY <1>0, <2>1, <2>2, <3>1, <3>2, <3>3, <3>5 DEF ImportTypes, Fits, SyncFits, MissingFits
    <3>7. ASSUME NEW k \in Importer, k # i PROVE Fits(k)'
      BY <1>0, <2>1, <3>1, <3>7, OthersStay DEF ImportTypes
    <3> QED
      BY <3>4, <3>6, <3>7 DEF ImportInv
  <2> QED
    BY <2>3, <2>4
<1>5. ASSUME NEW i \in Importer, ListPage(i) PROVE ImportInv'
  <2> DEFINE c == importing[i].cursor
             newPage == PageAfter(c)
             todo == {p \in newPage : p <= Cutoff}
             sum == importing[i].scanned + Cardinality(todo)
             m == [importing[i] EXCEPT !.at = "import", !.page = newPage, !.missing = todo, !.scanned = sum]
  <2>1. /\ importing[i].at = "list" /\ importing' = [importing EXCEPT ![i] = m]
        /\ UNCHANGED <<asking, sync, progress, importJob, board, kept, contents, importMishaps>>
    BY <1>0, <1>5 DEF ListPage, ImportTypes
  <2>2. newPage \in SUBSET Listed /\ todo \in SUBSET Listed
    BY DEF PageAfter
  <2>3. sum \in Nat
    BY <1>i, <2>2, PostsCount DEF Memories
  <2>p. newPage = PageAfter(c) /\ todo = {p \in newPage : p <= Cutoff}
    OBVIOUS
  <2> HIDE DEF newPage, todo, sum
  <2>4. /\ m \in Memories /\ m.at = "import" /\ m.page = newPage /\ m.cursor = c
        /\ m.missing = todo /\ m.failed = importing[i].failed
    BY <1>i, <2>2, <2>3 DEF Memories
  <2> HIDE DEF m
  <2>5. ImportTypes' /\ ContentsHaveRows'
    BY <1>0, <2>1, <2>4 DEF ImportTypes, ContentsHaveRows
  <2>6. Cardinality(Left(kept, c + PageSize, m.missing)) <= m.failed
    <3>1. c \in Nat
      BY <1>i, ImportNumbers DEF Memories
    <3>2. Left(kept, c + PageSize, m.missing) \subseteq Left(kept, c, {})
      BY <2>4, <2>p, <3>1, ImportNumbers DEF Left, Recent, PageAfter, Listed
    <3>3. Cardinality(Left(kept, c, {})) <= m.failed
      BY <1>i, <2>1, <2>4 DEF LeftIsCounted
    <3>4. m.failed \in Nat
      BY <2>4 DEF Memories
    <3> QED
      BY <3>2, <3>3, <3>4, LeftAreListed, PostsCount
  <2>7. LeftIsCounted(m, progress[i], sync[i], kept)
    BY <1>i, <2>1, <2>4, <2>6, <2>p DEF LeftIsCounted
  <2>8. Fits(i)'
    BY <1>0, <1>i, <2>1, <2>4, <2>7, <2>p DEF ImportTypes, Fits, SyncFits, MissingFits
  <2>9. ASSUME NEW k \in Importer, k # i PROVE Fits(k)'
    BY <1>0, <2>1, <2>9, OthersStay DEF ImportTypes
  <2> QED
    BY <2>5, <2>8, <2>9 DEF ImportInv
<1>6. ASSUME NEW i \in Importer, LookUp(i) PROVE ImportInv'
  <2> DEFINE to == IF Newest(i) \in kept THEN "update" ELSE "create"
             m == [importing[i] EXCEPT !.at = to]
  <2>1. /\ importing[i].at = "import" /\ importing[i].missing # {}
        /\ importing' = [importing EXCEPT ![i] = m]
        /\ UNCHANGED <<asking, sync, progress, importJob, board, kept, contents, importMishaps>>
    BY <1>0, <1>6 DEF LookUp, Step, ImportTypes
  <2>2. m \in Memories /\ m.at \in {"update", "create"}
    BY <1>i DEF Memories
  <2>3. /\ m.page = importing[i].page /\ m.cursor = importing[i].cursor
        /\ m.missing = importing[i].missing /\ m.failed = importing[i].failed
    BY <1>i DEF Memories
  <2>4. m.at = "update" => Newest(i) \in kept
    BY <1>i DEF Memories
  <2> HIDE DEF m
  <2>5. ImportTypes' /\ ContentsHaveRows'
    BY <1>0, <2>1, <2>2 DEF ImportTypes, ContentsHaveRows
  <2>6. LeftIsCounted(m, progress[i], sync[i], kept)
    BY <1>i, <2>1, <2>2, <2>3 DEF LeftIsCounted
  <2>7. importing'[i] = m /\ Newest(i)' = Newest(i)
    BY <1>0, <2>1, <2>3 DEF ImportTypes, Newest
  <2>8. Fits(i)'
    BY <1>i, <2>1, <2>2, <2>3, <2>4, <2>6, <2>7 DEF Fits, SyncFits, MissingFits
  <2>9. ASSUME NEW k \in Importer, k # i PROVE Fits(k)'
    BY <1>0, <2>1, <2>9, OthersStay DEF ImportTypes
  <2> QED
    BY <2>5, <2>8, <2>9 DEF ImportInv
<1>7. ASSUME NEW i \in Importer, Import(i) PROVE ImportInv'
  <2> DEFINE p == Newest(i)
             m == importing[i]
  <2>1. /\ m.at \in {"update", "create"} /\ UNCHANGED <<asking, sync, progress, importJob, board>>
    BY <1>7 DEF Import
  <2>2. p \in m.missing /\ p \in Listed /\ m.missing # {}
    BY <1>0, <1>i, <2>1, NewestIsMissing DEF MissingFits
  <2>3. PICK error \in BOOLEAN :
          /\ Counted(i, error) /\ importMishaps' \in 0..MaxImportMishaps
          /\ IF error THEN UNCHANGED <<kept, contents>>
             ELSE /\ m.at = "update" \/ p \notin kept
                  /\ kept' = kept \cup {p}
                  /\ contents' = [contents EXCEPT ![p] = IF m.at = "create" THEN @ + 1 ELSE @]
    <3>1. CASE /\ m.at = "update" \/ p \notin kept
               /\ Counted(i, FALSE) /\ kept' = kept \cup {p}
               /\ contents' = [contents EXCEPT ![p] = IF m.at = "create" THEN @ + 1 ELSE @]
               /\ UNCHANGED importMishaps
      BY <1>0, <3>1 DEF ImportTypes
    <3>2. CASE Counted(i, TRUE) /\ UNCHANGED <<kept, contents, importMishaps>>
      BY <1>0, <3>2 DEF ImportTypes
    <3>3. CASE ImportMishap /\ Counted(i, TRUE) /\ UNCHANGED <<kept, contents>>
      <4>1. importMishaps' \in 0..MaxImportMishaps
        BY <1>0, <3>3, ImportNumbers DEF ImportTypes, ImportMishap
      <4> QED
        BY <3>3, <4>1
    <3> QED
      BY <1>7, <3>1, <3>2, <3>3 DEF Import
  <2> DEFINE left == m.missing \ {p}
             more == IF error THEN m.failed + 1 ELSE m.failed
             n == [m EXCEPT !.at = "import", !.missing = left, !.failed = more]
  <2>4. m.failed \in Nat /\ m.missing \in SUBSET Listed /\ left \in SUBSET Listed /\ more \in Nat
    BY <1>i DEF Memories
  <2>6. importing' = [importing EXCEPT ![i] = n]
    BY <1>0, <2>3 DEF Counted, ImportTypes
  <2>m. left = m.missing \ {p} /\ more = IF error THEN m.failed + 1 ELSE m.failed
    OBVIOUS
  <2> HIDE DEF left, more
  <2>5. /\ n \in Memories /\ n.at = "import" /\ n.page = m.page /\ n.cursor = m.cursor
        /\ n.missing = left /\ n.failed = more
    BY <1>i, <2>4 DEF Memories
  <2> HIDE DEF n
  <2>7. /\ kept \subseteq kept' /\ kept' \in SUBSET Listed
        /\ ~error => p \in kept'
    BY <1>0, <2>2, <2>3 DEF ImportTypes
  <2>8. contents' \in [Listed -> Nat] /\ ContentsHaveRows'
    <3>1. CASE error
      BY <1>0, <2>3, <3>1 DEF ContentsHaveRows, ImportTypes
    <3>2. CASE ~error
      <4>1. /\ m.at = "update" => p \in kept
            /\ m.at = "create" => p \notin kept
        BY <1>i, <2>1, <2>3, <3>2 DEF MissingFits
      <4>2. /\ contents' = [contents EXCEPT ![p] = IF m.at = "create" THEN @ + 1 ELSE @]
            /\ kept' = kept \cup {p}
        BY <2>3, <3>2
      <4>3. contents[p] \in Nat /\ contents[p] = IF p \in kept THEN 1 ELSE 0
        BY <1>0, <2>2 DEF ContentsHaveRows, ImportTypes
      <4>4. contents' \in [Listed -> Nat] /\ contents'[p] = 1
            /\ \A q \in Listed \ {p} : contents'[q] = contents[q]
        BY <1>0, <2>1, <2>2, <4>1, <4>2, <4>3 DEF ImportTypes
      <4> QED
        BY <1>0, <4>2, <4>4 DEF ContentsHaveRows
    <3> QED
      BY <3>1, <3>2
  <2>9. ImportTypes'
    BY <1>0, <2>1, <2>3, <2>5, <2>6, <2>7, <2>8 DEF ImportTypes
  <2>10. LeftIsCounted(n, progress[i], sync[i], kept')
    <3>1. LeftIsCounted(m, progress[i], sync[i], kept')
      BY <1>i, <2>7, RowsOnlyHelp
    <3> DEFINE before == Left(kept', m.cursor + PageSize, m.missing)
               after == Left(kept', m.cursor + PageSize, n.missing)
    <3>2. after \subseteq before \cup {p} /\ (~error => after \subseteq before)
      BY <2>2, <2>5, <2>7, <2>m DEF Left
    <3>3. /\ Cardinality(before) \in Nat /\ Cardinality(after) \in Nat
          /\ Cardinality(after) <= Cardinality(before) + 1
          /\ ~error => Cardinality(after) <= Cardinality(before)
      BY <3>2, LeftAreListed, PostsCount
    <3>4. Cardinality(before) <= m.failed /\ m.page = PageAfter(m.cursor)
      BY <2>1, <3>1 DEF LeftIsCounted
    <3> HIDE DEF before
    <3>5. Cardinality(after) <= n.failed
      BY <2>4, <2>5, <2>m, <3>3, <3>4
    <3> QED
      BY <2>5, <3>1, <3>4, <3>5 DEF LeftIsCounted
  <2>11. Fits(i)'
    BY <1>0, <1>i, <2>1, <2>5, <2>6, <2>10, <2>m DEF ImportTypes, Fits, SyncFits, MissingFits
  <2>12. ASSUME NEW k \in Importer, k # i PROVE Fits(k)'
    BY <1>0, <2>1, <2>6, <2>7, <2>12, OthersStay DEF ImportTypes
  <2> QED
    BY <2>8, <2>9, <2>11, <2>12 DEF ImportInv
<1>8. ASSUME NEW i \in Importer, StoreProgress(i) PROVE ImportInv'
  <2> DEFINE m == importing[i]
             end == m.cursor + PageSize
             next == IF end < MaxListed THEN end ELSE 0
             row == [cursor |-> next, scanned |-> m.scanned, failed |-> m.failed]
             to == IF next # 0 /\ \A p \in m.page : p <= Cutoff THEN "list" ELSE "finish"
             n == [m EXCEPT !.at = to, !.cursor = next, !.page = {}]
  <2>1. /\ m.at = "import" /\ m.missing = {} /\ progress' = [progress EXCEPT ![i] = row]
        /\ importing' = [importing EXCEPT ![i] = n]
        /\ UNCHANGED <<asking, sync, importJob, board, kept, contents, importMishaps>>
    BY <1>0, <1>8 DEF StoreProgress, ImportTypes
  <2>2. m.cursor \in Nat /\ m.failed \in Nat /\ m.scanned \in Nat /\ end \in Nat \ {0}
    BY <1>i, ImportNumbers DEF Memories
  <2>3. next \in 0..(MaxListed - 1) /\ to \in {"list", "finish"}
    BY <2>2, ImportNumbers
  <2>4. row \in Counters /\ row.cursor = next /\ row.failed = m.failed
    BY <2>2, <2>3 DEF Counters
  <2>5. /\ next = end \/ (next = 0 /\ MaxListed <= end)
        /\ to = "list" <=> next # 0 /\ \A p \in m.page : p <= Cutoff
    BY <2>2, ImportNumbers
  <2> HIDE DEF next, to, row
  <2>6. /\ n \in Memories /\ n.at = to /\ n.cursor = next /\ n.page = {} /\ n.missing = {}
        /\ n.failed = m.failed
    BY <1>i, <2>1, <2>3 DEF Memories
  <2> HIDE DEF n, end
  <2>7. ImportTypes' /\ ContentsHaveRows'
    BY <1>0, <2>1, <2>4, <2>6 DEF ImportTypes, ContentsHaveRows
  <2>8. Cardinality(Left(kept, end, {})) <= m.failed /\ m.page = PageAfter(m.cursor)
    BY <1>i, <2>1 DEF LeftIsCounted, end
  <2>9. Cardinality(Left(kept, next, {})) <= m.failed
    <3>1. Cardinality(Left(kept, 0, {})) = 0
      BY NothingLeft
    <3> QED
      BY <2>2, <2>5, <2>8, <3>1
  <2>10. to = "finish" => Cardinality(Recent \ kept) <= m.failed
    <3>1. ASSUME to = "finish" PROVE Recent \ kept \subseteq Left(kept, end, {})
      <4>1. CASE next = 0
        BY <2>2, <2>5, <4>1, ImportNumbers DEF Left, Recent, Listed
      <4>2. CASE \E p \in m.page : ~(p <= Cutoff)
        <5>1. PICK p \in Listed : p <= end /\ ~(p <= Cutoff)
          BY <2>8, <4>2 DEF PageAfter, end
        <5> QED
          BY <2>2, <5>1, ImportNumbers DEF Left, Recent, Listed
      <4> QED
        BY <2>5, <3>1, <4>1, <4>2
    <3>2. /\ Cardinality(Recent \ kept) \in Nat /\ Cardinality(Left(kept, end, {})) \in Nat
          /\ (Recent \ kept) \subseteq Left(kept, end, {}) =>
                Cardinality(Recent \ kept) <= Cardinality(Left(kept, end, {}))
      BY LeftAreListed, PostsCount
    <3> QED
      BY <2>2, <2>8, <3>1, <3>2
  <2>11. LeftIsCounted(n, row, sync[i], kept)
    <3>1. sync[i] = "RUNNING"
      BY <1>i, <2>1 DEF SyncFits
    <3> QED
      BY <2>3, <2>4, <2>6, <2>9, <2>10, <3>1 DEF LeftIsCounted
  <2>12. Fits(i)'
    BY <1>0, <1>i, <2>1, <2>3, <2>6, <2>11 DEF ImportTypes, Fits, SyncFits, MissingFits
  <2>13. ASSUME NEW k \in Importer, k # i PROVE Fits(k)'
    BY <1>0, <2>1, <2>13, OthersStay DEF ImportTypes
  <2> QED
    BY <2>7, <2>12, <2>13 DEF ImportInv
<1>9. ASSUME NEW i \in Importer, FinishSync(i) PROVE ImportInv'
  <2> DEFINE n == [importing[i] EXCEPT !.at = "report"]
  <2>1. /\ importing[i].at = "finish" /\ importing' = [importing EXCEPT ![i] = n]
        /\ sync' = [sync EXCEPT ![i] = "COMPLETED"]
        /\ UNCHANGED <<asking, progress, importJob, board, kept, contents, importMishaps>>
    BY <1>0, <1>9 DEF FinishSync, Step, ImportTypes
  <2>2. /\ n \in Memories /\ n.at = "report" /\ n.page = importing[i].page
        /\ n.missing = importing[i].missing
    BY <1>i DEF Memories
  <2> HIDE DEF n
  <2>3. ImportTypes' /\ ContentsHaveRows'
    BY <1>0, <2>1, <2>2 DEF ImportTypes, ContentsHaveRows, FinishedSync
  <2>4. LeftIsCounted(n, progress[i], "COMPLETED", kept)
    BY <1>i, <2>1, <2>2 DEF LeftIsCounted
  <2>5. Fits(i)'
    BY <1>0, <1>i, <2>1, <2>2, <2>4 DEF ImportTypes, Fits, SyncFits, MissingFits
  <2>6. ASSUME NEW k \in Importer, k # i PROVE Fits(k)'
    BY <1>0, <2>1, <2>6, OthersStay DEF ImportTypes
  <2> QED
    BY <2>3, <2>5, <2>6 DEF ImportInv
<1>10. ASSUME NEW i \in Importer, ReportSync(i) \/ FailSync(i) \/ SyncerDies(i) PROVE ImportInv'
  <2>1. /\ importing[i].at # "idle" /\ importing' = [importing EXCEPT ![i] = Asleep]
        /\ UNCHANGED <<asking, progress, kept, contents>>
    BY <1>10 DEF ReportSync, FailSync, SyncerDies
  <2>2. /\ importJob[i].state = "running" /\ importJob[i].tries > 0 /\ asking[i] = "done"
        /\ importJob[i].tries \in 0..ImportTries
    BY <1>i, <2>1 DEF SyncFits, SyncJobs
  <2>3. importMishaps' \in 0..MaxImportMishaps
    BY <1>0, <1>10, ImportNumbers DEF ReportSync, FailSync, SyncerDies, ImportMishap,
       ImportTypes
  <2>4. PICK b \in {"RUNNING", "COMPLETED", "FAILED", "DEAD"} : board' = [board EXCEPT ![i] = b]
    <3>1. CASE ReportSync(i)
      BY <3>1 DEF ReportSync
    <3>2. CASE FailSync(i)
      BY <3>2 DEF FailSync
    <3>3. CASE SyncerDies(i)
      <4>1. board[i] = "RUNNING"
        BY <1>i, <2>1 DEF SyncFits
      <4> QED
        BY <1>0, <3>3, <4>1 DEF SyncerDies, ImportTypes
    <3> QED
      BY <1>10, <3>1, <3>2, <3>3
  <2>5. PICK s \in {sync[i], "FAILED"} : sync' = [sync EXCEPT ![i] = s]
    <3>1. CASE ReportSync(i) \/ SyncerDies(i)
      BY <1>0, <3>1 DEF ReportSync, SyncerDies, ImportTypes
    <3>2. CASE FailSync(i)
      BY <3>2 DEF FailSync
    <3> QED
      BY <1>10, <3>1, <3>2
  <2>6. PICK j \in SyncJobs : /\ importJob' = [importJob EXCEPT ![i] = j]
                              /\ j.state \in {"done", "dead", "waiting"}
                              /\ j.state = "waiting" => j.tries < ImportTries
    <3>1. CASE ReportSync(i)
      <4> DEFINE j == [importJob[i] EXCEPT !.state = "done"]
      <4>1. j \in SyncJobs /\ j.state = "done"
        BY <1>i DEF SyncJobs, ImportStates
      <4>2. importJob' = [importJob EXCEPT ![i] = j]
        BY <1>0, <3>1 DEF ReportSync, ImportTypes
      <4> HIDE DEF j
      <4> QED
        BY <4>1, <4>2
    <3>2. CASE FailSync(i)
      <4> DEFINE to == IF importJob[i].tries = ImportTries THEN "dead" ELSE "waiting"
                 j == [importJob[i] EXCEPT !.state = to]
      <4>1. j \in SyncJobs /\ j.state = to /\ j.tries = importJob[i].tries
        BY <1>i DEF SyncJobs, ImportStates
      <4>2. importJob' = [importJob EXCEPT ![i] = j]
        BY <1>0, <3>2 DEF FailSync, ImportTypes
      <4>3. to \in {"dead", "waiting"} /\ (to = "waiting" => importJob[i].tries < ImportTries)
        BY <2>2, ImportNumbers
      <4> HIDE DEF j, to
      <4> QED
        BY <4>1, <4>2, <4>3
    <3>3. CASE SyncerDies(i)
      <4> DEFINE to == IF importJob[i].stalled THEN "dead" ELSE "waiting"
                 left == importJob[i].tries - 1
                 j == [state |-> to, tries |-> left, stalled |-> TRUE]
      <4>1. left \in 0..ImportTries /\ left < ImportTries /\ to \in {"dead", "waiting"}
        BY <2>2, ImportNumbers
      <4>2. importJob' = [importJob EXCEPT ![i] = j]
        BY <1>0, <3>3 DEF SyncerDies, ImportTypes
      <4> HIDE DEF left, to
      <4>3. j \in SyncJobs /\ j.state = to /\ j.tries = left
        BY <4>1 DEF SyncJobs, ImportStates
      <4> HIDE DEF j
      <4> QED
        BY <4>1, <4>2, <4>3
    <3> QED
      BY <1>10, <3>1, <3>2, <3>3
  <2>7. Asleep \in Memories /\ Asleep.at = "idle" /\ Asleep.missing = {} /\ Asleep.page = {}
    BY NothingLeft DEF Asleep
  <2>8. ImportTypes' /\ ContentsHaveRows'
    BY <1>0, <2>1, <2>3, <2>4, <2>5, <2>6, <2>7 DEF ImportTypes, ContentsHaveRows, FinishedSync
  <2>9. LeftIsCounted(Asleep, progress[i], s, kept)
    BY <1>i, <2>7 DEF LeftIsCounted
  <2>10. Fits(i)'
    BY <1>0, <2>1, <2>2, <2>4, <2>5, <2>6, <2>7, <2>9 DEF ImportTypes, Fits, SyncFits,
       MissingFits
  <2>11. ASSUME NEW k \in Importer, k # i PROVE Fits(k)'
    BY <1>0, <2>1, <2>4, <2>5, <2>6, <2>11, OthersStay DEF ImportTypes
  <2> QED
    BY <2>8, <2>10, <2>11 DEF ImportInv
<1>11. ASSUME ClearFailed \/ ClearStaleQueued PROVE ImportInv'
  <2>1. UNCHANGED <<asking, sync, progress, importJob, importing, kept, contents, importMishaps>>
    BY <1>11 DEF ClearFailed, ClearStaleQueued
  <2>2. /\ board' \in [Importer -> {"none", "QUEUED", "RUNNING", "COMPLETED", "FAILED", "DEAD"}]
        /\ \A i \in Importer : board[i] = "RUNNING" => board'[i] = "RUNNING"
    BY <1>0, <1>11 DEF ClearFailed, ClearStaleQueued, ImportTypes
  <2>3. ImportTypes' /\ ContentsHaveRows'
    BY <1>0, <2>1, <2>2 DEF ImportTypes, ContentsHaveRows
  <2>4. ASSUME NEW i \in Importer PROVE Fits(i)'
    BY <1>i, <2>1, <2>2 DEF Fits, SyncFits, MissingFits, Newest
  <2> QED
    BY <2>3, <2>4 DEF ImportInv
<1>12. ASSUME UNCHANGED importVars PROVE ImportInv'
  <2>1. ImportTypes' /\ ContentsHaveRows'
    BY <1>0, <1>12 DEF importVars, ImportTypes, ContentsHaveRows
  <2>2. ASSUME NEW i \in Importer PROVE Fits(i)'
    BY <1>i, <1>12 DEF importVars, Fits, SyncFits, MissingFits, Newest
  <2> QED
    BY <2>1, <2>2 DEF ImportInv
<1> QED
  BY <1>1, <1>2, <1>3, <1>4, <1>5, <1>6, <1>7, <1>8, <1>9, <1>10, <1>11, <1>12 DEF ImportNext

(* Hence it holds throughout.                                              *)
LEMMA ImportInvHolds == ImportSpec => []ImportInv
<1>1. ImportInit => ImportInv
  BY ImportInvInit
<1>2. ImportInv /\ [ImportNext]_importVars => ImportInv'
  BY ImportInvStep
<1> QED
  BY <1>1, <1>2, PTL DEF ImportSpec

(* Requests, rows, jobs and counters stay within their types, a job is     *)
(* never tried more often than it may be, and a worker is at work exactly  *)
(* while its job runs.                                                     *)
THEOREM ImportTypesHold == ImportSpec => []ImportTypeOK
<1>1. ImportInv => ImportTypeOK
  <2> SUFFICES ASSUME ImportInv PROVE ImportTypeOK
    OBVIOUS
  <2>1. ASSUME NEW i \in Importer
        PROVE  /\ progress[i].cursor \in 0..(MaxListed - 1)
               /\ importJob[i].state \in ImportStates /\ importJob[i].tries \in 0..ImportTries
               /\ importing[i].page \subseteq Listed /\ importing[i].missing \subseteq importing[i].page
               /\ (importing[i].at # "idle") => (importJob[i].state = "running")
    BY DEF ImportInv, ImportTypes, Fits, SyncFits, MissingFits, Counters, SyncJobs, Memories
  <2> QED
    BY <2>1 DEF ImportInv, ImportTypes, ImportTypeOK
<1> QED
  BY <1>1, ImportInvHolds, PTL

(* Whatever syncs run at once, break off and start again: a completed one  *)
(* left out no recent post it did not count as failed, every content has   *)
(* its row, and what a user clears from the board is never being worked    *)
(* on.                                                                     *)
THEOREM ImportsHold == ImportSpec => []ImportsAreTrue
<1>1. ImportInv => ImportsAreTrue
  BY DEF ImportInv, ImportsAreTrue, CompletedIsThorough, ReportFindsItsRow, Fits, SyncFits,
         LeftIsCounted, Recent
<1> QED
  BY <1>1, ImportInvHolds, PTL
-----------------------------------------------------------------------------
(* What publishPost throws, for any number of parts and of looks: whatever *)
(* the platform answers, the error says what the worker may do next.       *)

(* An error that says what the platform meant, as far as its client does.  *)
Sensible(e, p) ==
  /\ e \in Thrown
  /\ e.meant = "never" => e.kind \in NonRetryableKinds
  /\ e.meant = "later" => e.kind \notin NonRetryableKinds \/ TakenForAFault(e, p)

Platforms == {"FACEBOOK", "INSTAGRAM", "YOUTUBE", "TIKTOK", "PINTEREST"}

(* Every refusal gets a kind.                                              *)
LEMMA RefusalsAreTyped ==
  ASSUME NEW r \in Refusals
  PROVE  Refused(r) \in Thrown /\ r.meant \in {"later", "never"}
<1>1. CASE \E s \in {429, 500} : r = [status |-> s, code |-> "none", meant |-> "later"]
  BY <1>1 DEF Refused, Thrown, ErrorKind, Errors, PlatformErrorKinds
<1>2. CASE \E s \in {400, 401, 403, 404} : r = [status |-> s, code |-> "none", meant |-> "never"]
  BY <1>2 DEF Refused, Thrown, ErrorKind, Errors, PlatformErrorKinds
<1>3. CASE \E c \in {"auth", "permission", "missing"} : r = [status |-> 400, code |-> c, meant |-> "never"]
  BY <1>3 DEF Refused, Thrown, ErrorKind, Errors, PlatformErrorKinds
<1>4. CASE r \in {[status |-> 400, code |-> "rate", meant |-> "later"],
                  [status |-> 403, code |-> "rate", meant |-> "later"],
                  [status |-> 403, code |-> "quota", meant |-> "later"]}
  BY <1>4 DEF Refused, Thrown, ErrorKind, Errors, PlatformErrorKinds
<1> QED
  BY <1>1, <1>2, <1>3, <1>4 DEF Refusals

(* Every refusal a platform's client can read is classified as it was      *)
(* meant, a rate limit sent with 403 excepted.                             *)
LEMMA RefusalsAreSensible ==
  ASSUME NEW p \in Platforms, NEW r \in Refusals, r.code \in CodesRead(p)
  PROVE  Sensible(Refused(r), p)
<1>0. Refused(r) \in Thrown
  BY RefusalsAreTyped
<1>1. CASE \E s \in {429, 500} : r = [status |-> s, code |-> "none", meant |-> "later"]
  BY <1>0, <1>1 DEF Sensible, Refused, ErrorKind, NonRetryableKinds
<1>2. CASE \E s \in {400, 401, 403, 404} : r = [status |-> s, code |-> "none", meant |-> "never"]
  BY <1>0, <1>2 DEF Sensible, Refused, ErrorKind, NonRetryableKinds
<1>3. CASE \E c \in {"auth", "permission", "missing"} : r = [status |-> 400, code |-> c, meant |-> "never"]
  BY <1>0, <1>3 DEF Sensible, Refused, ErrorKind, NonRetryableKinds
<1>4. CASE r \in {[status |-> 400, code |-> "rate", meant |-> "later"],
                  [status |-> 403, code |-> "quota", meant |-> "later"]}
  BY <1>0, <1>4 DEF Sensible, Refused, ErrorKind, NonRetryableKinds
<1>5. CASE r = [status |-> 403, code |-> "rate", meant |-> "later"]
  <2>1. p \in {"FACEBOOK", "INSTAGRAM", "TIKTOK"}
    BY <1>5 DEF Platforms, CodesRead
  <2>2. Refused(r) = [kind |-> "PERMISSION_DENIED", status |-> 403, meant |-> "later"]
    BY <1>5 DEF Refused, ErrorKind
  <2> QED
    <3>1. Refused(r).kind = "PERMISSION_DENIED" /\ Refused(r).status = 403 /\ Refused(r).meant = "later"
      BY ONLY <2>2
    <3>2. TakenForAFault(Refused(r), p)
      BY ONLY <2>1, <3>1 DEF TakenForAFault
    <3> QED
      BY <1>0, <3>1, <3>2 DEF Sensible
<1> QED
  BY <1>1, <1>2, <1>3, <1>4, <1>5 DEF Refusals

(* What an outcome can be.                                                 *)
LEMMA OutcomesAre ==
  ASSUME NEW p, NEW o \in Outcomes(p)
  PROVE  \/ o = [does |-> TRUE, refused |-> FALSE, error |-> NoError]
         \/ \E r \in Refusals : /\ r.code \in CodesRead(p)
                               /\ o = [does |-> FALSE, refused |-> TRUE, error |-> Refused(r)]
         \/ \E b \in BOOLEAN, k \in {"NETWORK", "PLATFORM_ERROR", "OTHER"} :
              o = [does |-> b, refused |-> FALSE, error |-> Fault(k)]
BY DEF Outcomes

(* Every outcome of a request is told: a success was done, a refusal was   *)
(* not.                                                                    *)
LEMMA OutcomesAreTold ==
  ASSUME NEW p, NEW o \in Outcomes(p)
  PROVE  /\ o.error \in Thrown /\ o.does \in BOOLEAN /\ o.refused \in BOOLEAN
         /\ o.error = NoError => o.does
         /\ o.refused => ~o.does
<1>1. CASE o = [does |-> TRUE, refused |-> FALSE, error |-> NoError]
  BY <1>1 DEF NoError, Fault, Thrown
<1>2. ASSUME NEW r \in Refusals, o = [does |-> FALSE, refused |-> TRUE, error |-> Refused(r)]
      PROVE  o.error \in Thrown /\ o.does = FALSE /\ o.refused = TRUE /\ o.error # NoError
  <2>1. o.error \in Thrown /\ o.error.meant = r.meant /\ r.meant \in {"later", "never"}
    BY <1>2, RefusalsAreTyped DEF Refused
  <2> QED
    BY <1>2, <2>1 DEF NoError, Fault
<1>3. ASSUME NEW b \in BOOLEAN, NEW k \in {"NETWORK", "PLATFORM_ERROR", "OTHER"},
             o = [does |-> b, refused |-> FALSE, error |-> Fault(k)]
      PROVE  o.error \in Thrown /\ o.does \in BOOLEAN /\ o.refused = FALSE /\ o.error # NoError
  BY <1>3 DEF NoError, Fault, Thrown, Errors, PlatformErrorKinds
<1> QED
  BY <1>1, <1>2, <1>3, OutcomesAre

(* And its error is sensible.                                              *)
LEMMA OutcomesAreSensible ==
  ASSUME NEW p \in Platforms, NEW o \in Outcomes(p)
  PROVE  Sensible(o.error, p)
<1>0. o.error \in Thrown
  BY OutcomesAreTold
<1>1. CASE o = [does |-> TRUE, refused |-> FALSE, error |-> NoError]
  BY <1>0, <1>1 DEF Sensible, NoError, Fault
<1>2. ASSUME NEW r \in Refusals, r.code \in CodesRead(p), o.error = Refused(r)
      PROVE  Sensible(o.error, p)
  BY <1>2, RefusalsAreSensible
<1>3. ASSUME NEW k, o.error = Fault(k) PROVE Sensible(o.error, p)
  BY <1>0, <1>3 DEF Sensible, Fault
<1> QED
  BY <1>1, <1>2, <1>3, OutcomesAre

(* A way's platform is one of the five.                                    *)
LEMMA WaysHavePlatforms == ASSUME way \in Ways PROVE PlatformOf(way) \in Platforms
BY DEF Ways, PlatformOf, Platforms

(* A way's parts are parts.                                                *)
LEMMA PartsAreParts ==
  ASSUME way \in Ways PROVE PartsOf(way) \subseteq AllParts
BY DEF Ways, PartsOf, AllParts

(* What follows a post that is there already.                              *)
AfterThePost == Following \ {"fbVideo"}

(* A part is what was last heard of it.                                    *)
PartsFit ==
  \A p \in AllParts : /\ p \notin PartsOf(way) => part[p] = "absent"
                      /\ part[p] = "ready" => held[p] = "finished" \/ way = "igImage"
                      /\ doing = "follow" => part[p] \in {"absent", "ready"}
                      /\ part[p] = "waiting" => looks[p] < MaxLooks /\ way \in Waited
                      /\ part[p] = "absent" => looks[p] = 0

(* Nothing is posted while parts are prepared; what follows, follows a     *)
(* post whose parts are there.                                             *)
PostFits ==
  /\ doing = "prepare" => ~posted
  /\ doing = "follow" => way \in Following /\ thrown = NoError /\ \A p \in PartsOf(way) : part[p] = "ready"
  /\ Sensible(thrown, PlatformOf(way))

(* The inductive invariant.                                                *)
AdapterInv == AdapterTypeOK /\ PartsFit /\ PostFits /\ NeverAskedTooEarly /\ FailureMeansNoPost

(* Initially there is no part and no post.                                 *)
LEMMA AdapterInvInit == AdapterInit => AdapterInv
<1> SUFFICES ASSUME AdapterInit PROVE AdapterInv
  OBVIOUS
<1>1. AdapterTypeOK
  <2>1. NoError \in Thrown /\ 0 \in 0 .. MaxLooks
    BY AdaptersAssumption DEF Thrown, NoError, Fault
  <2> QED
    BY <2>1 DEF AdapterInit, AdapterTypeOK
<1>2. PartsFit
  BY AdaptersAssumption DEF AdapterInit, PartsFit
<1>3. PostFits
  BY DEF AdapterInit, PostFits, Sensible, NoError, Fault, Thrown
<1> QED
  BY <1>1, <1>2, <1>3 DEF AdapterInv, AdapterInit, NeverAskedTooEarly, FailureMeansNoPost

(* A call that ends by an error, before the post or after it.              *)
LEMMA RejectingFits ==
  ASSUME AdapterInv, NEW e, Sensible(e, PlatformOf(way)), RejectWith(e), UNCHANGED <<way, posted, sure, early>>,
         doing = "follow" => way \in AfterThePost
  PROVE  /\ doing' = "over" /\ thrown' \in Thrown
         /\ PostFits' /\ FailureMeansNoPost'
<1>1. doing' = "over" /\ thrown' = IF doing = "over" THEN thrown ELSE e
  BY DEF RejectWith
<1>2. Sensible(thrown', PlatformOf(way))
  BY <1>1 DEF AdapterInv, PostFits
<1>3. FailureMeansNoPost'
  <2>1. CASE doing = "over"
    BY <1>1, <2>1 DEF AdapterInv, FailureMeansNoPost
  <2>2. CASE doing = "prepare"
    BY <1>1, <2>2 DEF AdapterInv, PostFits, FailureMeansNoPost
  <2>3. CASE doing = "follow"
    BY <1>1, <2>3 DEF FailureMeansNoPost, AfterThePost
  <2> QED
    BY <2>1, <2>2, <2>3 DEF AdapterInv, AdapterTypeOK
<1> QED
  BY <1>1, <1>2, <1>3 DEF PostFits, Sensible

(* One step per action.                                                    *)
LEMMA AdapterInvStep == AdapterInv /\ [AdapterNext]_adapterVars => AdapterInv'
<1> SUFFICES ASSUME AdapterInv, [AdapterNext]_adapterVars PROVE AdapterInv'
  OBVIOUS
<1> DEFINE P == PlatformOf(way)
<1>0. NoError \in Thrown /\ AdapterTypeOK /\ way \in Ways /\ PartsOf(way) \subseteq AllParts
  BY PartsAreParts DEF NoError, Fault, Thrown, AdapterInv, AdapterTypeOK
<1>1. ASSUME NEW p \in AllParts, PutPart(p) PROVE AdapterInv'
  <2>1. PICK o \in Outcomes(P) :
           /\ held' = IF o.does
                        THEN [held EXCEPT ![p] = IF way \in Processed THEN "processing" ELSE "finished"]
                        ELSE held
           /\ IF o.error = NoError
                THEN /\ part' = [part EXCEPT ![p] = IF way \in Waited THEN "waiting" ELSE "ready"]
                     /\ UNCHANGED <<doing, thrown>>
                ELSE part' = [part EXCEPT ![p] = "failed"] /\ RejectWith(o.error)
    BY <1>1 DEF PutPart
  <2>2. /\ p \in PartsOf(way) /\ part[p] = "absent" /\ UNCHANGED <<way, looks, posted, sure, early>>
        /\ doing # "follow"
    BY <1>1 DEF PutPart, AdapterInv, PostFits
  <2>3. Sensible(o.error, P) /\ (o.error = NoError => o.does)
    BY OutcomesAreTold, OutcomesAreSensible, WaysHavePlatforms, <1>0
  <2>4. way \in Processed => way \in Waited \/ way = "igImage"
    BY DEF Processed, Waited
  <2>5. /\ held' \in [AllParts -> {"absent", "processing", "finished", "broken"}]
        /\ part' \in [AllParts -> {"absent", "waiting", "ready", "failed"}]
    <3>1. CASE o.error = NoError
      BY <1>0, <2>1, <3>1 DEF AdapterTypeOK
    <3>2. CASE o.error # NoError
      BY <1>0, <2>1, <3>2 DEF AdapterTypeOK
    <3> QED
      BY <3>1, <3>2
  <2>6. CASE o.error = NoError
    <3>1. /\ held' = [held EXCEPT ![p] = IF way \in Processed THEN "processing" ELSE "finished"]
          /\ part' = [part EXCEPT ![p] = IF way \in Waited THEN "waiting" ELSE "ready"]
          /\ UNCHANGED <<doing, thrown>>
      BY <2>1, <2>3, <2>6
    <3>2. PartsFit'
      <4>1. part'[p] \in {"waiting", "ready"}
            /\ (part'[p] = "ready" => held'[p] = "finished" \/ way = "igImage")
            /\ (part'[p] = "waiting" => way \in Waited)
        BY <1>0, <2>4, <3>1 DEF AdapterTypeOK
      <4>2. \A q \in AllParts \ {p} : part'[q] = part[q] /\ held'[q] = held[q]
        BY <1>0, <3>1 DEF AdapterTypeOK
      <4>3. looks[p] = 0 /\ 0 < MaxLooks /\ way' = way /\ looks' = looks /\ doing' # "follow"
        BY <2>2, <3>1, AdaptersAssumption DEF AdapterInv, PartsFit
      <4> QED
        BY <2>2, <4>1, <4>2, <4>3 DEF AdapterInv, PartsFit
    <3>3. PostFits'
      BY <1>0, <2>2, <3>1 DEF AdapterInv, PostFits, Sensible
    <3> QED
      BY <1>0, <2>2, <2>5, <3>1, <3>2, <3>3 DEF AdapterInv, AdapterTypeOK, NeverAskedTooEarly,
         FailureMeansNoPost
  <2>7. CASE o.error # NoError
    <3>1. part' = [part EXCEPT ![p] = "failed"] /\ RejectWith(o.error)
      BY <2>1, <2>7
    <3>2. doing' = "over" /\ thrown' \in Thrown /\ PostFits' /\ FailureMeansNoPost'
      BY <2>2, <2>3, <3>1, RejectingFits
    <3>3. \A q \in AllParts \ {p} : held'[q] = held[q] /\ part'[q] = part[q]
      BY <1>0, <2>1, <3>1 DEF AdapterTypeOK
    <3>4. part'[p] = "failed"
      BY <1>0, <3>1 DEF AdapterTypeOK
    <3>5. PartsFit'
      BY <2>2, <3>2, <3>3, <3>4 DEF AdapterInv, PartsFit
    <3> QED
      BY <1>0, <2>2, <2>5, <3>2, <3>5 DEF AdapterInv, AdapterTypeOK, NeverAskedTooEarly
  <2> QED
    BY <2>6, <2>7
<1>2. ASSUME NEW p \in AllParts, Process(p) PROVE AdapterInv'
  <2>1. PICK s \in {"finished", "broken"} : held' = [held EXCEPT ![p] = s]
    BY <1>2 DEF Process
  <2>2. held[p] = "processing" /\ UNCHANGED <<way, part, looks, posted, doing, thrown, sure, early>>
    BY <1>2 DEF Process
  <2>3. held' \in [AllParts -> {"absent", "processing", "finished", "broken"}]
    BY <1>0, <2>1 DEF AdapterTypeOK
  <2>4. PartsFit'
    BY <1>0, <2>1, <2>2 DEF AdapterInv, PartsFit, AdapterTypeOK
  <2> QED
    BY <1>0, <2>2, <2>3, <2>4 DEF AdapterInv, AdapterTypeOK, PostFits, NeverAskedTooEarly,
       FailureMeansNoPost, Sensible
<1>3. ASSUME NEW p \in AllParts, LookAt(p) PROVE AdapterInv'
  <2>1. /\ part[p] = "waiting" /\ looks' = [looks EXCEPT ![p] = @ + 1]
        /\ UNCHANGED <<way, held, posted, sure, early>>
    BY <1>3 DEF LookAt
  <2>2. doing # "follow" /\ p \in PartsOf(way)
    BY <2>1 DEF AdapterInv, PartsFit
  <2>3. looks' \in [AllParts -> 0 .. MaxLooks]
    <3>1. looks[p] < MaxLooks /\ looks[p] \in 0 .. MaxLooks
      BY <1>0, <2>1 DEF AdapterInv, PartsFit, AdapterTypeOK
    <3>2. looks[p] + 1 \in 0 .. MaxLooks
      BY <3>1, AdaptersAssumption
    <3> QED
      BY <1>0, <2>1, <3>2 DEF AdapterTypeOK
  <2>9. looks'[p] = looks[p] + 1 /\ \A q \in AllParts \ {p} : looks'[q] = looks[q]
    BY <1>0, <2>1 DEF AdapterTypeOK
  <2>4. CASE /\ held[p] = "finished"
             /\ part' = [part EXCEPT ![p] = "ready"]
             /\ UNCHANGED <<doing, thrown>>
    <3>1. part' \in [AllParts -> {"absent", "waiting", "ready", "failed"}]
      BY <1>0, <2>4 DEF AdapterTypeOK
    <3>2. PartsFit'
      BY <1>0, <2>1, <2>2, <2>4, <2>9 DEF AdapterInv, PartsFit, AdapterTypeOK
    <3> QED
      BY <1>0, <2>1, <2>2, <2>3, <2>4, <3>1, <3>2
      DEF AdapterInv, AdapterTypeOK, PostFits, NeverAskedTooEarly, FailureMeansNoPost, Sensible
  <2>5. CASE held[p] = "processing" /\ looks'[p] < MaxLooks /\ UNCHANGED <<part, doing, thrown>>
    <3>1. PartsFit'
      BY <2>1, <2>5, <2>9 DEF AdapterInv, PartsFit
    <3> QED
      BY <1>0, <2>1, <2>3, <2>5, <3>1
      DEF AdapterInv, AdapterTypeOK, PostFits, NeverAskedTooEarly, FailureMeansNoPost, Sensible
  <2>6. ASSUME NEW e, Sensible(e, P), part' = [part EXCEPT ![p] = "failed"], RejectWith(e)
        PROVE  AdapterInv'
    <3>1. doing' = "over" /\ thrown' \in Thrown /\ PostFits' /\ FailureMeansNoPost'
      BY <2>1, <2>2, <2>6, RejectingFits
    <3>2. part' \in [AllParts -> {"absent", "waiting", "ready", "failed"}]
      BY <1>0, <2>6 DEF AdapterTypeOK
    <3>3. PartsFit'
      BY <1>0, <2>1, <2>2, <2>6, <2>9, <3>1 DEF AdapterInv, PartsFit, AdapterTypeOK
    <3> QED
      BY <1>0, <2>1, <2>3, <3>1, <3>2, <3>3 DEF AdapterInv, AdapterTypeOK, NeverAskedTooEarly
  <2>7. Sensible(GivingUp(p), P)
    <3>2. GivingUp(p) \in Thrown
      BY DEF GivingUp, Thrown, Errors, PlatformErrorKinds
    <3>3. CASE P = "PINTEREST"
      BY <3>2, <3>3 DEF Sensible, GivingUp, NonRetryableKinds
    <3>4. CASE P = "INSTAGRAM"
      BY <3>2, <3>4 DEF Sensible, GivingUp, TakenForAFault
    <3> QED
      <4>1. way \in Waited
        BY <2>1 DEF AdapterInv, PartsFit
      <4>2. P \in {"INSTAGRAM", "PINTEREST"}
        BY <4>1 DEF Waited, PlatformOf
      <4> QED
        BY <3>3, <3>4, <4>2
  <2>8. \A o \in Outcomes(P) : Sensible(o.error, P)
    BY OutcomesAreTold, OutcomesAreSensible, WaysHavePlatforms, <1>0
  <2> QED
    BY <1>3, <2>4, <2>5, <2>6, <2>7, <2>8 DEF LookAt
<1>4. ASSUME MakePost PROVE AdapterInv'
  <2> DEFINE there == \A p \in PartsOf(way) : held[p] = "finished"
  <2>1. PICK o \in Outcomes(P) :
           /\ o.does => there
           /\ early' = ~there
           /\ posted' = o.does
           /\ sure' = (o.error = NoError \/ o.refused)
           /\ IF o.error = NoError
                THEN /\ doing' = IF way \in Following THEN "follow" ELSE "over"
                     /\ UNCHANGED thrown
                ELSE RejectWith(o.error)
    BY <1>4 DEF MakePost
  <2>2. /\ doing = "prepare" /\ UNCHANGED <<way, held, part, looks>>
        /\ \A p \in PartsOf(way) : part[p] = "ready"
    BY <1>4 DEF MakePost
  <2>3. /\ Sensible(o.error, P) /\ o.does \in BOOLEAN /\ o.refused \in BOOLEAN
        /\ o.error = NoError => o.does
        /\ o.refused => ~o.does
    BY OutcomesAreTold, OutcomesAreSensible, WaysHavePlatforms, <1>0
  <2>4. NeverAskedTooEarly' /\ early' \in BOOLEAN
    <3>1. ~there => way = "igImage"
      BY <1>0, <2>2 DEF AdapterInv, PartsFit
    <3> QED
      BY <2>1, <2>2, <3>1 DEF NeverAskedTooEarly
  <2>5. thrown = NoError
    BY <2>2 DEF AdapterInv, AdapterTypeOK
  <2>6. /\ doing' \in {"follow", "over"} /\ thrown' = o.error
    BY <2>1, <2>2, <2>5 DEF RejectWith
  <2>7. doing' = "follow" => thrown' = NoError /\ way \in Following
    BY <2>1, <2>5, <2>6 DEF RejectWith
  <2>8. PartsFit'
    BY <1>0, <2>2, <2>6 DEF AdapterInv, PartsFit
  <2>9. PostFits'
    BY <2>2, <2>3, <2>6, <2>7 DEF PostFits
  <2>10. FailureMeansNoPost'
    BY <2>1, <2>3, <2>6 DEF FailureMeansNoPost
  <2>11. AdapterTypeOK'
    BY <1>0, <2>1, <2>2, <2>3, <2>4, <2>6 DEF AdapterTypeOK, Sensible
  <2> QED
    BY <2>4, <2>8, <2>9, <2>10, <2>11 DEF AdapterInv
<1>5. ASSUME FollowUp PROVE AdapterInv'
  <2>1. PICK o \in Outcomes(P) :
           IF o.error = NoError \/ way \in Swallowing
             THEN doing' = "over" /\ UNCHANGED thrown
             ELSE RejectWith(o.error)
    BY <1>5 DEF FollowUp
  <2>2. doing = "follow" /\ UNCHANGED <<way, held, part, looks, posted, sure, early>>
    BY <1>5 DEF FollowUp
  <2>3. way \in Following /\ thrown = NoError
    BY <2>2 DEF AdapterInv, PostFits
  <2>4. CASE o.error = NoError \/ way \in Swallowing
    <3>1. doing' = "over" /\ UNCHANGED thrown
      BY <2>1, <2>4
    <3> QED
      BY <1>0, <2>2, <2>3, <3>1
      DEF AdapterInv, AdapterTypeOK, PartsFit, PostFits, NeverAskedTooEarly, FailureMeansNoPost, Sensible
  <2>5. CASE ~(o.error = NoError \/ way \in Swallowing)
    <3>1. RejectWith(o.error) /\ Sensible(o.error, P) /\ way \in AfterThePost
      BY <2>1, <2>3, <2>5, OutcomesAreTold, OutcomesAreSensible, WaysHavePlatforms, <1>0 DEF AfterThePost, Swallowing
    <3>2. doing' = "over" /\ thrown' \in Thrown /\ PostFits' /\ FailureMeansNoPost'
      BY <2>2, <3>1, RejectingFits
    <3>3. PartsFit'
      BY <2>2, <3>2 DEF AdapterInv, PartsFit
    <3> QED
      BY <1>0, <2>2, <3>2, <3>3 DEF AdapterInv, AdapterTypeOK, NeverAskedTooEarly
  <2> QED
    BY <2>4, <2>5
<1>6. CASE UNCHANGED adapterVars
  BY <1>6 DEF adapterVars, AdapterInv, AdapterTypeOK, PartsFit, PostFits, NeverAskedTooEarly,
     FailureMeansNoPost, Sensible
<1> QED
  BY <1>1, <1>2, <1>3, <1>4, <1>5, <1>6 DEF AdapterNext

(* Hence it holds throughout.                                              *)
LEMMA AdapterInvHolds == AdapterSpec => []AdapterInv
BY AdapterInvInit, AdapterInvStep, PTL DEF AdapterSpec

(* AdapterTypeOK, for every number of parts and of looks.                  *)
THEOREM AdapterTypesHold == AdapterSpec => []AdapterTypeOK
<1>1. AdapterInv => AdapterTypeOK
  BY DEF AdapterInv
<1> QED
  BY <1>1, AdapterInvHolds, PTL

(* It implies what the worker is told.                                     *)
LEMMA AdapterInvTells == AdapterInv => ErrorsTellTheWorker
BY DEF AdapterInv, PostFits, Sensible, ErrorsTellTheWorker, RefusalsAreUnderstood

(* ErrorsTellTheWorker, for every number of parts and of looks: what       *)
(* publishPost throws tells the worker whether there may be a post, and    *)
(* whether it is worth another try.                                        *)
THEOREM ErrorsAreUnderstood == AdapterSpec => []ErrorsTellTheWorker
BY AdapterInvTells, AdapterInvHolds, PTL
-----------------------------------------------------------------------------
(* The other calls of the adapters, for any number of repeats: what a call *)
(* returns or throws fits what it and its earlier attempts did at the      *)
(* platform.                                                               *)

(* The methods come in three shapes: those that only read, those whose     *)
(* last request writes, and the one that reads back what it wrote.         *)
LooksOnly == {<<"read">>, <<"read", "read">>}
WritesLast == {<<"write">>, <<"read", "write">>, <<"check", "write">>}
WriteThenRead == <<"write", "read">>

(* The shape goes with what a repeated write does.                         *)
Shape(name, does) ==
  \/ does.requests \in LooksOnly /\ does.repeated = "none" /\ name # "makeVideoPublic"
  \/ does.requests \in WritesLast /\ does.repeated \in {"adds", "removes", "sets"} /\ name # "makeVideoPublic"
  \/ does.requests = WriteThenRead /\ does.repeated = "sets" /\ name = "makeVideoPublic"

(* Every Facebook method has one of the shapes.                            *)
LEMMA FacebookShapes == \A n \in DOMAIN FacebookMethods : Shape(n, FacebookMethods[n])
BY DEF FacebookMethods, Method, OneWrite, Shape, LooksOnly, WritesLast, WriteThenRead
(* Every Instagram method has one of the shapes.                           *)
LEMMA InstagramShapes == \A n \in DOMAIN InstagramMethods : Shape(n, InstagramMethods[n])
BY DEF InstagramMethods, Method, OneWrite, Shape, LooksOnly, WritesLast, WriteThenRead
(* Every YouTube method has one of the shapes.                             *)
LEMMA YouTubeShapes == \A n \in DOMAIN YouTubeMethods : Shape(n, YouTubeMethods[n])
BY DEF YouTubeMethods, Method, OneWrite, Shape, LooksOnly, WritesLast, WriteThenRead
(* Every method on YouTube comments has one of the shapes.                 *)
LEMMA YouTubeCommentShapes == \A n \in DOMAIN YouTubeCommentMethods : Shape(n, YouTubeCommentMethods[n])
BY DEF YouTubeCommentMethods, Method, OneWrite, Shape, LooksOnly, WritesLast, WriteThenRead
(* Every Pinterest method has one of the shapes.                           *)
LEMMA PinterestShapes == \A n \in DOMAIN PinterestMethods : Shape(n, PinterestMethods[n])
BY DEF PinterestMethods, Method, OneWrite, Shape, LooksOnly, WritesLast, WriteThenRead
(* Every TikTok method has one of the shapes.                              *)
LEMMA TikTokShapes == \A n \in DOMAIN TikTokMethods : Shape(n, TikTokMethods[n])
BY DEF TikTokMethods, Method, OneWrite, Shape, LooksOnly, WritesLast, WriteThenRead

(* So every method has.                                                    *)
LEMMA MethodShapes == ASSUME NEW m \in AllMethods PROVE Shape(m.name, m.does)
<1>1. CASE m \in OnComments
  BY <1>1, YouTubeCommentShapes DEF OnComments
<1>2. ASSUME NEW p \in DOMAIN MethodsOf, NEW n \in DOMAIN MethodsOf[p],
             m = [platform |-> p, name |-> n, does |-> MethodsOf[p][n]]
      PROVE  Shape(m.name, m.does)
  <2>1. Shape(n, MethodsOf[p][n])
    <3>1. p \in {"FACEBOOK", "INSTAGRAM", "YOUTUBE", "PINTEREST", "TIKTOK"}
      BY DEF MethodsOf
    <3> QED
      BY <3>1, FacebookShapes, InstagramShapes, YouTubeShapes, PinterestShapes,
         TikTokShapes DEF MethodsOf
  <2> QED
    BY <1>2, <2>1
<1> QED
  BY <1>1, <1>2 DEF AllMethods

(* The types, with any number of effects.                                  *)
CallTyped ==
  /\ called \in AllMethods /\ atStep \in 0..Len(called.does.requests) /\ effects \in Nat
  /\ rejected \in Thrown /\ unheard \in BOOLEAN /\ declined \in BOOLEAN
  /\ told \in {"unsent", "lost", "answered"} /\ repeats \in 0..MaxRepeats

(* What was told of a write, by the step the call is at.                   *)
WritesAreDue ==
  /\ atStep # 0 => rejected = NoError
  /\ called.does.requests \in LooksOnly => told = "unsent" /\ effects = 0
  /\ called.does.requests \in WritesLast /\ atStep # 0 => told = "unsent"
  /\ called.does.requests = WriteThenRead => /\ atStep = 1 => told = "unsent"
                                             /\ atStep = 2 => told = "answered"
                                             /\ atStep = 0 => told # "unsent"

(* What the effects and what was told of them have to do with each other.  *)
EffectsAreTold ==
  /\ rejected = NoError /\ told # "unsent" => told = "answered" /\ (effects > 0 \/ declined)
  /\ rejected = NoError /\ atStep = 0 /\ called.does.repeated # "none" => told # "unsent"
  /\ called.name # "makeVideoPublic" /\ effects > 0
     => unheard \/ (rejected = NoError /\ told = "answered") \/ told = "lost"
  /\ effects > 1 => unheard

(* An attempt adds at most one effect.                                     *)
EffectsFit ==
  /\ effects <= repeats + 1 /\ (told = "unsent" => effects <= repeats)
  /\ called.does.repeated \in {"removes", "sets"} => effects \in {0, 1}

(* The inductive invariant.                                                *)
CallInv == CallTyped /\ WritesAreDue /\ EffectsAreTold /\ EffectsFit

(* Where the writes of each shape are.                                     *)
LEMMA Lengths ==
  ASSUME NEW m \in AllMethods
  PROVE  /\ m.does.requests \in LooksOnly \cup WritesLast \cup {WriteThenRead}
         /\ Len(m.does.requests) \in {1, 2}
         /\ m.does.requests \in LooksOnly => \A i \in 1..Len(m.does.requests) : m.does.requests[i] = "read"
         /\ m.does.requests \in WritesLast =>
              \A i \in 1..Len(m.does.requests) : m.does.requests[i] = "write" <=> i = Len(m.does.requests)
         /\ m.does.requests = WriteThenRead => /\ Len(m.does.requests) = 2
                                               /\ m.does.requests[1] = "write" /\ m.does.requests[2] = "read"
<1> DEFINE R == m.does.requests
<1> HIDE DEF R
<1>1. R \in LooksOnly \cup WritesLast \cup {WriteThenRead}
  BY MethodShapes DEF Shape, R
<1>2. ASSUME R \in LooksOnly
      PROVE  Len(R) \in {1, 2} /\ \A i \in 1..Len(R) : R[i] = "read"
  BY <1>2 DEF LooksOnly
<1>3. ASSUME R \in WritesLast
      PROVE  Len(R) \in {1, 2} /\ \A i \in 1..Len(R) : R[i] = "write" <=> i = Len(R)
  <2>1. CASE R = <<"write">>
    BY <2>1
  <2>2. CASE R = <<"read", "write">>
    BY <2>2
  <2>3. CASE R = <<"check", "write">>
    BY <2>3
  <2> QED
    BY <1>3, <2>1, <2>2, <2>3 DEF WritesLast
<1>4. ASSUME R = WriteThenRead
      PROVE  Len(R) = 2 /\ R[1] = "write" /\ R[2] = "read"
  BY <1>4 DEF WriteThenRead
<1> QED
  BY <1>1, <1>2, <1>3, <1>4 DEF R

(* No method has two shapes.                                               *)
LEMMA ShapesDiffer == WriteThenRead \notin LooksOnly \cup WritesLast /\ LooksOnly \cap WritesLast = {}
BY DEF LooksOnly, WritesLast, WriteThenRead

(* Initially nothing has been sent.                                        *)
LEMMA CallInvInit == CallInit => CallInv
<1> SUFFICES ASSUME CallInit PROVE CallInv
  OBVIOUS
<1>1. called \in AllMethods /\ Len(called.does.requests) \in {1, 2}
  BY Lengths DEF CallInit
<1>2. NoError \in Thrown
  BY DEF NoError, Fault, Thrown
<1> QED
  <2>1. 1 \in 0..Len(called.does.requests)
    BY <1>1
  <2>2. CallTyped
    <3>1. atStep = 1 /\ effects = 0 /\ rejected = NoError /\ told = "unsent" /\ unheard = FALSE
          /\ declined = FALSE /\ repeats = 0
      BY DEF CallInit
    <3>2. repeats \in 0..MaxRepeats /\ effects \in Nat /\ atStep \in 0..Len(called.does.requests)
      BY <2>1, <3>1, PlatformCallsAssumption
    <3> QED
      BY <1>1, <1>2, <3>1, <3>2 DEF CallTyped
  <2>3. WritesAreDue /\ EffectsAreTold /\ EffectsFit
    BY DEF CallInit, WritesAreDue, EffectsAreTold, EffectsFit
  <2> QED
    BY <2>2, <2>3 DEF CallInv

(* One step per action.                                                    *)
LEMMA CallInvStep == CallInv /\ [CallNext]_callVars => CallInv'
<1> SUFFICES ASSUME CallInv, [CallNext]_callVars PROVE CallInv'
  OBVIOUS
<1> DEFINE R == called.does.requests
<1>0. /\ called \in AllMethods /\ atStep \in 0..Len(R) /\ effects \in Nat /\ rejected \in Thrown
      /\ repeats \in Nat /\ repeats <= MaxRepeats /\ NoError \in Thrown /\ MaxRepeats \in Nat
  BY PlatformCallsAssumption DEF CallInv, CallTyped, NoError, Fault, Thrown
<1>L. /\ R \in LooksOnly \cup WritesLast \cup {WriteThenRead} /\ Len(R) \in {1, 2}
      /\ R \in LooksOnly => \A i \in 1..Len(R) : R[i] = "read"
      /\ R \in WritesLast => \A i \in 1..Len(R) : R[i] = "write" <=> i = Len(R)
      /\ R = WriteThenRead => Len(R) = 2 /\ R[1] = "write" /\ R[2] = "read"
      /\ WriteThenRead \notin LooksOnly \cup WritesLast /\ LooksOnly \cap WritesLast = {}
  BY <1>0, Lengths, ShapesDiffer
<1>S. Shape(called.name, called.does)
  BY <1>0, MethodShapes
<1>1. ASSUME Check \/ ReadRequest PROVE CallInv'
  <2>1. Request \in {"read", "check"} /\ UNCHANGED <<called, effects, told, unheard, declined, repeats>>
    BY <1>1 DEF Check, ReadRequest
  <2>2. atStep # 0 /\ R[atStep] \in {"read", "check"} /\ atStep \in 1..Len(R) /\ rejected = NoError
    BY <1>0, <1>L, <2>1 DEF Request, CallInv, WritesAreDue
  <2>3. \/ Proceed /\ UNCHANGED rejected
        \/ atStep' = 0 /\ rejected' \in Thrown \ {NoError}
    <3>1. CASE Check
      BY <3>1 DEF Check, Reject, Fault, Thrown, Errors, NoError
    <3>2. CASE ReadRequest
      BY <3>2, OutcomesAreTold DEF ReadRequest, Reject
    <3> QED
      BY <1>1, <3>1, <3>2
  <2>4. CASE Proceed /\ UNCHANGED rejected
    <3>1. atStep' = IF atStep = Len(R) THEN 0 ELSE atStep + 1
      BY <2>4 DEF Proceed
    <3>2. atStep' \in 0..Len(R) /\ (R = WriteThenRead => atStep = 2)
      BY <1>L, <2>2, <3>1
    <3>3. WritesAreDue'
      BY <1>0, <1>L, <2>1, <2>2, <2>4, <3>1, <3>2 DEF CallInv, WritesAreDue
    <3>4. R \in WritesLast => atStep' # 0
      BY <1>L, <2>2, <3>1
    <3>5. called.does.repeated = "none" <=> R \in LooksOnly
      BY <1>L, <1>S DEF Shape
    <3>6. EffectsAreTold'
      BY <1>L, <2>1, <2>2, <2>4, <3>2, <3>4, <3>5 DEF CallInv, EffectsAreTold, WritesAreDue
    <3> QED
      BY <2>1, <2>4, <3>2, <3>3, <3>6 DEF CallInv, CallTyped, EffectsFit
  <2>5. CASE atStep' = 0 /\ rejected' \in Thrown \ {NoError}
    <3>1. R = WriteThenRead => atStep = 2
      <4>1. ASSUME R = WriteThenRead PROVE atStep \in 1..2 /\ atStep # 1
        BY <1>L, <2>2, <4>1
      <4> QED
        BY <4>1
    <3>2. WritesAreDue'
      BY <2>1, <2>2, <2>5, <3>1 DEF CallInv, WritesAreDue
    <3>3. called.name = "makeVideoPublic" <=> R = WriteThenRead
      BY <1>L, <1>S DEF Shape
    <3>4. R # WriteThenRead => told = "unsent"
      BY <1>L, <2>2 DEF CallInv, WritesAreDue
    <3>5. R = WriteThenRead => told = "answered" /\ (effects > 0 \/ declined)
      BY <2>2, <3>1 DEF CallInv, WritesAreDue, EffectsAreTold
    <3>6. EffectsAreTold'
      BY <2>1, <2>2, <2>5, <3>3, <3>4, <3>5 DEF CallInv, EffectsAreTold
    <3> QED
      BY <2>1, <2>5, <3>2, <3>6 DEF CallInv, CallTyped, EffectsFit
  <2> QED
    BY <2>3, <2>4, <2>5
<1>2. ASSUME WriteRequest PROVE CallInv'
  <2>1. Request = "write" /\ UNCHANGED <<called, unheard, repeats>>
    BY <1>2 DEF WriteRequest
  <2>2. atStep # 0 /\ R[atStep] = "write" /\ atStep \in 1..Len(R) /\ rejected = NoError
    BY <1>0, <1>L, <2>1 DEF Request, CallInv, WritesAreDue
  <2>3. /\ R \notin LooksOnly /\ called.does.repeated \in {"adds", "removes", "sets"}
        /\ R \in WritesLast => atStep = Len(R)
        /\ R = WriteThenRead => atStep = 1 /\ called.does.repeated = "sets" /\ Len(R) = 2
        /\ called.name = "makeVideoPublic" <=> R = WriteThenRead
    BY <1>L, <1>S, <2>2 DEF Shape
  <2>4. told = "unsent" /\ effects <= repeats
    BY <1>L, <2>2, <2>3 DEF CallInv, WritesAreDue, EffectsFit
  <2>5. /\ AfterWrite \in Nat /\ AfterWrite > 0 /\ AfterWrite <= effects + 1
        /\ called.does.repeated \in {"removes", "sets"} => AfterWrite = 1
        /\ called.does.repeated = "adds" => AfterWrite = effects + 1
    <3>1. AfterWrite = IF called.does.repeated = "adds" THEN effects + 1 ELSE 1
      BY DEF AfterWrite
    <3>2. called.does.repeated # "adds" => effects \in {0, 1}
      BY <2>3 DEF CallInv, EffectsFit
    <3> QED
      BY <1>0, <3>1, <3>2
  <2>6. ASSUME NEW n \in Nat, effects' = n, n \in {effects, AfterWrite}, told' \in {"answered", "lost"},
               declined' \in BOOLEAN,
               \/ Proceed /\ UNCHANGED rejected /\ told' = "answered" /\ (n > 0 \/ declined')
               \/ /\ atStep' = 0 /\ rejected' \in Thrown \ {NoError}
                  /\ told' = "answered" => n = effects
        PROVE  CallInv'
    <3>1. CallTyped'
      <4>1. atStep' \in 0..Len(R)
        BY <1>0, <1>L, <2>2, <2>6 DEF Proceed
      <4> QED
        BY <2>1, <2>6, <4>1 DEF CallInv, CallTyped
    <3>2. WritesAreDue'
      <4>1. CASE Proceed /\ UNCHANGED rejected /\ told' = "answered"
        <5>1. atStep' = IF atStep = Len(R) THEN 0 ELSE atStep + 1
          BY <4>1 DEF Proceed
        <5>2. (R \in WritesLast => atStep' = 0) /\ (R = WriteThenRead => atStep' = 2)
          BY <1>L, <2>3, <5>1
        <5> QED
          BY <1>L, <2>1, <2>2, <2>3, <4>1, <5>2 DEF WritesAreDue
      <4>2. CASE atStep' = 0 /\ rejected' \in Thrown \ {NoError}
        BY <2>1, <2>3, <2>6, <4>2 DEF WritesAreDue
      <4> QED
        BY <2>6, <4>1, <4>2
    <3>3. n > 1 => unheard
      <4>1. called.does.repeated = "adds" /\ effects > 0 => unheard
        BY <2>3, <2>4 DEF CallInv, EffectsAreTold
      <4>2. effects > 1 => unheard
        BY DEF CallInv, EffectsAreTold
      <4> QED
        BY <1>0, <2>3, <2>5, <2>6, <4>1, <4>2
    <3>4. EffectsAreTold'
      <4>1. CASE Proceed /\ UNCHANGED rejected /\ told' = "answered" /\ (n > 0 \/ declined')
        BY <2>1, <2>2, <2>6, <3>3, <4>1 DEF EffectsAreTold
      <4>2. CASE atStep' = 0 /\ rejected' \in Thrown \ {NoError} /\ (told' = "answered" => n = effects)
        <5>1. called.name # "makeVideoPublic" /\ effects > 0 => unheard
          BY <2>4 DEF CallInv, EffectsAreTold
        <5> QED
          BY <2>1, <2>6, <3>3, <4>2, <5>1 DEF EffectsAreTold
      <4> QED
        BY <2>6, <4>1, <4>2
    <3>5. EffectsFit'
      BY <1>0, <2>1, <2>3, <2>4, <2>5, <2>6 DEF CallInv, EffectsFit
    <3> QED
      BY <3>1, <3>2, <3>4, <3>5 DEF CallInv
  <2>7. ASSUME NEW o \in Outcomes(called.platform),
               Gone => ~o.does,
               effects' = IF o.does THEN AfterWrite ELSE effects,
               told' = IF o.error = NoError \/ o.refused THEN "answered" ELSE "lost",
               IF o.error = NoError THEN Proceed /\ UNCHANGED rejected ELSE Reject(o.error),
               UNCHANGED declined
        PROVE  CallInv'
    <3>1. /\ o.error \in Thrown /\ o.does \in BOOLEAN /\ o.refused \in BOOLEAN
          /\ (o.error = NoError => o.does) /\ (o.refused => ~o.does)
      BY OutcomesAreTold
    <3>2. declined' \in BOOLEAN /\ told' \in {"answered", "lost"} /\ effects' \in Nat
          /\ effects' \in {effects, AfterWrite}
      BY <1>0, <2>5, <2>7 DEF CallInv, CallTyped
    <3>3. CASE o.error = NoError
      <4>1. Proceed /\ UNCHANGED rejected /\ told' = "answered" /\ effects' > 0
        BY <2>5, <2>7, <3>1, <3>3
      <4> QED
        BY <2>6, <3>2, <4>1
    <3>4. CASE o.error # NoError
      <4>1. /\ atStep' = 0 /\ rejected' \in Thrown \ {NoError}
            /\ told' = "answered" => effects' = effects
        BY <2>7, <3>1, <3>4 DEF Reject
      <4> QED
        BY <2>6, <3>2, <4>1
    <3> QED
      BY <3>3, <3>4
  <2>8. ASSUME declined' = TRUE, told' = "answered", Proceed, UNCHANGED <<effects, rejected>>
        PROVE  CallInv'
    <3>1. effects' \in Nat /\ effects' \in {effects, AfterWrite}
      BY <1>0, <2>8
    <3> QED
      BY <2>6, <2>8, <3>1
  <2> QED
    BY <1>2, <2>7, <2>8 DEF WriteRequest
<1>3. ASSUME Repeat PROVE CallInv'
  <2>1. /\ atStep = 0 /\ rejected # NoError /\ repeats < MaxRepeats /\ repeats' = repeats + 1 /\ atStep' = 1
        /\ rejected' = NoError /\ told' = "unsent" /\ unheard' = (unheard \/ told = "lost")
        /\ UNCHANGED <<called, effects, declined>>
    BY <1>3 DEF Repeat
  <2>2. CallTyped'
    <3>1. called' \in AllMethods /\ effects' \in Nat /\ declined' \in BOOLEAN
      BY <2>1 DEF CallInv, CallTyped
    <3>2. repeats' \in 0..MaxRepeats
      BY <2>1, PlatformCallsAssumption DEF CallInv, CallTyped
    <3>3. atStep' \in 0..Len(called'.does.requests)
      BY <1>L, <2>1
    <3>4. rejected' \in Thrown /\ unheard' \in BOOLEAN /\ told' \in {"unsent", "lost", "answered"}
      BY <1>0, <2>1 DEF CallInv, CallTyped
    <3> QED
      BY <3>1, <3>2, <3>3, <3>4 DEF CallTyped
  <2>3. WritesAreDue'
    BY <2>1 DEF CallInv, WritesAreDue
  <2>4. EffectsAreTold'
    <3>1. unheard \/ told = "lost" => unheard'
      BY <2>1
    <3> QED
      BY <2>1, <3>1 DEF CallInv, EffectsAreTold
  <2>5. EffectsFit'
    BY <1>0, <2>1 DEF CallInv, EffectsFit
  <2> QED
    BY <2>2, <2>3, <2>4, <2>5 DEF CallInv
<1>4. CASE UNCHANGED callVars
  BY <1>4 DEF callVars, CallInv, CallTyped, WritesAreDue, EffectsAreTold, EffectsFit
<1> QED
  BY <1>1, <1>2, <1>3, <1>4 DEF CallNext

(* Hence it holds throughout.                                              *)
LEMMA CallInvHolds == CallSpec => []CallInv
BY CallInvInit, CallInvStep, PTL DEF CallSpec

(* CallTypeOK, for every number of repeats: listings change nothing, what  *)
(* removes or sets does so once.                                           *)
THEOREM CallTypesHold == CallSpec => []CallTypeOK
<1>1. CallInv => CallTypeOK
  <2> SUFFICES ASSUME CallInv PROVE CallTypeOK
    OBVIOUS
  <2>1. called.does.repeated = "none" => called.does.requests \in LooksOnly
    BY MethodShapes DEF CallInv, CallTyped, Shape
  <2>2. effects \in 0..(MaxRepeats + 1)
    BY PlatformCallsAssumption DEF CallInv, CallTyped, EffectsFit
  <2>3. called.does.repeated = "none" => effects = 0
    BY <2>1 DEF CallInv, WritesAreDue
  <2> QED
    BY <2>2, <2>3 DEF CallInv, CallTyped, EffectsFit, CallTypeOK
<1> QED
  BY <1>1, CallInvHolds, PTL

(* It implies what the caller is told.                                     *)
LEMMA CallInvTells == CallInv => CallsTellTheTruth
<1> SUFFICES ASSUME CallInv, atStep = 0 PROVE CallsTellTheTruth
  BY DEF CallsTellTheTruth
<1>1. called.name = "makeVideoPublic" => told # "unsent"
  BY MethodShapes, ShapesDiffer DEF CallInv, CallTyped, Shape, WritesAreDue
<1>2. effects \in Nat
  BY DEF CallInv, CallTyped
<1> QED
  BY <1>1, <1>2 DEF CallInv, EffectsAreTold, CallsTellTheTruth

(* CallsTellTheTruth, for every number of repeats: what a call returns or  *)
(* throws fits what it and its earlier attempts did at the platform.       *)
THEOREM CallsAreHonest == CallSpec => []CallsTellTheTruth
BY CallInvTells, CallInvHolds, PTL
-----------------------------------------------------------------------------
(* The status of a content post, for any number of children.               *)

(* The children are a sequence of statuses.                                *)
ChildrenTyped == children \in Seq(PlatformPostStatuses)

(* No change of a child makes them anything else.                          *)
LEMMA ChildrenStayTyped == StatusSpec => []ChildrenTyped
<1>1. StatusInit => ChildrenTyped
      BY DEF StatusInit, ChildrenTyped
<1>2. ChildrenTyped /\ [StatusNext]_children => ChildrenTyped'
  <2> SUFFICES ASSUME ChildrenTyped, [StatusNext]_children PROVE ChildrenTyped'
      OBVIOUS
  <2>1. CASE AddChild
        BY <2>1 DEF AddChild, ChildrenTyped
  <2>2. CASE ChangeChild
        BY <2>2 DEF ChangeChild, ChildrenTyped
  <2> QED BY <2>1, <2>2 DEF StatusNext, ChildrenTyped
<1> QED BY <1>1, <1>2, PTL DEF StatusSpec

(* The children whose status is in S.                                      *)
Places(S) == {i \in DOMAIN children : children[i] \in S}

(* What a count says of the children.                                      *)
LEMMA CountsTell ==
  ASSUME ChildrenTyped, NEW S
  PROVE  /\ CountIn(S) \in Nat /\ IsFiniteSet(Places(S)) /\ CountIn(S) = Cardinality(Places(S))
         /\ CountIn(S) = 0 <=> \A i \in DOMAIN children : children[i] \notin S
         /\ CountIn(S) = Len(children) <=> \A i \in DOMAIN children : children[i] \in S
<1>1. DOMAIN children = 1..Len(children) /\ Len(children) \in Nat
      BY DEF ChildrenTyped
<1>2. IsFiniteSet(DOMAIN children) /\ Cardinality(DOMAIN children) = Len(children)
  <2>1. /\ IsFiniteSet(1..Len(children))
        /\ Cardinality(1..Len(children)) = IF 1 > Len(children) THEN 0 ELSE Len(children) - 1 + 1
        BY <1>1, FS_Interval
  <2> QED BY <1>1, <2>1
<1>3. /\ IsFiniteSet(Places(S)) /\ Places(S) \subseteq DOMAIN children
      /\ Cardinality(Places(S)) = Len(children) => Places(S) = DOMAIN children
      BY <1>2, FS_Subset DEF Places
<1>4. Cardinality(Places(S)) \in Nat /\ (Cardinality(Places(S)) = 0 <=> Places(S) = {})
      BY <1>3, FS_CardinalityType, FS_EmptySet
<1>5. CountIn(S) = Cardinality(Places(S))
      BY DEF CountIn, Places
<1>6. Places(S) = {} <=> \A i \in DOMAIN children : children[i] \notin S
      BY DEF Places
<1>7. Places(S) = DOMAIN children <=> \A i \in DOMAIN children : children[i] \in S
      BY DEF Places
<1> QED BY <1>2, <1>3, <1>4, <1>5, <1>6, <1>7

(* Counts of disjoint sets add up.                                         *)
LEMMA CountsAdd ==
  ASSUME ChildrenTyped, NEW S, NEW T, S \cap T = {}
  PROVE  CountIn(S \cup T) = CountIn(S) + CountIn(T)
<1>1. Places(S \cup T) = Places(S) \cup Places(T) /\ Places(S) \cap Places(T) = {}
      BY DEF Places
<1>2. /\ IsFiniteSet(Places(S)) /\ IsFiniteSet(Places(T))
      /\ CountIn(S \cup T) = Cardinality(Places(S \cup T))
      /\ CountIn(S) = Cardinality(Places(S)) /\ CountIn(T) = Cardinality(Places(T))
      /\ CountIn(S) \in Nat /\ CountIn(T) \in Nat
      BY CountsTell
<1>3. Cardinality(Places(S) \cup Places(T))
        = Cardinality(Places(S)) + Cardinality(Places(T)) - Cardinality(Places(S) \cap Places(T))
      BY <1>2, FS_Union
<1>4. Cardinality(Places(S) \cap Places(T)) = 0
      BY <1>1, FS_EmptySet
<1>5. Cardinality(Places(S \cup T)) = CountIn(S) + CountIn(T) - 0
  <2>1. Cardinality(Places(S \cup T)) = Cardinality(Places(S) \cup Places(T))
        BY <1>1
  <2> QED BY <1>2, <1>3, <1>4, <2>1
<1> QED BY <1>2, <1>5

(* What is derived, by which statuses are there.                           *)
LEMMA DerivedByPresence ==
  ASSUME NEW present \in SUBSET PlatformPostStatuses,
         NEW finished \in BOOLEAN,
           finished <=> present \subseteq Withdrawn \cup {"PUBLISHED"} \cup {"FAILED"},
         NEW running \in BOOLEAN, running <=> present \cap {"PROCESSING", "REMOTE_RESULT_UNKNOWN"} # {}
  PROVE  LET parent == DeriveContentPostStatus(present)
             good == "PUBLISHED" \in present
             bad == "FAILED" \in present
         IN  /\ parent = "DRAFT"               <=> present = {}
             /\ parent = "CANCELLED"           <=> present # {} /\ present \subseteq Withdrawn
             /\ parent = "PUBLISHED"           <=> finished /\ good /\ ~bad
             /\ parent = "FAILED"              <=> finished /\ ~good /\ bad
             /\ parent = "PARTIALLY_PUBLISHED" <=> finished /\ good /\ bad
             /\ parent = "PROCESSING"          <=> ~finished /\ running
             /\ parent = "QUEUED"              <=> ~finished /\ ~running
<1> DEFINE parent == DeriveContentPostStatus(present)
           active == present \ Withdrawn
           good   == "PUBLISHED" \in present
           bad    == "FAILED" \in present
<1>1. /\ active = {} <=> present \subseteq Withdrawn
      /\ active = {"PUBLISHED"} <=> finished /\ good /\ ~bad
      /\ active = {"FAILED"} <=> finished /\ ~good /\ bad
      /\ active = Settled <=> finished /\ good /\ bad
      /\ active \subseteq Settled <=> finished
      BY DEF Withdrawn, Settled
<1>2. running <=> active \cap {"REMOTE_RESULT_UNKNOWN", "PROCESSING"} # {}
      BY DEF Withdrawn
<1>3. CASE present = {}
  <2>0. /\ present \ Withdrawn = {} /\ {} # {"PUBLISHED"} /\ {} # {"FAILED"} /\ {} # Settled
        /\ {} \subseteq Settled
        BY <1>3 DEF Settled
  <2>1. parent = "DRAFT"
        BY <1>3, <2>0, Zenon DEF DeriveContentPostStatus
  <2> QED BY <1>1, <1>2, <1>3, <2>1
<1>4. CASE present # {} /\ active = {}
  <2>0. /\ present \ Withdrawn = {} /\ {} # {"PUBLISHED"} /\ {} # {"FAILED"} /\ {} # Settled
        /\ {} \subseteq Settled
        BY <1>4 DEF Settled
  <2>1. parent = "CANCELLED"
        BY <1>4, <2>0, Zenon DEF DeriveContentPostStatus
  <2>2. finished /\ ~good /\ ~bad /\ present \subseteq Withdrawn
        BY <1>4 DEF Withdrawn
  <2> QED BY <1>4, <2>1, <2>2
<1>5. CASE active = {"PUBLISHED"}
  <2>1. parent = "PUBLISHED"
        BY <1>5 DEF DeriveContentPostStatus, Settled
  <2> QED BY <1>1, <1>2, <1>5, <2>1
<1>6. CASE active = {"FAILED"}
  <2>1. parent = "FAILED"
        BY <1>6 DEF DeriveContentPostStatus, Settled
  <2> QED BY <1>1, <1>2, <1>6, <2>1
<1>7. CASE active = Settled
  <2>0. /\ present # {} /\ active # {} /\ active # {"PUBLISHED"} /\ active # {"FAILED"}
        /\ active \subseteq Settled
        BY <1>7 DEF Settled
  <2>1. parent = "PARTIALLY_PUBLISHED"
        BY <1>7, <2>0, Zenon DEF DeriveContentPostStatus
  <2>2. finished /\ good /\ bad /\ present # {} /\ ~(present \subseteq Withdrawn)
        BY <1>1, <1>7 DEF Settled
  <2> QED BY <2>1, <2>2
<1>8. CASE ~(active \subseteq Settled)
  <2>1. parent = IF running THEN "PROCESSING" ELSE "QUEUED"
        BY <1>2, <1>8 DEF DeriveContentPostStatus, Settled
  <2> QED BY <1>1, <1>2, <1>8, <2>1
<1>9. active = {} \/ active = {"PUBLISHED"} \/ active = {"FAILED"} \/ active = Settled \/ ~(active \subseteq Settled)
      BY DEF Settled
<1> QED BY <1>3, <1>4, <1>5, <1>6, <1>7, <1>8, <1>9

(* The documented rule, by counting, is what the code derives from the set *)
(* of the statuses, for every number of children and after every change of *)
(* one of them.                                                            *)
THEOREM TheRuleHolds == StatusSpec => []DerivationFollowsTheRule
<1>1. ChildrenTyped => DerivationFollowsTheRule
  <2> SUFFICES ASSUME ChildrenTyped PROVE DerivationFollowsTheRule
      OBVIOUS
  <2> DEFINE present == {children[i] : i \in DOMAIN children}
             gone   == CountIn(Withdrawn)
             good   == CountIn({"PUBLISHED"})
             bad    == CountIn({"FAILED"})
             remote == CountIn({"PROCESSING", "REMOTE_RESULT_UNKNOWN"})
             done   == gone + good + bad = Len(children)
  <2>1. present \subseteq PlatformPostStatuses /\ (present = {} <=> Len(children) = 0)
        /\ Len(children) \in Nat
    <3>1. DOMAIN children = 1..Len(children) /\ Len(children) \in Nat
          BY DEF ChildrenTyped
    <3>2. \A i \in DOMAIN children : children[i] \in PlatformPostStatuses
          BY DEF ChildrenTyped
    <3>3. Len(children) # 0 => 1 \in DOMAIN children
          BY <3>1
    <3> QED BY <3>1, <3>2, <3>3
  <2>2. /\ gone \in Nat /\ (gone = 0 <=> present \cap Withdrawn = {})
        /\ gone = Len(children) <=> present \subseteq Withdrawn
        BY CountsTell
  <2>3. good \in Nat /\ (good = 0 <=> "PUBLISHED" \notin present)
        BY CountsTell
  <2>4. bad \in Nat /\ (bad = 0 <=> "FAILED" \notin present)
        BY CountsTell
  <2>5. remote \in Nat /\ (remote = 0 <=> present \cap {"PROCESSING", "REMOTE_RESULT_UNKNOWN"} = {})
        BY CountsTell
  <2>6. done <=> present \subseteq Withdrawn \cup {"PUBLISHED"} \cup {"FAILED"}
    <3>1. CountIn(Withdrawn \cup {"PUBLISHED"}) = gone + good
          BY CountsAdd DEF Withdrawn
    <3>2. CountIn((Withdrawn \cup {"PUBLISHED"}) \cup {"FAILED"}) = CountIn(Withdrawn \cup {"PUBLISHED"}) + bad
          BY CountsAdd DEF Withdrawn
    <3>3. CountIn((Withdrawn \cup {"PUBLISHED"}) \cup {"FAILED"}) = Len(children)
            <=> present \subseteq Withdrawn \cup {"PUBLISHED"} \cup {"FAILED"}
          BY CountsTell
    <3> QED BY <3>1, <3>2, <3>3
  <2>7. ParentOf(children) = DeriveContentPostStatus(present)
        BY DEF ParentOf
  <2> HIDE DEF present, gone, good, bad, remote, done
  <2>8. DerivationFollowsTheRule <=>
          LET parent == DeriveContentPostStatus(present)
          IN  /\ parent = "DRAFT"               <=> Len(children) = 0
              /\ parent = "CANCELLED"           <=> Len(children) > 0 /\ gone = Len(children)
              /\ parent = "PUBLISHED"           <=> done /\ good > 0 /\ bad = 0
              /\ parent = "FAILED"              <=> done /\ good = 0 /\ bad > 0
              /\ parent = "PARTIALLY_PUBLISHED" <=> done /\ good > 0 /\ bad > 0
              /\ parent = "PROCESSING"          <=> ~done /\ remote > 0
              /\ parent = "QUEUED"              <=> ~done /\ remote = 0
        BY <2>7 DEF DerivationFollowsTheRule, present, gone, good, bad, remote, done
  <2>9. LET parent == DeriveContentPostStatus(present)
        IN  /\ parent = "DRAFT"               <=> present = {}
            /\ parent = "CANCELLED"           <=> present # {} /\ present \subseteq Withdrawn
            /\ parent = "PUBLISHED"           <=> done /\ "PUBLISHED" \in present /\ "FAILED" \notin present
            /\ parent = "FAILED"              <=> done /\ "PUBLISHED" \notin present /\ "FAILED" \in present
            /\ parent = "PARTIALLY_PUBLISHED" <=> done /\ "PUBLISHED" \in present /\ "FAILED" \in present
            /\ parent = "PROCESSING"          <=> ~done /\ remote # 0
            /\ parent = "QUEUED"              <=> ~done /\ remote = 0
        BY <2>1, <2>5, <2>6, DerivedByPresence
  <2> QED BY SMTT(90), <2>1, <2>2, <2>3, <2>4, <2>5, <2>8, <2>9
<1> QED BY <1>1, ChildrenStayTyped, PTL
-----------------------------------------------------------------------------
(* Sums over finite sets, for the numbers of a post and of a dashboard. A  *)
(* fold picks the elements of its set one by one; it is an iteration over  *)
(* the subsets, which is what the proofs by smallest counterexample need.  *)

(* Of finite sets, some of which are in T, one is without any smaller one. *)
LEMMA SmallestSet ==
  ASSUME NEW S, IsFiniteSet(S), NEW T \in SUBSET SUBSET S, T # {}
  PROVE  \E s \in T : \A x \in s : s \ {x} \notin T
<1> DEFINE sizes == {Cardinality(s) : s \in T}
           R == OpToRel(<, Nat)
<1>1. \A s \in SUBSET S : IsFiniteSet(s) /\ Cardinality(s) \in Nat
  BY FS_Subset, FS_CardinalityType
<1>2. sizes \in SUBSET Nat /\ sizes # {}
  BY <1>1
<1>3. IsWellFoundedOn(R, Nat)
  BY NatLessThanWellFounded
<1> HIDE DEF sizes
<1>4. PICK n \in sizes : \A m \in sizes : ~(<<m, n>> \in R)
  <2> HIDE DEF R
  <2> QED
    BY <1>2, <1>3, WFMin
<1>5. \A m \in sizes : ~(m < n)
  BY <1>2, <1>4 DEF OpToRel
<1>6. PICK s \in T : Cardinality(s) = n
  BY DEF sizes
<1>7. ASSUME NEW x \in s, s \ {x} \in T PROVE FALSE
  <2>1. Cardinality(s \ {x}) = Cardinality(s) - 1 /\ Cardinality(s) \in Nat
    BY <1>1, FS_RemoveElement
  <2>2. Cardinality(s \ {x}) \in sizes
    BY <1>7 DEF sizes
  <2> QED
    BY <1>2, <1>5, <1>6, <2>1, <2>2
<1> QED
  BY <1>7

(* The first element that a fold takes of a set.                           *)
First(s) == CHOOSE x \in s : TRUE

(* A fold of functions: F[x] adds x to what the others have come to.       *)
IsFoldOf(g, base, F, S) ==
  \A s \in SUBSET S : g[s] = IF s = {} THEN base ELSE F[First(s)][g[s \ {First(s)}]]

(* There is one, over every finite set.                                    *)
LEMMA FoldExists ==
  ASSUME NEW S, IsFiniteSet(S), NEW V, NEW base \in V, NEW F \in [S -> [V -> V]]
  PROVE  \E g \in [SUBSET S -> V] : IsFoldOf(g, base, F, S)
<1> DEFINE Next(g) == [s \in SUBSET S |-> IF s = {} THEN base ELSE F[First(s)][g[s \ {First(s)}]]]
           Small(n) == {s \in SUBSET S : Cardinality(s) <= n}
           Good(n) == \E g \in [SUBSET S -> V] : \A s \in Small(n) : g[s] = Next(g)[s]
           bad == {n \in Nat : ~Good(n)}
           R == OpToRel(<, Nat)
<1>1. \A s \in SUBSET S : IsFiniteSet(s) /\ Cardinality(s) \in Nat
  BY FS_Subset, FS_CardinalityType
<1>2. ASSUME NEW s \in SUBSET S, s # {}
      PROVE  First(s) \in s /\ s \ {First(s)} \in SUBSET S /\ Cardinality(s \ {First(s)}) = Cardinality(s) - 1
  <2>1. First(s) \in s
    BY <1>2 DEF First
  <2> QED
    BY <1>1, <2>1, FS_RemoveElement
<1>3. ASSUME NEW g \in [SUBSET S -> V] PROVE Next(g) \in [SUBSET S -> V]
  <2> SUFFICES ASSUME NEW s \in SUBSET S, s # {} PROVE F[First(s)][g[s \ {First(s)}]] \in V
    OBVIOUS
  <2>1. First(s) \in S /\ g[s \ {First(s)}] \in V
    BY <1>2
  <2> QED
    BY <2>1
<1>4. Good(0)
  <2> DEFINE g == [s \in SUBSET S |-> base]
  <2>1. g \in [SUBSET S -> V]
    OBVIOUS
  <2>2. ASSUME NEW s \in Small(0) PROVE s = {}
    BY <1>1, FS_EmptySet
  <2>3. \A s \in Small(0) : g[s] = Next(g)[s]
    BY <2>2
  <2> HIDE DEF g, Next, Small
  <2> QED
    BY <2>1, <2>3
<1>5. ASSUME NEW n \in Nat, Good(n) PROVE Good(n + 1)
  <2>1. PICK g \in [SUBSET S -> V] : \A s \in Small(n) : g[s] = Next(g)[s]
    BY <1>5
  <2> DEFINE h == Next(g)
  <2>2. h \in [SUBSET S -> V]
    BY <1>3
  <2>3. ASSUME NEW s \in Small(n + 1) PROVE h[s] = Next(h)[s]
    <3>1. CASE s = {}
      BY <3>1
    <3>2. CASE s # {}
      <4>1. s \ {First(s)} \in Small(n)
        BY <1>1, <1>2, <3>2
      <4>2. h[s \ {First(s)}] = g[s \ {First(s)}]
        BY <2>1, <4>1
      <4>3. h[s] = F[First(s)][g[s \ {First(s)}]] /\ Next(h)[s] = F[First(s)][h[s \ {First(s)}]]
        BY <3>2
      <4> QED
        BY <4>2, <4>3
    <3> QED
      BY <3>1, <3>2
  <2> HIDE DEF h, Next, Small
  <2> QED
    BY <2>2, <2>3
<1>6. bad = {}
  <2> SUFFICES ASSUME bad # {} PROVE FALSE
    OBVIOUS
  <2>1. IsWellFoundedOn(R, Nat)
    BY NatLessThanWellFounded
  <2>2. bad \in SUBSET Nat
    OBVIOUS
  <2> HIDE DEF bad
  <2>3. PICK n \in bad : \A m \in bad : ~(<<m, n>> \in R)
    <3> HIDE DEF R
    <3> QED
      BY <2>1, <2>2, WFMin
  <2>4. n \in Nat /\ \A m \in bad : ~(m < n)
    BY <2>2, <2>3 DEF OpToRel
  <2> HIDE DEF Good
  <2>5. n # 0
    BY <1>4 DEF bad
  <2>6. n - 1 \in Nat /\ n - 1 < n
    BY <2>4, <2>5
  <2>7. Good(n - 1)
    BY <2>4, <2>6 DEF bad
  <2>8. Good((n - 1) + 1)
    BY <1>5, <2>6, <2>7
  <2>9. (n - 1) + 1 = n
    BY <2>4
  <2> QED
    BY <2>8, <2>9 DEF bad
<1>7. Good(Cardinality(S))
  <2> HIDE DEF Good
  <2> QED
    BY <1>1, <1>6
<1>8. \A s \in SUBSET S : s \in Small(Cardinality(S))
  BY FS_Subset
<1> HIDE DEF Small
<1>9. PICK g \in [SUBSET S -> V] : \A s \in SUBSET S : g[s] = Next(g)[s]
  BY <1>7, <1>8
<1> QED
  BY <1>9 DEF IsFoldOf

(* The sum of v over the subsets of S.                                     *)
SumIter(v, S) ==
  CHOOSE g : g = [s \in SUBSET S |-> IF s = {} THEN 0 ELSE LET x == CHOOSE x \in s : TRUE IN v[x] + g[s \ {x}]]

(* The sum over S is what this comes to.                                   *)
LEMMA SumIsIter == ASSUME NEW v, NEW S PROVE SumFunctionOnSet(v, S) = SumIter(v, S)[S]
BY DEF SumFunctionOnSet, FoldFunctionOnSet, MapThenFoldSet, SumIter

(* The iteration adds one element at a time, and comes to an integer.      *)
LEMMA SumIterIs ==
  ASSUME NEW S, IsFiniteSet(S), NEW v, \A x \in S : v[x] \in Int
  PROVE  /\ SumIter(v, S) \in [SUBSET S -> Int]
         /\ \A s \in SUBSET S : SumIter(v, S)[s] = IF s = {} THEN 0 ELSE v[First(s)] + SumIter(v, S)[s \ {First(s)}]
<1> DEFINE F == [x \in S |-> [n \in Int |-> v[x] + n]]
<1>1. F \in [S -> [Int -> Int]]
  OBVIOUS
<1>2. PICK g \in [SUBSET S -> Int] : IsFoldOf(g, 0, F, S)
  <2>1. 0 \in Int
    OBVIOUS
  <2> HIDE DEF F
  <2> QED
    BY <1>1, <2>1, FoldExists
<1>3. ASSUME NEW s \in SUBSET S PROVE g[s] = IF s = {} THEN 0 ELSE v[First(s)] + g[s \ {First(s)}]
  <2>1. CASE s = {}
    BY <1>2, <2>1 DEF IsFoldOf
  <2>2. CASE s # {}
    <3>1. First(s) \in S /\ g[s \ {First(s)}] \in Int
      BY <2>2 DEF First
    <3>2. g[s] = F[First(s)][g[s \ {First(s)}]]
      BY <1>2, <2>2 DEF IsFoldOf
    <3> QED
      BY <2>2, <3>1, <3>2
  <2> QED
    BY <2>1, <2>2
<1>4. g = [s \in SUBSET S |-> IF s = {} THEN 0 ELSE LET x == CHOOSE x \in s : TRUE IN v[x] + g[s \ {x}]]
  BY <1>3 DEF First
<1>5. SumIter(v, S) = [s \in SUBSET S |-> IF s = {} THEN 0
                                          ELSE LET x == CHOOSE x \in s : TRUE IN v[x] + SumIter(v, S)[s \ {x}]]
  BY <1>4, Zenon DEF SumIter
<1>6. \A s \in SUBSET S : SumIter(v, S)[s] = IF s = {} THEN 0 ELSE v[First(s)] + SumIter(v, S)[s \ {First(s)}]
  BY <1>5 DEF First
<1> DEFINE h == SumIter(v, S)
<1>7. \A s \in SUBSET S : h[s] = g[s]
  <2> DEFINE T == {s \in SUBSET S : h[s] # g[s]}
  <2> SUFFICES ASSUME T # {} PROVE FALSE
    OBVIOUS
  <2>1. T \in SUBSET SUBSET S
    OBVIOUS
  <2>2. PICK s \in T : \A x \in s : s \ {x} \notin T
    <3> HIDE DEF T
    <3> QED
      BY <2>1, SmallestSet
  <2>3. s # {}
    BY <1>3, <1>6
  <2>4. First(s) \in s
    BY <2>3 DEF First
  <2>5. h[s \ {First(s)}] = g[s \ {First(s)}]
    BY <2>2, <2>4
  <2> QED
    BY <1>3, <1>6, <2>3, <2>5
<1>8. h = g
  <2>1. h = [s \in SUBSET S |-> h[s]]
    BY <1>5
  <2>2. g = [s \in SUBSET S |-> g[s]]
    OBVIOUS
  <2> HIDE DEF h
  <2> QED
    BY <1>7, <2>1, <2>2
<1> QED
  BY <1>6, <1>8

(* What is summed over a subset does not depend on the set around it.      *)
LEMMA SumsAgree ==
  ASSUME NEW S, IsFiniteSet(S), NEW v, \A x \in S : v[x] \in Int, NEW s \in SUBSET S
  PROVE  SumFunctionOnSet(v, s) = SumIter(v, S)[s]
<1> DEFINE g == SumIter(v, s)
           h == SumIter(v, S)
           T == {r \in SUBSET s : g[r] # h[r]}
<1>1. IsFiniteSet(s) /\ \A x \in s : v[x] \in Int
  BY FS_Subset
<1>2. /\ \A r \in SUBSET s : g[r] = IF r = {} THEN 0 ELSE v[First(r)] + g[r \ {First(r)}]
      /\ \A r \in SUBSET s : h[r] = IF r = {} THEN 0 ELSE v[First(r)] + h[r \ {First(r)}]
  BY <1>1, SumIterIs
<1>3. T = {}
  <2> SUFFICES ASSUME T # {} PROVE FALSE
    OBVIOUS
  <2>1. T \in SUBSET SUBSET s
    OBVIOUS
  <2>2. PICK r \in T : \A x \in r : r \ {x} \notin T
    <3> HIDE DEF T
    <3> QED
      BY <1>1, <2>1, SmallestSet
  <2> HIDE DEF g, h
  <2>3. r # {}
    BY <1>2
  <2>4. First(r) \in r
    BY <2>3 DEF First
  <2>5. g[r \ {First(r)}] = h[r \ {First(r)}]
    BY <2>2, <2>4
  <2> QED
    BY <1>2, <2>3, <2>5
<1>4. g[s] = h[s]
  BY <1>3
<1> QED
  BY <1>4, SumIsIter

(* A sum is what one summand adds to the sum of the others, whichever it   *)
(* is; nothing adds up to 0.                                               *)
LEMMA SumsAddUp ==
  ASSUME NEW S, IsFiniteSet(S), NEW v, \A x \in S : v[x] \in Int
  PROVE  /\ \A s \in SUBSET S : SumFunctionOnSet(v, s) \in Int
         /\ SumFunctionOnSet(v, {}) = 0
         /\ \A s \in SUBSET S : \A x \in s : SumFunctionOnSet(v, s) = v[x] + SumFunctionOnSet(v, s \ {x})
<1> DEFINE h == SumIter(v, S)
           T == {s \in SUBSET S : ~ \A x \in s : h[s] = v[x] + h[s \ {x}]}
<1>1. h \in [SUBSET S -> Int]
      /\ \A s \in SUBSET S : h[s] = IF s = {} THEN 0 ELSE v[First(s)] + h[s \ {First(s)}]
  BY SumIterIs
<1>2. \A s \in SUBSET S : SumFunctionOnSet(v, s) = h[s]
  BY SumsAgree
<1> HIDE DEF h
<1>3. T = {}
  <2> SUFFICES ASSUME T # {} PROVE FALSE
    OBVIOUS
  <2>1. T \in SUBSET SUBSET S
    OBVIOUS
  <2>2. PICK s \in T : \A x \in s : s \ {x} \notin T
    <3> HIDE DEF T
    <3> QED
      BY <2>1, SmallestSet
  <2>3. PICK y \in s : h[s] # v[y] + h[s \ {y}]
    OBVIOUS
  <2> DEFINE x == First(s)
  <2>4. x \in s /\ s \in SUBSET S /\ h[s] = v[x] + h[s \ {x}]
    BY <1>1 DEF First
  <2> HIDE DEF x
  <2>5. x # y
    BY <2>3, <2>4
  <2>6. h[s \ {x}] = v[y] + h[(s \ {x}) \ {y}]
    BY <2>2, <2>4, <2>5
  <2>7. h[s \ {y}] = v[x] + h[(s \ {y}) \ {x}]
    BY <2>2, <2>4, <2>5
  <2>8. (s \ {x}) \ {y} = (s \ {y}) \ {x}
    OBVIOUS
  <2>9. v[x] \in Int /\ v[y] \in Int /\ h[(s \ {y}) \ {x}] \in Int
    BY <1>1, <2>4
  <2>10. h[s] = v[x] + (v[y] + h[(s \ {y}) \ {x}]) /\ v[y] + h[s \ {y}] = v[y] + (v[x] + h[(s \ {y}) \ {x}])
    BY <2>4, <2>6, <2>7, <2>8
  <2> DEFINE rest == h[(s \ {y}) \ {x}]
  <2> HIDE DEF rest, T
  <2> QED
    BY <2>3, <2>9, <2>10 DEF rest
<1>4. ASSUME NEW s \in SUBSET S, NEW x \in s PROVE h[s] = v[x] + h[s \ {x}]
  BY <1>3
<1>5. \A s \in SUBSET S : SumFunctionOnSet(v, s) \in Int
  BY <1>1, <1>2
<1>6. SumFunctionOnSet(v, {}) = 0
  <2>1. {} \in SUBSET S /\ h[{}] = 0
    BY <1>1
  <2> QED
    BY <1>2, <2>1
<1>7. ASSUME NEW s \in SUBSET S, NEW x \in s
             PROVE SumFunctionOnSet(v, s) = v[x] + SumFunctionOnSet(v, s \ {x})
  <2>1. s \ {x} \in SUBSET S
    OBVIOUS
  <2>2. SumFunctionOnSet(v, s) = h[s] /\ SumFunctionOnSet(v, s \ {x}) = h[s \ {x}]
    BY <1>2, <2>1
  <2> QED
    BY <1>4, <2>2
<1> QED
  BY <1>5, <1>6, <1>7

(* A sum may be taken over other names p[x] of what is summed.             *)
LEMMA SumsRename ==
  ASSUME NEW S, IsFiniteSet(S), NEW p, \A x, y \in S : p[x] = p[y] => x = y,
         NEW v, NEW w, \A x \in S : w[x] \in Int /\ v[p[x]] = w[x]
  PROVE  SumFunctionOnSet(v, {p[x] : x \in S}) = SumFunctionOnSet(w, S)
<1> DEFINE Names(s) == {p[x] : x \in s}
           T == {s \in SUBSET S : SumFunctionOnSet(v, Names(s)) # SumFunctionOnSet(w, s)}
<1>1. IsFiniteSet(Names(S)) /\ \A n \in Names(S) : v[n] \in Int
  <2>1. [x \in S |-> p[x]] \in Surjection(S, Names(S))
    BY DEF Surjection
  <2> QED
    BY <2>1, FS_Surjection
<1>2. /\ SumFunctionOnSet(v, {}) = 0 /\ SumFunctionOnSet(w, {}) = 0
      /\ \A s \in SUBSET S : \A x \in s : SumFunctionOnSet(w, s) = w[x] + SumFunctionOnSet(w, s \ {x})
      /\ \A s \in SUBSET Names(S) : \A n \in s : SumFunctionOnSet(v, s) = v[n] + SumFunctionOnSet(v, s \ {n})
  BY <1>1, SumsAddUp
<1>3. T = {}
  <2> SUFFICES ASSUME T # {} PROVE FALSE
    OBVIOUS
  <2>1. T \in SUBSET SUBSET S
    OBVIOUS
  <2>2. PICK s \in T : \A x \in s : s \ {x} \notin T
    <3> HIDE DEF T
    <3> QED
      BY <2>1, SmallestSet
  <2>3. s # {}
    <3>1. Names({}) = {}
      OBVIOUS
    <3> HIDE DEF Names
    <3> QED
      BY <1>2, <3>1
  <2>4. PICK x \in s : TRUE
    BY <2>3
  <2>5. Names(s) \in SUBSET Names(S) /\ p[x] \in Names(s) /\ Names(s) \ {p[x]} = Names(s \ {x})
    OBVIOUS
  <2>6. s \in SUBSET S /\ s \ {x} \in SUBSET S /\ v[p[x]] = w[x]
    OBVIOUS
  <2>7. SumFunctionOnSet(v, Names(s \ {x})) = SumFunctionOnSet(w, s \ {x})
    <3> HIDE DEF Names
    <3> QED
      BY <2>2, <2>6
  <2>8. SumFunctionOnSet(v, Names(s)) # SumFunctionOnSet(w, s)
    OBVIOUS
  <2> HIDE DEF Names, T
  <2>9. SumFunctionOnSet(w, s) = w[x] + SumFunctionOnSet(w, s \ {x})
    BY <1>2, <2>6
  <2>10. SumFunctionOnSet(v, Names(s)) = v[p[x]] + SumFunctionOnSet(v, Names(s) \ {p[x]})
    BY <1>2, <2>5
  <2> QED
    BY <2>5, <2>6, <2>7, <2>8, <2>9, <2>10
<1> QED
  BY <1>3
-----------------------------------------------------------------------------
(* Metrics sync, for any number of posts, jobs and days: a snapshot tells  *)
(* what the platform had reached on its day, and the dashboard's total     *)
(* counts no unknown number as zero.                                       *)

(* The state of a row, what a job keeps of it, a job in Redis and what the *)
(* API keeps.                                                              *)
RowStates == [likes : Values, public : BOOLEAN]
Readings == [at : {"idle", "ask", "date", "store", "end"}, got : Values, day : 0..MaxDays, shown : RowStates]
MetricDeliveries == [state : {"none", "waiting", "running", "done", "dead"}, tries : 0..MetricTries, stalled : BOOLEAN]
JobRows == {"none", "QUEUED", "RUNNING", "COMPLETED", "FAILED", "DEAD"}
Views == [doing : {"none", "refresh", "public", "cancel"}, shown : RowStates]

(* Each variable has its type.                                             *)
WorldTyped ==
  /\ likes \in [Target -> 0..MaxLikes] /\ today \in 1..MaxDays
  /\ evening \in [1..MaxDays -> [Target -> 0..MaxLikes]] /\ target \in [MetricJob -> Target]
MetricJobsTyped ==
  /\ reading \in [MetricJob -> Readings] /\ delivery \in [MetricJob -> MetricDeliveries]
  /\ jobRow \in [MetricJob -> JobRows]
RowsTyped ==
  /\ status \in [Target -> {"PUBLISHED", "CANCELLED"}] /\ shown \in [Target -> RowStates]
  /\ metric \in [Target -> Values] /\ snapshot \in [Target -> [1..MaxDays -> Values]]
  /\ viewer \in [Target -> Views]

(* A job that is being worked on is with a worker, and has used an attempt;*)
(* one that waits has one left.                                            *)
JobFits(j) ==
  /\ reading[j].at # "idle" => delivery[j].state = "running" /\ jobRow[j] # "none"
  /\ delivery[j].state = "running" => delivery[j].tries > 0
  /\ delivery[j].state = "waiting" => delivery[j].tries < MetricTries
  /\ jobRow[j] = "none" => delivery[j].tries = 0

(* What the platform counts, or counted at the end of a day that is past.  *)
Reached(d, t) == IF d = today THEN likes[t] ELSE evening[d][t]

(* What a job read is true now, or of the day it chose.                    *)
ReadingIsTrue(j) ==
  /\ reading[j].day <= today
  /\ reading[j].at = "date" => reading[j].got.value <= likes[target[j]]
  /\ reading[j].at = "store" => reading[j].day >= 1
     /\ reading[j].got.value <= Reached(reading[j].day, target[j])

(* What is stored under a day the platform had reached on it; the days to  *)
(* come are empty.                                                         *)
SnapshotsAreTrue ==
  \A t \in Target, d \in 1..MaxDays : /\ d <= today => snapshot[t][d].value <= Reached(d, t)
                                      /\ d > today => snapshot[t][d] = Blank("NOT_SYNCED")

(* The inductive invariant.                                                *)
MetricsInv ==
  /\ WorldTyped /\ MetricJobsTyped /\ RowsTyped /\ SnapshotsAreTrue
  /\ \A j \in MetricJob : JobFits(j) /\ ReadingIsTrue(j)

(* The constants and the values are numbers.                               *)
LEMMA MetricNumbers ==
  /\ MaxDays \in Nat /\ MaxDays >= 1 /\ MetricTries \in Nat /\ MetricTries >= 1 /\ MaxLikes \in Nat
  /\ \A s \in Sources : Blank(s) \in Values /\ Blank(s).value = -1
  /\ \A n \in 0..MaxLikes : FromApi(n) \in Values /\ FromApi(n).value = n
  /\ \A v \in Values : v.value \in Int
<1>1. MaxDays \in Nat /\ MaxDays >= 1 /\ MetricTries \in Nat /\ MetricTries >= 1 /\ MaxLikes \in Nat
  BY MetricsAssumption
<1>2. \A s \in Sources : Blank(s) \in Values /\ Blank(s).value = -1
  BY DEF Blank, Values, Unknown
<1>3. \A n \in 0..MaxLikes : FromApi(n) \in Values /\ FromApi(n).value = n
  BY DEF FromApi, Values, Sources
<1>4. \A v \in Values : v.value \in Int
  BY <1>1 DEF Values, Unknown
<1> QED
  BY <1>1, <1>2, <1>3, <1>4

(* A job at rest and a row that nobody views have their types.             *)
LEMMA RestingFits ==
  /\ AtRest \in Readings /\ AtRest.at = "idle" /\ AtRest.day = 0 /\ NoView \in Views
  /\ Blank("NOT_SYNCED") \in Values /\ Blank("NOT_SYNCED").source = "NOT_SYNCED"
<1>1. Blank("NOT_SYNCED") \in Values
  BY MetricNumbers DEF Sources
<1> QED
  BY <1>1, MetricNumbers DEF AtRest, NoView, Readings, Views, RowStates, Blank

(* Nothing has been read.                                                  *)
LEMMA MetricsInvInit == MetricsInit => MetricsInv
<1> SUFFICES ASSUME MetricsInit PROVE MetricsInv
  OBVIOUS
<1>1. WorldTyped
  <2>1. 0 \in 0..MaxLikes /\ 1 \in 1..MaxDays
    BY MetricNumbers
  <2> QED
    BY <2>1 DEF MetricsInit, WorldTyped
<1>2. MetricJobsTyped
  <2>1. [state |-> "none", tries |-> 0, stalled |-> FALSE] \in MetricDeliveries
    BY MetricNumbers DEF MetricDeliveries
  <2> QED
    BY <2>1, RestingFits DEF MetricsInit, MetricJobsTyped, JobRows
<1>3. RowsTyped
  <2>1. [likes |-> Blank("NOT_SYNCED"), public |-> FALSE] \in RowStates
    BY RestingFits DEF RowStates
  <2> QED
    BY <2>1, RestingFits DEF MetricsInit, RowsTyped
<1>4. SnapshotsAreTrue
  <2>1. today = 1 /\ \A t \in Target : likes[t] = 0
    BY DEF MetricsInit
  <2>2. \A t \in Target, d \in 1..MaxDays : snapshot[t][d] = Blank("NOT_SYNCED")
    BY DEF MetricsInit
  <2>3. Blank("NOT_SYNCED").value = -1
    BY MetricNumbers DEF Sources
  <2>4. \A t \in Target, d \in 1..MaxDays : d <= today => Reached(d, t) = 0
    BY <2>1, MetricNumbers DEF Reached
  <2> QED
    BY <2>2, <2>3, <2>4 DEF SnapshotsAreTrue
<1>5. ASSUME NEW j \in MetricJob PROVE JobFits(j) /\ ReadingIsTrue(j)
  <2>1. reading[j] = AtRest /\ delivery[j] = [state |-> "none", tries |-> 0, stalled |-> FALSE] /\ today = 1
    BY DEF MetricsInit
  <2> QED
    BY <2>1, RestingFits DEF JobFits, ReadingIsTrue
<1> QED
  BY <1>1, <1>2, <1>3, <1>4, <1>5 DEF MetricsInv

(* A step of one job at a place where the platform and the day rest.       *)
LEMMA JobMoves ==
  ASSUME MetricsInv, NEW j \in MetricJob, NEW r \in Readings, NEW e \in MetricDeliveries, NEW w \in JobRows,
         reading' = [reading EXCEPT ![j] = r], delivery' = [delivery EXCEPT ![j] = e],
         jobRow' = [jobRow EXCEPT ![j] = w], UNCHANGED metricWorld,
         RowsTyped', SnapshotsAreTrue', JobFits(j)', ReadingIsTrue(j)'
  PROVE  MetricsInv'
<1>1. /\ reading \in [MetricJob -> Readings] /\ delivery \in [MetricJob -> MetricDeliveries]
      /\ jobRow \in [MetricJob -> JobRows]
  BY DEF MetricsInv, MetricJobsTyped
<1>2. MetricJobsTyped'
  BY <1>1 DEF MetricJobsTyped
<1>3. WorldTyped'
  BY DEF MetricsInv, WorldTyped, metricWorld
<1>4. ASSUME NEW k \in MetricJob \ {j} PROVE JobFits(k)' /\ ReadingIsTrue(k)'
  <2>1. reading'[k] = reading[k] /\ delivery'[k] = delivery[k] /\ jobRow'[k] = jobRow[k]
    BY <1>1
  <2>2. JobFits(k)'
    BY <2>1 DEF MetricsInv, JobFits
  <2>3. today' = today /\ likes' = likes /\ evening' = evening /\ target' = target
    BY DEF metricWorld
  <2>4. ReadingIsTrue(k)'
    BY <2>1, <2>3 DEF MetricsInv, ReadingIsTrue, Reached
  <2> QED
    BY <2>2, <2>4
<1> QED
  BY <1>2, <1>3, <1>4 DEF MetricsInv

(* The snapshots are as true as they were when they and the days rest.     *)
LEMMA SnapshotsRest ==
  ASSUME MetricsInv, UNCHANGED <<metricWorld, snapshot>>
  PROVE  SnapshotsAreTrue'
<1>1. today' = today /\ likes' = likes /\ evening' = evening /\ snapshot' = snapshot
  BY DEF metricWorld
<1> QED
  BY <1>1 DEF MetricsInv, SnapshotsAreTrue, Reached

(* One step per action.                                                    *)
LEMMA MetricsInvStep == MetricsInv /\ [MetricsNext]_metricVars => MetricsInv'
<1> SUFFICES ASSUME MetricsInv, [MetricsNext]_metricVars PROVE MetricsInv'
  OBVIOUS
<1>0. /\ WorldTyped /\ MetricJobsTyped /\ RowsTyped /\ SnapshotsAreTrue
      /\ \A j \in MetricJob : JobFits(j) /\ ReadingIsTrue(j)
  BY DEF MetricsInv
<1>t. /\ likes \in [Target -> 0..MaxLikes] /\ today \in 1..MaxDays /\ target \in [MetricJob -> Target]
      /\ evening \in [1..MaxDays -> [Target -> 0..MaxLikes]]
      /\ reading \in [MetricJob -> Readings] /\ delivery \in [MetricJob -> MetricDeliveries]
      /\ jobRow \in [MetricJob -> JobRows]
      /\ status \in [Target -> {"PUBLISHED", "CANCELLED"}] /\ shown \in [Target -> RowStates]
      /\ metric \in [Target -> Values] /\ snapshot \in [Target -> [1..MaxDays -> Values]]
      /\ viewer \in [Target -> Views]
  BY <1>0 DEF WorldTyped, MetricJobsTyped, RowsTyped
<1>1. ASSUME NEW t \in Target, Like(t) PROVE MetricsInv'
  <2>1. /\ likes' = [likes EXCEPT ![t] = likes[t] + 1] /\ likes[t] < MaxLikes
        /\ UNCHANGED <<today, evening, target, reading, delivery, jobRow, status, shown, metric, snapshot, viewer>>
    BY <1>1 DEF Like, metricTables
  <2>2. likes' \in [Target -> 0..MaxLikes] /\ \A u \in Target : likes[u] <= likes'[u] /\ likes'[u] \in Int
        /\ likes[u] \in Int
    BY <1>t, <2>1, MetricNumbers
  <2>3. \A u \in Target, d \in 1..MaxDays : /\ Reached(d, u) <= Reached(d, u)'
                                            /\ Reached(d, u) \in Int /\ Reached(d, u)' \in Int
    <3>1. \A u \in Target, d \in 1..MaxDays : evening[d][u] \in 0..MaxLikes
      BY <1>t
    <3> QED
      BY <2>1, <2>2, <3>1, MetricNumbers DEF Reached
  <2>4. SnapshotsAreTrue'
    <3>1. \A u \in Target, d \in 1..MaxDays : snapshot[u][d].value \in Int
      BY <1>t, MetricNumbers
    <3> QED
      BY <1>0, <2>1, <2>3, <3>1 DEF SnapshotsAreTrue
  <2>5. ASSUME NEW j \in MetricJob PROVE JobFits(j)' /\ ReadingIsTrue(j)'
    <3>1. JobFits(j)'
      BY <1>0, <2>1 DEF JobFits
    <3>2. /\ reading[j].got.value \in Int /\ target[j] \in Target /\ reading[j].day \in Int
             /\ today \in 1..MaxDays
          /\ reading[j].day \in 0..MaxDays
      BY <1>t, MetricNumbers DEF Readings
    <3>3. reading[j].at = "date" => reading[j].got.value <= likes'[target[j]]
      BY <1>0, <2>2, <3>2 DEF ReadingIsTrue
    <3>4. ASSUME reading[j].at = "store"
          PROVE  reading[j].day >= 1 /\ reading[j].got.value <= Reached(reading[j].day, target[j])'
      <4>1. reading[j].day >= 1 /\ reading[j].got.value <= Reached(reading[j].day, target[j])
        BY <1>0, <3>4 DEF ReadingIsTrue
      <4>2. reading[j].day \in 1..MaxDays
        BY <3>2, <4>1
      <4>3. Reached(reading[j].day, target[j]) <= Reached(reading[j].day, target[j])'
            /\ Reached(reading[j].day, target[j]) \in Int /\ Reached(reading[j].day, target[j])' \in Int
        BY <2>1, <2>3, <3>2, <4>2
      <4> QED
        BY <3>2, <4>1, <4>3
    <3> QED
      BY <1>0, <2>1, <3>1, <3>3, <3>4 DEF ReadingIsTrue
  <2> QED
    BY <1>0, <2>1, <2>2, <2>4, <2>5 DEF MetricsInv, WorldTyped, MetricJobsTyped, RowsTyped
<1>2. CASE Midnight
  <2>1. /\ today < MaxDays /\ today' = today + 1 /\ evening' = [evening EXCEPT ![today] = likes]
        /\ UNCHANGED <<likes, target, reading, delivery, jobRow, status, shown, metric, snapshot, viewer>>
    BY <1>2 DEF Midnight, metricTables
  <2>2. today' \in 1..MaxDays /\ evening' \in [1..MaxDays -> [Target -> 0..MaxLikes]]
        /\ evening'[today] = likes /\ \A d \in 1..MaxDays \ {today} : evening'[d] = evening[d]
    BY <1>t, <2>1, MetricNumbers
  <2>3. \A u \in Target, d \in 1..MaxDays : d <= today => Reached(d, u)' = Reached(d, u)
    BY <1>t, <2>1, <2>2, MetricNumbers DEF Reached
  <2>4. SnapshotsAreTrue'
    <3> SUFFICES ASSUME NEW u \in Target, NEW d \in 1..MaxDays
                 PROVE  /\ d <= today' => snapshot[u][d].value <= Reached(d, u)'
                        /\ d > today' => snapshot[u][d] = Blank("NOT_SYNCED")
      BY <2>1 DEF SnapshotsAreTrue
    <3>1. CASE d <= today
      BY <1>0, <1>t, <2>1, <2>3, <3>1 DEF SnapshotsAreTrue
    <3>2. CASE d > today
      <4>1. snapshot[u][d] = Blank("NOT_SYNCED") /\ Blank("NOT_SYNCED").value = -1
        BY <1>0, <3>2, MetricNumbers DEF SnapshotsAreTrue, Sources
      <4>2. likes'[u] >= 0 /\ likes'[u] \in Int
        BY <1>t, <2>1, MetricNumbers
      <4>3. d <= today' => Reached(d, u)' = likes'[u]
        BY <1>t, <2>1, <3>2 DEF Reached
      <4> QED
        BY <4>1, <4>2, <4>3
    <3> QED
      BY <1>t, <3>1, <3>2
  <2>5. ASSUME NEW j \in MetricJob PROVE JobFits(j)' /\ ReadingIsTrue(j)'
    <3>1. JobFits(j)'
      BY <1>0, <2>1 DEF JobFits
    <3>2. target[j] \in Target /\ reading[j].day \in 0..MaxDays /\ reading[j].day <= today
      BY <1>0, <1>t DEF Readings, ReadingIsTrue
    <3>3. reading[j].day >= 1 => Reached(reading[j].day, target[j])' = Reached(reading[j].day, target[j])
      BY <2>1, <2>3, <3>2
    <3> QED
      BY <1>0, <1>t, <2>1, <3>1, <3>2, <3>3 DEF ReadingIsTrue
  <2> QED
    BY <1>0, <2>1, <2>2, <2>4, <2>5 DEF MetricsInv, WorldTyped, MetricJobsTyped, RowsTyped
<1>3. ASSUME NEW j \in MetricJob, EnqueueSync(j) PROVE MetricsInv'
  <2>1. /\ jobRow[j] = "none" /\ jobRow' = [jobRow EXCEPT ![j] = "QUEUED"]
        /\ delivery' \in {delivery, [delivery EXCEPT ![j].state = "waiting"]}
        /\ UNCHANGED <<metricWorld, reading, status, shown, metric, snapshot, viewer>>
    BY <1>3 DEF EnqueueSync, metricTables
  <2>2. PICK e \in MetricDeliveries : /\ delivery' = [delivery EXCEPT ![j] = e] /\ e.tries = delivery[j].tries
                                      /\ e.state = delivery[j].state \/ e.state = "waiting"
    <3>1. CASE delivery' = delivery
      <4>1. delivery' = [delivery EXCEPT ![j] = delivery[j]]
        BY <1>t, <3>1
      <4> QED
        BY <1>t, <4>1
    <3>2. CASE delivery' = [delivery EXCEPT ![j].state = "waiting"]
      <4> DEFINE e == [delivery[j] EXCEPT !.state = "waiting"]
      <4>1. delivery' = [delivery EXCEPT ![j] = e] /\ e \in MetricDeliveries
            /\ e.tries = delivery[j].tries /\ e.state = "waiting"
        BY <1>t, <3>2 DEF MetricDeliveries
      <4> QED
        BY <4>1
    <3> QED
      BY <2>1, <3>1, <3>2
  <2>3. reading' = [reading EXCEPT ![j] = reading[j]] /\ reading[j] \in Readings /\ reading'[j] = reading[j]
        /\ delivery'[j] = e
    BY <1>t, <2>1, <2>2
  <2>4. "QUEUED" \in JobRows /\ jobRow'[j] = "QUEUED"
    BY <1>t, <2>1 DEF JobRows
  <2>5. JobFits(j)'
    <3>1. reading[j].at = "idle" /\ delivery[j].tries = 0 /\ jobRow[j] = "none"
      BY <1>0, <2>1 DEF JobFits
    <3>2. delivery[j].state # "running"
      BY <1>0, <3>1 DEF JobFits
    <3> QED
      BY <2>2, <2>3, <2>4, <3>1, <3>2, MetricNumbers DEF JobFits
  <2>6. ReadingIsTrue(j)'
    BY <1>0, <2>1 DEF ReadingIsTrue, metricWorld, Reached
  <2>7. RowsTyped'
    BY <1>0, <2>1 DEF RowsTyped
  <2>8. SnapshotsAreTrue'
    BY <2>1, SnapshotsRest
  <2> QED
    BY <2>1, <2>2, <2>3, <2>4, <2>5, <2>6, <2>7, <2>8, JobMoves
(* Steps of a job that has the worker and leaves the rows of posts alone.  *)
<1>m. ASSUME NEW j \in MetricJob, NEW r \in Readings, NEW e \in MetricDeliveries,
             NEW w \in JobRows \ {"none"},
             reading' = [reading EXCEPT ![j] = r], delivery' = [delivery EXCEPT ![j] = e],
             jobRow' = [jobRow EXCEPT ![j] = w],
             UNCHANGED <<metricWorld, status, shown, metric, snapshot, viewer>>,
             r.at # "idle" => e.state = "running", e.state = "running" => e.tries > 0,
             e.state = "waiting" => e.tries < MetricTries,
             r.day <= today, r.at = "date" => r.got.value <= likes[target[j]],
             r.at = "store" => r.day >= 1 /\ r.got.value <= Reached(r.day, target[j])
      PROVE  MetricsInv'
  <2>1. reading'[j] = r /\ delivery'[j] = e /\ jobRow'[j] = w
    BY <1>t, <1>m
  <2>2. JobFits(j)'
    BY <1>m, <2>1 DEF JobFits
  <2>3. today' = today /\ likes' = likes /\ evening' = evening /\ target' = target
    BY <1>m DEF metricWorld
  <2>4. ReadingIsTrue(j)'
    BY <1>m, <2>1, <2>3 DEF ReadingIsTrue, Reached
  <2>5. RowsTyped'
    BY <1>0, <1>m DEF RowsTyped
  <2>6. SnapshotsAreTrue'
    BY <1>m, SnapshotsRest
  <2> QED
    BY <1>m, <2>2, <2>4, <2>5, <2>6, JobMoves
<1>k. ASSUME NEW j \in MetricJob, NEW r \in Readings, reading' = [reading EXCEPT ![j] = r],
             UNCHANGED <<metricWorld, delivery, jobRow, status, shown, metric, snapshot, viewer>>,
             reading[j].at # "idle",
             r.day <= today, r.at = "date" => r.got.value <= likes[target[j]],
             r.at = "store" => r.day >= 1 /\ r.got.value <= Reached(r.day, target[j])
      PROVE  MetricsInv'
  <2>1. /\ delivery[j] \in MetricDeliveries /\ delivery' = [delivery EXCEPT ![j] = delivery[j]]
        /\ jobRow[j] \in JobRows /\ jobRow' = [jobRow EXCEPT ![j] = jobRow[j]]
    BY <1>t, <1>k
  <2>2. /\ jobRow[j] \in JobRows \ {"none"}
        /\ r.at # "idle" => delivery[j].state = "running"
        /\ delivery[j].state = "running" => delivery[j].tries > 0
        /\ delivery[j].state = "waiting" => delivery[j].tries < MetricTries
    BY <1>0, <1>k, <2>1 DEF JobFits
  <2>3. UNCHANGED <<metricWorld, status, shown, metric, snapshot, viewer>>
    BY <1>k
  <2> DEFINE e == delivery[j]
             w == jobRow[j]
  <2>4. /\ e \in MetricDeliveries /\ delivery' = [delivery EXCEPT ![j] = e] /\ w \in JobRows \ {"none"}
        /\ jobRow' = [jobRow EXCEPT ![j] = w] /\ (r.at # "idle" => e.state = "running")
        /\ (e.state = "running" => e.tries > 0) /\ (e.state = "waiting" => e.tries < MetricTries)
    BY <2>1, <2>2
  <2> HIDE DEF e, w
  <2> QED
    BY <1>k, <2>3, <2>4, <1>m
<1>4. ASSUME NEW j \in MetricJob, TakeMetricJob(j) PROVE MetricsInv'
  <2> DEFINE t == target[j]
             r == [AtRest EXCEPT !.at = IF status[t] = "PUBLISHED" THEN "ask" ELSE "end", !.shown = shown[t]]
             e == [delivery[j] EXCEPT !.state = "running", !.tries = @ + 1]
  <2>1. /\ delivery[j].state = "waiting" /\ reading' = [reading EXCEPT ![j] = r]
        /\ jobRow' = [jobRow EXCEPT ![j] = "RUNNING"]
        /\ UNCHANGED <<metricWorld, status, shown, metric, snapshot, viewer>>
    BY <1>4 DEF TakeMetricJob, metricTables
  <2>2. delivery' = [delivery EXCEPT ![j] = e]
    BY <1>4, <1>t DEF TakeMetricJob
  <2>3. r \in Readings /\ r.at \in {"ask", "end"} /\ r.day = 0
    BY <1>t, RestingFits DEF Readings, AtRest
  <2>4. delivery[j] \in MetricDeliveries /\ delivery[j].tries < MetricTries
        /\ delivery[j].tries \in 0..MetricTries
    BY <1>0, <1>t, <2>1 DEF JobFits, MetricDeliveries
  <2>5. e \in MetricDeliveries /\ e.state = "running" /\ e.tries > 0
    <3>1. delivery[j].tries + 1 \in 0..MetricTries /\ delivery[j].tries + 1 > 0
      BY <2>4, MetricNumbers
    <3> QED
      BY <2>4, <3>1 DEF MetricDeliveries
  <2>6. today >= 0
    BY <1>t, MetricNumbers
  <2>7. "RUNNING" \in JobRows \ {"none"}
    BY DEF JobRows
  <2> HIDE DEF r, e
  <2> QED
    BY <2>1, <2>2, <2>3, <2>5, <2>6, <2>7, <1>m
<1>5. ASSUME NEW j \in MetricJob, AskPlatform(j) PROVE MetricsInv'
  <2>1. PICK got \in {FromApi(likes[target[j]]), Blank("UNSUPPORTED")} :
          reading[j].at = "ask" /\ reading' = [reading EXCEPT ![j].at = "date", ![j].got = got]
    BY <1>5 DEF AskPlatform
  <2>2. got \in Values /\ got.value <= likes[target[j]]
    BY <1>t, MetricNumbers DEF Sources
  <2> DEFINE r == [reading[j] EXCEPT !.at = "date", !.got = got]
  <2>3. reading' = [reading EXCEPT ![j] = r]
    BY <1>t, <2>1
  <2>4. r \in Readings /\ r.at = "date" /\ r.got = got /\ r.day = reading[j].day
    BY <1>t, <2>2 DEF Readings
  <2> HIDE DEF r
  <2> QED
    BY <1>0, <1>5, <2>1, <2>2, <2>3, <2>4, <1>k DEF AskPlatform, metricTables, ReadingIsTrue
<1>6. ASSUME NEW j \in MetricJob, MetricDate(j) PROVE MetricsInv'
  <2> DEFINE r == [reading[j] EXCEPT !.at = "store", !.day = today]
  <2>1. reading' = [reading EXCEPT ![j] = r] /\ reading[j].at = "date"
    BY <1>t, <1>6 DEF MetricDate
  <2>t. today \in 0..MaxDays /\ today >= 1 /\ today <= today
    BY <1>t, MetricNumbers
  <2>2. r \in Readings /\ r.at = "store" /\ r.day = today /\ r.got = reading[j].got
    BY <1>t, <2>t DEF Readings
  <2> HIDE DEF r
  <2>3. r.got.value <= Reached(r.day, target[j])
    BY <1>0, <2>1, <2>2 DEF ReadingIsTrue, Reached
  <2> QED
    BY <1>6, <2>1, <2>t, <2>2, <2>3, <1>k DEF MetricDate, metricTables
<1>7. ASSUME NEW j \in MetricJob, Persist(j) PROVE MetricsInv'
  <2> DEFINE t == target[j]
             got == reading[j].got
             day == reading[j].day
             r == [reading[j] EXCEPT !.at = "end"]
  <2>1. /\ reading[j].at = "store" /\ metric' = [metric EXCEPT ![t] = got]
        /\ snapshot' = [snapshot EXCEPT ![t][day] = got]
        /\ shown' = [shown EXCEPT ![t] = [reading[j].shown EXCEPT !.likes = got]]
        /\ UNCHANGED <<metricWorld, delivery, jobRow, status, viewer>>
    BY <1>7 DEF Persist
  <2>2. reading' = [reading EXCEPT ![j] = r] /\ r \in Readings /\ r.at = "end" /\ r.day = day
    BY <1>t, <1>7 DEF Persist, Readings
  <2>3. /\ got \in Values /\ t \in Target /\ day \in 1..today /\ day \in 1..MaxDays
           /\ got.value <= Reached(day, t)
        /\ [reading[j].shown EXCEPT !.likes = got] \in RowStates
    <3>1. reading[j] \in Readings /\ t \in Target
      BY <1>t
    <3>2. got \in Values /\ day \in 0..MaxDays /\ reading[j].shown \in RowStates
      BY <3>1 DEF Readings
    <3>3. [reading[j].shown EXCEPT !.likes = got] \in RowStates
      BY <3>2 DEF RowStates
    <3>4. day >= 1 /\ day <= today /\ got.value <= Reached(day, t)
      BY <1>0, <2>1 DEF ReadingIsTrue
    <3> QED
      BY <1>t, <3>1, <3>2, <3>3, <3>4, MetricNumbers
  <2>4. /\ snapshot' \in [Target -> [1..MaxDays -> Values]] /\ snapshot'[t][day] = got
        /\ \A u \in Target, d \in 1..MaxDays : u # t \/ d # day => snapshot'[u][d] = snapshot[u][d]
    <3> DEFINE row == [snapshot[t] EXCEPT ![day] = got]
    <3>1. snapshot' = [snapshot EXCEPT ![t] = row] /\ snapshot[t] \in [1..MaxDays -> Values]
      BY <1>t, <2>1, <2>3
    <3>2. row \in [1..MaxDays -> Values] /\ row[day] = got
          /\ \A d \in 1..MaxDays \ {day} : row[d] = snapshot[t][d]
      BY <2>3, <3>1
    <3> HIDE DEF row
    <3>3. snapshot' \in [Target -> [1..MaxDays -> Values]] /\ snapshot'[t] = row
          /\ \A u \in Target \ {t} : snapshot'[u] = snapshot[u]
      BY <1>t, <2>3, <3>1, <3>2
    <3> QED
      BY <2>3, <3>2, <3>3
  <2>5. metric' \in [Target -> Values] /\ shown' \in [Target -> RowStates]
    BY <1>t, <2>1, <2>3
  <2> HIDE DEF r, t, got, day
  <2>6. RowsTyped'
    BY <1>0, <2>1, <2>4, <2>5 DEF RowsTyped
  <2>7. today' = today /\ likes' = likes /\ evening' = evening /\ target' = target
    BY <2>1 DEF metricWorld
  <2>8. SnapshotsAreTrue'
    <3> SUFFICES ASSUME NEW u \in Target, NEW d \in 1..MaxDays
                 PROVE  /\ d <= today => snapshot'[u][d].value <= Reached(d, u)
                        /\ d > today => snapshot'[u][d] = Blank("NOT_SYNCED")
      BY <2>7 DEF SnapshotsAreTrue, Reached
    <3>1. CASE u = t /\ d = day
      BY <1>t, <2>3, <2>4, <3>1
    <3>2. CASE u # t \/ d # day
      BY <1>0, <2>4, <3>2 DEF SnapshotsAreTrue
    <3> QED
      BY <3>1, <3>2
  <2>9. reading'[j] = r /\ delivery' = [delivery EXCEPT ![j] = delivery[j]]
        /\ delivery[j] \in MetricDeliveries
        /\ jobRow' = [jobRow EXCEPT ![j] = jobRow[j]] /\ jobRow[j] \in JobRows
    BY <1>t, <2>1, <2>2
  <2>10. JobFits(j)'
    BY <1>0, <2>1, <2>2, <2>9 DEF JobFits
  <2>11. ReadingIsTrue(j)'
    BY <1>0, <2>2, <2>7, <2>9 DEF ReadingIsTrue, day
  <2> QED
    BY <2>1, <2>2, <2>6, <2>8, <2>9, <2>10, <2>11, JobMoves
(* What ends an attempt: the job keeps nothing.                            *)
<1>8. ASSUME NEW j \in MetricJob, EndMetricJob(j) PROVE MetricsInv'
  <2> DEFINE e == [delivery[j] EXCEPT !.state = "done"]
  <2>1. delivery' = [delivery EXCEPT ![j] = e] /\ e \in MetricDeliveries /\ e.state = "done"
    BY <1>t, <1>8 DEF EndMetricJob, MetricDeliveries
  <2>2. "COMPLETED" \in JobRows \ {"none"} /\ 0 <= today
    BY <1>t, MetricNumbers DEF JobRows
  <2> HIDE DEF e
  <2> QED
    BY <1>8, <2>1, <2>2, RestingFits, <1>m DEF EndMetricJob, metricTables
<1>9. ASSUME NEW j \in MetricJob, NEW dead \in BOOLEAN, NEW state \in {"done", "dead", "waiting"},
             state = "waiting" => delivery[j].tries # MetricTries, MetricAttemptEnds(j, dead, state)
      PROVE  MetricsInv'
  <2> DEFINE e == [delivery[j] EXCEPT !.state = state]
             w == IF dead THEN "DEAD" ELSE "FAILED"
  <2>1. delivery' = [delivery EXCEPT ![j] = e] /\ e \in MetricDeliveries /\ e.state = state
        /\ e.tries = delivery[j].tries
    BY <1>t, <1>9 DEF MetricAttemptEnds, MetricDeliveries
  <2>2. w \in JobRows \ {"none"} /\ 0 <= today
    BY <1>t, MetricNumbers DEF JobRows
  <2>3. state = "waiting" => e.tries < MetricTries
    BY <1>9, <2>1, MetricNumbers DEF MetricDeliveries
  <2>4. /\ reading' = [reading EXCEPT ![j] = AtRest] /\ jobRow' = [jobRow EXCEPT ![j] = w]
        /\ UNCHANGED <<metricWorld, status, shown, metric, snapshot, viewer>>
    BY <1>9 DEF MetricAttemptEnds, metricTables
  <2> HIDE DEF e, w
  <2> QED
    BY <1>9, <2>1, <2>2, <2>3, <2>4, RestingFits, <1>m
<1>10. ASSUME NEW j \in MetricJob, FailMetricJob(j) PROVE MetricsInv'
  <2>1. CASE MetricAttemptEnds(j, TRUE, "done")
    BY <1>9, <2>1
  <2> DEFINE last == delivery[j].tries = MetricTries
  <2>2. CASE MetricAttemptEnds(j, last, IF last THEN "dead" ELSE "waiting")
    <3>1. CASE last
      <4>1. MetricAttemptEnds(j, TRUE, "dead")
        BY <2>2, <3>1 DEF MetricAttemptEnds
      <4> QED
        BY <4>1, <1>9
    <3>2. CASE ~last
      <4>1. MetricAttemptEnds(j, FALSE, "waiting")
        BY <2>2, <3>2 DEF MetricAttemptEnds
      <4> QED
        BY <3>2, <4>1, <1>9
    <3> QED
      BY <3>1, <3>2
  <2> QED
    BY <1>10, <2>1, <2>2 DEF FailMetricJob
<1>11. ASSUME NEW j \in MetricJob, MetricWorkerDies(j) PROVE MetricsInv'
  <2> DEFINE e == [state |-> IF delivery[j].stalled THEN "dead" ELSE "waiting",
                   tries |-> delivery[j].tries - 1, stalled |-> TRUE]
  <2>1. /\ reading[j].at # "idle" /\ reading' = [reading EXCEPT ![j] = AtRest]
           /\ delivery' = [delivery EXCEPT ![j] = e]
        /\ UNCHANGED <<jobRow, metricWorld, status, shown, metric, snapshot, viewer>>
    BY <1>t, <1>11 DEF MetricWorkerDies, metricTables
  <2>2. delivery[j] \in MetricDeliveries /\ delivery[j].tries > 0 /\ delivery[j].tries \in 0..MetricTries
        /\ jobRow[j] \in JobRows \ {"none"} /\ jobRow' = [jobRow EXCEPT ![j] = jobRow[j]]
    BY <1>0, <1>t, <2>1 DEF JobFits, MetricDeliveries
  <2>3. e \in MetricDeliveries /\ e.state # "running" /\ e.tries < MetricTries /\ 0 <= today
    BY <1>t, <2>2, MetricNumbers DEF MetricDeliveries
  <2> HIDE DEF e
  <2> QED
    BY <2>1, <2>2, <2>3, RestingFits, <1>m
(* The API: the jobs, the snapshots and the days rest.                     *)
<1>v. ASSUME UNCHANGED <<metricWorld, reading, delivery, jobRow, metric, snapshot>>,
             status' \in [Target -> {"PUBLISHED", "CANCELLED"}], shown' \in [Target -> RowStates],
             viewer' \in [Target -> Views]
      PROVE  MetricsInv'
  <2>1. RowsTyped'
    BY <1>0, <1>v DEF RowsTyped
  <2>2. WorldTyped' /\ MetricJobsTyped'
    BY <1>0, <1>v DEF WorldTyped, MetricJobsTyped, metricWorld
  <2>3. SnapshotsAreTrue'
    BY <1>v, SnapshotsRest
  <2>4. ASSUME NEW j \in MetricJob PROVE JobFits(j)' /\ ReadingIsTrue(j)'
    <3>1. JobFits(j)'
      BY <1>0, <1>v DEF JobFits
    <3>2. ReadingIsTrue(j)'
      BY <1>0, <1>v DEF ReadingIsTrue, Reached, metricWorld
    <3> QED
      BY <3>1, <3>2
  <2> QED
    BY <2>1, <2>2, <2>3, <2>4 DEF MetricsInv
<1>12. ASSUME NEW t \in Target, NEW wish \in {"refresh", "public", "cancel"}, ViewRow(t, wish)
              PROVE MetricsInv'
  <2>1. [doing |-> wish, shown |-> shown[t]] \in Views
    BY <1>t DEF Views
  <2>2. viewer' \in [Target -> Views]
    BY <1>t, <1>12, <2>1 DEF ViewRow
  <2> QED
    BY <1>t, <1>12, <2>2, <1>v DEF ViewRow, metricTables
<1>13. ASSUME NEW t \in Target, RefreshState(t) \/ MakePublic(t) \/ CancelPublish(t) PROVE MetricsInv'
  <2>1. viewer' \in [Target -> Views]
    BY <1>t, <1>13, RestingFits DEF RefreshState, MakePublic, CancelPublish, Viewed
  <2>2. viewer[t].shown \in RowStates /\ viewer[t].shown.likes \in Values /\ FromApi(likes[t]) \in Values
    BY <1>t, MetricNumbers DEF Views, RowStates
  <2>3. CASE RefreshState(t)
    <3>1. PICK got \in {FromApi(likes[t]), viewer[t].shown.likes} :
            shown' = [shown EXCEPT ![t] = [viewer[t].shown EXCEPT !.likes = got]]
      BY <2>3 DEF RefreshState
    <3>2. [viewer[t].shown EXCEPT !.likes = got] \in RowStates
      BY <2>2 DEF RowStates
    <3>3. shown' \in [Target -> RowStates]
      BY <1>t, <3>1, <3>2
    <3> QED
      BY <1>t, <2>1, <2>3, <3>3, <1>v DEF RefreshState
  <2>4. CASE MakePublic(t)
    <3>1. [likes |-> Blank("NOT_SYNCED"), public |-> TRUE] \in RowStates
      BY RestingFits DEF RowStates
    <3>2. shown' \in [Target -> RowStates]
      BY <1>t, <2>4, <3>1 DEF MakePublic
    <3> QED
      BY <1>t, <2>1, <2>4, <3>2, <1>v DEF MakePublic
  <2>5. CASE CancelPublish(t)
    <3>1. shown' \in [Target -> RowStates] /\ status' \in [Target -> {"PUBLISHED", "CANCELLED"}]
      BY <1>t, <2>2, <2>5 DEF CancelPublish
    <3> QED
      BY <1>t, <2>1, <2>5, <3>1, <1>v DEF CancelPublish
  <2> QED
    BY <1>13, <2>3, <2>4, <2>5
<1>14. CASE UNCHANGED metricVars
  BY <1>t, <1>14, <1>v DEF metricVars, metricWorld, metricTables
<1> QED
  BY <1>1, <1>2, <1>3, <1>4, <1>5, <1>6, <1>7, <1>8, <1>10, <1>11, <1>12, <1>13, <1>14 DEF MetricsNext

(* Hence it holds throughout.                                              *)
LEMMA MetricsInvHolds == MetricsSpec => []MetricsInv
BY MetricsInvInit, MetricsInvStep, PTL DEF MetricsSpec

(* MetricsTypeOK, for any number of targets, jobs and days.                *)
THEOREM MetricTypesHold == MetricsSpec => []MetricsTypeOK
<1>1. MetricsInv => MetricsTypeOK
  <2> SUFFICES ASSUME MetricsInv PROVE MetricsTypeOK
    OBVIOUS
  <2>0. WorldTyped /\ MetricJobsTyped /\ RowsTyped /\ SnapshotsAreTrue
    BY DEF MetricsInv
  <2>1. /\ likes \in [Target -> 0..MaxLikes] /\ today \in 1..MaxDays /\ target \in [MetricJob -> Target]
        /\ status \in [Target -> {"PUBLISHED", "CANCELLED"}]
        /\ metric \in [Target -> Values] /\ snapshot \in [Target -> [1..MaxDays -> Values]]
    BY <2>0 DEF WorldTyped, RowsTyped
  <2>2. ASSUME NEW t \in Target
        PROVE  shown[t].likes \in Values
               /\ \A d \in (today + 1)..MaxDays : snapshot[t][d].source = "NOT_SYNCED"
    <3>1. shown[t].likes \in Values
      BY <2>0 DEF RowsTyped, RowStates
    <3>2. ASSUME NEW d \in (today + 1)..MaxDays PROVE snapshot[t][d].source = "NOT_SYNCED"
      <4>1. d \in 1..MaxDays /\ d > today
        BY <2>1, MetricNumbers
      <4> QED
        BY <2>0, <4>1, RestingFits DEF SnapshotsAreTrue
    <3> QED
      BY <3>1, <3>2
  <2>3. ASSUME NEW j \in MetricJob
        PROVE  /\ delivery[j].tries \in 0..MetricTries /\ reading[j].day \in 0..today
               /\ reading[j].at # "idle" => delivery[j].state = "running"
    <3>1. delivery[j].tries \in 0..MetricTries /\ reading[j].day \in 0..MaxDays
      BY <2>0 DEF MetricJobsTyped, Readings, MetricDeliveries
    <3> QED
      BY <2>1, <3>1, MetricNumbers DEF MetricsInv, JobFits, ReadingIsTrue
  <2> QED
    BY <2>1, <2>2, <2>3 DEF MetricsTypeOK
<1> QED
  BY <1>1, MetricsInvHolds, PTL

(* NoNumbersFromTomorrow, for any number of targets, jobs and days: however*)
(* late a job is, and however often it is tried, the snapshot of a day     *)
(* that is past holds no number the platform reached only later.           *)
THEOREM SnapshotsAreOfTheirDay == MetricsSpec => []NoNumbersFromTomorrow
<1>1. MetricsInv => NoNumbersFromTomorrow
  <2> SUFFICES ASSUME MetricsInv, NEW t \in Target, NEW d \in 1..(today - 1)
               PROVE  snapshot[t][d].value <= evening[d][t]
    BY DEF NoNumbersFromTomorrow
  <2>1. d \in 1..MaxDays /\ d < today
    BY MetricNumbers DEF MetricsInv, WorldTyped
  <2>2. d <= today /\ d # today
    BY <2>1 DEF MetricsInv, WorldTyped
  <2>3. snapshot[t][d].value <= Reached(d, t)
    BY <2>1, <2>2 DEF MetricsInv, SnapshotsAreTrue
  <2> QED
    BY <2>2, <2>3 DEF Reached
<1> QED
  BY <1>1, MetricsInvHolds, PTL

(* The dashboard's sum of the numbers m of the posts of S.                 *)
BagIter(m, S) ==
  CHOOSE g : g = [s \in SUBSET S |-> IF s = {} THEN Blank("NOT_SYNCED")
                                     ELSE LET x == CHOOSE x \in s : TRUE IN SumValues(m[x], g[s \ {x}])]

(* Merging the bags is this.                                               *)
LEMMA BreakdownIsIter == Breakdown = BagIter(metric, Target)[Target]
BY DEF Breakdown, FoldFunctionOnSet, MapThenFoldSet, BagIter

(* Of the posts with a usable number, the sum; of none, an unknown one.    *)
TellsOf(b, m, s) ==
  LET known == {t \in s : Usable(m[t])} IN
  IF known = {} THEN b.value = Unknown
  ELSE Usable(b) /\ b.value = SumFunctionOnSet([t \in DOMAIN m |-> m[t].value], known) /\ b.value \in Nat

(* However many posts there are and in whatever order they are merged.     *)
LEMMA BagsTell ==
  ASSUME NEW S, IsFiniteSet(S), NEW m \in [S -> Values]
  PROVE  TellsOf(BagIter(m, S)[S], m, S)
<1> DEFINE Bags == [value : Int, source : Sources]
           F == [t \in S |-> [b \in Bags |-> SumValues(m[t], b)]]
           none == Blank("NOT_SYNCED")
           v == [t \in DOMAIN m |-> m[t].value]
           known(s) == {t \in s : Usable(m[t])}
<1>1. MaxLikes \in Nat /\ \A t \in S : m[t].value \in {Unknown} \cup 0..MaxLikes /\ m[t].source \in Sources
  BY MetricsAssumption DEF Values
<1>2. none \in Bags /\ none.value = Unknown /\ ~Usable(none)
  BY DEF Blank, Sources, Unknown, Usable
<1>3. ASSUME NEW t \in S, NEW b \in Bags PROVE SumValues(m[t], b) \in Bags
  <2>1. m[t].value \in Int /\ b.value \in Int /\ Unknown \in Int
    BY <1>1 DEF Unknown
  <2>2. \A src \in Sources : Blank(src) \in Bags
    BY <2>1 DEF Blank
  <2> QED
    BY <2>1, <2>2 DEF SumValues, Sources
<1>4. F \in [S -> [Bags -> Bags]]
  BY <1>3
<1>5. PICK g \in [SUBSET S -> Bags] : IsFoldOf(g, none, F, S)
  <2> HIDE DEF F, none, Bags
  <2> QED
    BY <1>2, <1>4, FoldExists
<1>6. ASSUME NEW s \in SUBSET S PROVE g[s] = IF s = {} THEN none ELSE SumValues(m[First(s)], g[s \ {First(s)}])
  <2>1. CASE s = {}
    BY <1>5, <2>1 DEF IsFoldOf
  <2>2. CASE s # {}
    <3>1. First(s) \in S /\ g[s \ {First(s)}] \in Bags
      <4> HIDE DEF Bags
      <4> QED
        BY <2>2 DEF First
    <3>2. g[s] = F[First(s)][g[s \ {First(s)}]]
      BY <1>5, <2>2 DEF IsFoldOf
    <3> HIDE DEF Bags
    <3> QED
      BY <2>2, <3>1, <3>2
  <2> QED
    BY <2>1, <2>2
<1> DEFINE h == BagIter(m, S)
<1>7. /\ h = [s \in SUBSET S |-> h[s]]
      /\ \A s \in SUBSET S : h[s] = IF s = {} THEN none ELSE SumValues(m[First(s)], h[s \ {First(s)}])
  <2>1. g = [s \in SUBSET S |-> IF s = {} THEN none
                                ELSE LET x == CHOOSE x \in s : TRUE IN SumValues(m[x], g[s \ {x}])]
    <3> HIDE DEF none, Bags
    <3> QED
      BY <1>6 DEF First
  <2>2. h = [s \in SUBSET S |-> IF s = {} THEN none
                                ELSE LET x == CHOOSE x \in s : TRUE IN SumValues(m[x], h[s \ {x}])]
    BY <2>1, Zenon DEF BagIter
  <2> HIDE DEF h, none
  <2> QED
    BY <2>2 DEF First
<1> HIDE DEF h
<1>8. \A s \in SUBSET S : IsFiniteSet(s)
  BY FS_Subset
<1>9. \A t \in S : v[t] = m[t].value /\ v[t] \in Int
  BY <1>1 DEF Unknown
<1> HIDE DEF v
<1>10. /\ SumFunctionOnSet(v, {}) = 0
       /\ \A s \in SUBSET S : SumFunctionOnSet(v, s) \in Int
       /\ \A s \in SUBSET S : \A x \in s : SumFunctionOnSet(v, s) = v[x] + SumFunctionOnSet(v, s \ {x})
  BY <1>9, SumsAddUp
<1> DEFINE T == {s \in SUBSET S : ~TellsOf(h[s], m, s)}
<1>11. ASSUME NEW s \in SUBSET S, s # {}, TellsOf(h[s \ {First(s)}], m, s \ {First(s)})
              PROVE TellsOf(h[s], m, s)
  <2> DEFINE x == First(s)
             rest == s \ {x}
             b == h[rest]
  <2>1. x \in s /\ x \in S
    BY <1>11 DEF First
  <2>2. h[s] = SumValues(m[x], b)
    BY <1>7, <1>11
  <2>3. TellsOf(b, m, rest)
    BY <1>11
  <2> HIDE DEF x, b
  <2>4. CASE ~Usable(m[x])
    <3>1. known(s) = known(rest)
      BY <2>1, <2>4
    <3>2. known(rest) = {} => b.value = Unknown
      BY <2>3 DEF TellsOf
    <3>3. known(rest) # {} => Usable(b) /\ b.value = SumFunctionOnSet(v, known(rest)) /\ b.value \in Nat
      BY <2>3 DEF TellsOf, v
    <3>4. known(rest) = {} => h[s].value = Unknown
      BY <2>2, <2>4, <3>2 DEF SumValues, Usable, Blank
    <3>5. known(rest) # {} => h[s].value = b.value /\ Usable(h[s])
      BY <2>2, <2>4, <3>3 DEF SumValues, Usable, Unknown
    <3> QED
      BY <3>1, <3>3, <3>4, <3>5 DEF TellsOf, v
  <2>5. CASE Usable(m[x])
    <3>1. x \in known(s) /\ known(s) \ {x} = known(rest) /\ known(s) \in SUBSET S /\ known(s) # {}
      BY <2>1, <2>5
    <3>2. SumFunctionOnSet(v, known(s)) = m[x].value + SumFunctionOnSet(v, known(rest))
      BY <1>9, <1>10, <2>1, <3>1
    <3>3. m[x].value \in Nat
      BY <1>1, <2>1, <2>5 DEF Usable
    <3>4. known(rest) = {} => b.value = Unknown /\ SumFunctionOnSet(v, known(rest)) = 0
      BY <1>10, <2>3 DEF TellsOf
    <3>5. known(rest) # {} => Usable(b) /\ b.value = SumFunctionOnSet(v, known(rest)) /\ b.value \in Nat
      BY <2>3 DEF TellsOf, v
    <3>6. h[s] = [value |-> m[x].value + (IF Usable(b) THEN b.value ELSE 0), source |-> "DERIVED"]
      BY <2>2, <2>5 DEF SumValues
    <3>7. known(rest) = {} => ~Usable(b)
      BY <3>4 DEF Usable
    <3>8. h[s].value = SumFunctionOnSet(v, known(s)) /\ h[s].value \in Nat
      <4> HIDE DEF known, rest
      <4> QED
        BY <3>2, <3>3, <3>4, <3>5, <3>6, <3>7
    <3>9. Usable(h[s])
      BY <3>6, <3>8 DEF Usable, Unknown
    <3> QED
      BY <3>1, <3>8, <3>9 DEF TellsOf, v
  <2> QED
    BY <2>4, <2>5
<1>12. T = {}
  <2> SUFFICES ASSUME T # {} PROVE FALSE
    OBVIOUS
  <2>1. T \in SUBSET SUBSET S
    OBVIOUS
  <2>2. PICK s \in T : \A x \in s : s \ {x} \notin T
    <3> HIDE DEF T
    <3> QED
      BY <2>1, SmallestSet
  <2>3. TellsOf(h[{}], m, {})
    <3>1. h[{}] = none
      BY <1>7
    <3> QED
      BY <1>2, <3>1 DEF TellsOf
  <2>4. s # {}
    BY <2>3
  <2>5. First(s) \in s /\ s \ {First(s)} \in SUBSET S
    BY <2>4 DEF First
  <2>6. TellsOf(h[s \ {First(s)}], m, s \ {First(s)})
    BY <2>2, <2>5
  <2> QED
    BY <1>11, <2>4, <2>6
<1> QED
  BY <1>12 DEF h

(* So the total is unknown if all its numbers are, and else the sum of     *)
(* those that are known.                                                   *)
LEMMA BreakdownTells == 
  ASSUME metric \in [Target -> Values]
  PROVE UnknownIsNotZero
<1>1. IsFiniteSet(Target)
  BY MetricsAssumption
<1>2. TellsOf(Breakdown, metric, Target)
  BY <1>1, BagsTell, BreakdownIsIter
<1> QED
  BY <1>2 DEF TellsOf, UnknownIsNotZero

(* NumbersAreHonest, for any number of posts, jobs and days: no snapshot   *)
(* counts what was reached after its day, and no number that is not known  *)
(* is shown as zero.                                                       *)
THEOREM NumbersHold == MetricsSpec => []NumbersAreHonest
<1>1. MetricsInv => UnknownIsNotZero
  BY BreakdownTells DEF MetricsInv, RowsTyped
<1>2. NoNumbersFromTomorrow /\ UnknownIsNotZero => NumbersAreHonest
  BY DEF NumbersAreHonest
<1> QED
  BY <1>1, <1>2, MetricsInvHolds, SnapshotsAreOfTheirDay, PTL
-----------------------------------------------------------------------------
(* The accounts' metrics, for any number of jobs and evenings: a snapshot  *)
(* of a day is not older than the evening before.                          *)

(* The memory of a job, and the job in Redis.                              *)
Counts == {Unknown} \cup 0..MaxFollowers
AccountMemories == [at : {"idle", "load", "date", "ask", "store", "end"}, day : 0..MaxEvenings,
             got : [value : Counts, source : Sources], source : Sources]
AccountDeliveries == [state : {"none", "waiting", "running", "done", "dead"}, tries : 0..AccountTries, stalled : BOOLEAN]
AccountRows == {"none", "QUEUED", "RUNNING", "COMPLETED", "FAILED", "DEAD"}

(* Each variable has its type, and no night fell on more followers.        *)
AccountTyped ==
  /\ followers \in 0..MaxFollowers /\ accountDay \in 1..MaxEvenings
  /\ atNightfall \in [0..MaxEvenings -> 0..MaxFollowers]
     /\ \A d \in 0..MaxEvenings : atNightfall[d] <= followers
  /\ syncing \in [AccountJob -> AccountMemories] /\ queued \in [AccountJob -> AccountDeliveries]
  /\ accountRow \in [AccountJob -> AccountRows]
  /\ daily \in [1..MaxEvenings -> [followers : Counts, source : Sources]]

(* A job that is worked on has used an attempt, one that waits has one     *)
(* left, one that is DEAD is not worked on.                                *)
AccountJobFits(j) ==
  /\ syncing[j].at # "idle" => queued[j].state = "running"
  /\ queued[j].state = "running" => queued[j].tries > 0
  /\ queued[j].state = "waiting" => queued[j].tries < AccountTries
  /\ accountRow[j] = "none" => queued[j].tries = 0
  /\ accountRow[j] = "DEAD" => queued[j].state = "dead"

(* The number n, under the date d, is known, and no older than the date.   *)
IsOfDay(n, d, source) ==
  n # Unknown => n <= followers /\ atNightfall[d - 1] <= n /\ source = "PLATFORM_API"

(* What a job has, by the step it is at.                                   *)
MemoryFits(j) ==
  /\ syncing[j].day <= accountDay
  /\ syncing[j].at \in {"ask", "store"} => syncing[j].day >= 1
  /\ syncing[j].at = "store" => IsOfDay(syncing[j].got.value, syncing[j].day, syncing[j].source)

(* The snapshots are of their days, and the days to come are empty.        *)
DailyFits ==
  \A d \in 1..MaxEvenings : IF d <= accountDay THEN IsOfDay(daily[d].followers, d, daily[d].source)
                                               ELSE daily[d] = NotTaken

(* The inductive invariant.                                                *)
AccountInv == AccountTyped /\ DailyFits /\ \A j \in AccountJob : AccountJobFits(j) /\ MemoryFits(j)

(* The bounds are numbers, and what rests is a memory.                     *)
LEMMA AccountNumbers ==
  /\ MaxEvenings \in Nat /\ MaxEvenings >= 1 /\ AccountTries \in Nat /\ AccountTries >= 1
     /\ MaxFollowers \in Nat
  /\ Resting \in AccountMemories /\ Resting.at = "idle" /\ Resting.day = 0 /\ Unknown = -1
  /\ NotTaken \in [followers : Counts, source : Sources] /\ NotTaken.followers = Unknown
  /\ \A c \in Counts : c \in Int
<1>1. MaxEvenings \in Nat /\ MaxEvenings >= 1 /\ AccountTries \in Nat /\ AccountTries >= 1
      /\ MaxFollowers \in Nat
  BY AccountMetricsAssumption
<1>2. Resting \in AccountMemories /\ Resting.at = "idle" /\ Resting.day = 0
  BY <1>1 DEF Resting, AccountMemories, Blank, Counts, Sources
<1>3. NotTaken \in [followers : Counts, source : Sources] /\ NotTaken.followers = Unknown
  BY DEF NotTaken, Counts, Sources
<1>4. Unknown = -1 /\ \A c \in Counts : c \in Int
  BY <1>1 DEF Counts, Unknown
<1> QED
  BY <1>1, <1>2, <1>3, <1>4

(* It holds at the start.                                                  *)
LEMMA AccountInvInit == AccountInit => AccountInv
<1> SUFFICES ASSUME AccountInit PROVE AccountInv
  OBVIOUS
<1>1. AccountTyped
  <2>1. [state |-> "none", tries |-> 0, stalled |-> FALSE] \in AccountDeliveries
    BY AccountNumbers DEF AccountDeliveries
  <2>2. /\ followers = 0 /\ accountDay = 1 /\ atNightfall = [d \in 0..MaxEvenings |-> 0]
        /\ 0 \in 0..MaxFollowers /\ 1 \in 1..MaxEvenings
    BY AccountNumbers DEF AccountInit
  <2>3. /\ syncing = [j \in AccountJob |-> Resting] /\ accountRow = [j \in AccountJob |-> "none"]
        /\ queued = [j \in AccountJob |-> [state |-> "none", tries |-> 0, stalled |-> FALSE]]
        /\ daily = [d \in 1..MaxEvenings |-> NotTaken]
    BY DEF AccountInit
  <2>4. /\ followers \in 0..MaxFollowers /\ accountDay \in 1..MaxEvenings
        /\ atNightfall \in [0..MaxEvenings -> 0..MaxFollowers]
           /\ \A d \in 0..MaxEvenings : atNightfall[d] <= followers
    BY <2>2
  <2>5. /\ syncing \in [AccountJob -> AccountMemories] /\ queued \in [AccountJob -> AccountDeliveries]
        /\ accountRow \in [AccountJob -> AccountRows]
        /\ daily \in [1..MaxEvenings -> [followers : Counts, source : Sources]]
    BY <2>1, <2>3, AccountNumbers DEF AccountRows
  <2> QED
    BY <2>4, <2>5 DEF AccountTyped
<1>2. DailyFits
  <2>1. \A d \in 1..MaxEvenings : daily[d] = NotTaken
    BY DEF AccountInit
  <2> QED
    BY <2>1, AccountNumbers DEF DailyFits, IsOfDay
<1>3. ASSUME NEW j \in AccountJob PROVE AccountJobFits(j) /\ MemoryFits(j)
  <2>1. /\ syncing[j] = Resting /\ accountRow[j] = "none" /\ accountDay = 1
        /\ queued[j] = [state |-> "none", tries |-> 0, stalled |-> FALSE]
    BY DEF AccountInit
  <2> QED
    BY <2>1, AccountNumbers DEF AccountJobFits, MemoryFits
<1> QED
  BY <1>1, <1>2, <1>3 DEF AccountInv

(* A step of one job while days and followers rest.                        *)
LEMMA AccountJobMoves ==
  ASSUME AccountInv, NEW j \in AccountJob, NEW r \in AccountMemories, NEW e \in AccountDeliveries,
         NEW w \in AccountRows,
         syncing' = [syncing EXCEPT ![j] = r], queued' = [queued EXCEPT ![j] = e],
         accountRow' = [accountRow EXCEPT ![j] = w], UNCHANGED accountWorld,
         daily' \in [1..MaxEvenings -> [followers : Counts, source : Sources]], DailyFits',
         r.at # "idle" => e.state = "running", e.state = "running" => e.tries > 0,
         e.state = "waiting" => e.tries < AccountTries, w = "none" => e.tries = 0, w = "DEAD"
           => e.state = "dead",
         r.day <= accountDay, r.at \in {"ask", "store"} => r.day >= 1,
         r.at = "store" => IsOfDay(r.got.value, r.day, r.source)
  PROVE  AccountInv'
<1>1. /\ syncing \in [AccountJob -> AccountMemories] /\ queued \in [AccountJob -> AccountDeliveries]
      /\ accountRow \in [AccountJob -> AccountRows]
      /\ followers' = followers /\ accountDay' = accountDay /\ atNightfall' = atNightfall
  BY DEF AccountInv, AccountTyped, accountWorld
<1>2. AccountTyped'
  BY <1>1 DEF AccountInv, AccountTyped
<1>3. syncing'[j] = r /\ queued'[j] = e /\ accountRow'[j] = w
  BY <1>1
<1>4. AccountJobFits(j)'
  BY <1>3 DEF AccountJobFits
<1>5. MemoryFits(j)'
  BY <1>1, <1>3 DEF MemoryFits, IsOfDay
<1>6. ASSUME NEW k \in AccountJob \ {j} PROVE AccountJobFits(k)' /\ MemoryFits(k)'
  <2>1. syncing'[k] = syncing[k] /\ queued'[k] = queued[k] /\ accountRow'[k] = accountRow[k]
    BY <1>1
  <2>2. AccountJobFits(k) /\ MemoryFits(k)
    BY DEF AccountInv
  <2> QED
    BY <1>1, <2>1, <2>2 DEF AccountJobFits, MemoryFits, IsOfDay
<1> QED
  BY <1>2, <1>4, <1>5, <1>6 DEF AccountInv

(* One step per action.                                                    *)
LEMMA AccountInvStep == AccountInv /\ [AccountNext]_accountVars => AccountInv'
<1> SUFFICES ASSUME AccountInv, [AccountNext]_accountVars PROVE AccountInv'
  OBVIOUS
<1>0. /\ followers \in 0..MaxFollowers /\ accountDay \in 1..MaxEvenings
      /\ atNightfall \in [0..MaxEvenings -> 0..MaxFollowers]
         /\ \A d \in 0..MaxEvenings : atNightfall[d] <= followers
      /\ syncing \in [AccountJob -> AccountMemories] /\ queued \in [AccountJob -> AccountDeliveries]
      /\ accountRow \in [AccountJob -> AccountRows]
      /\ daily \in [1..MaxEvenings -> [followers : Counts, source : Sources]]
      /\ DailyFits /\ \A j \in AccountJob : AccountJobFits(j) /\ MemoryFits(j)
  BY DEF AccountInv, AccountTyped
<1>s. UNCHANGED <<accountWorld, daily>> => DailyFits'
  BY <1>0 DEF DailyFits, IsOfDay, accountWorld
<1>j. ASSUME NEW j \in AccountJob
      PROVE  /\ syncing[j] \in AccountMemories /\ queued[j] \in AccountDeliveries
             /\ accountRow[j] \in AccountRows
             /\ syncing[j].day \in 0..MaxEvenings /\ queued[j].tries \in 0..AccountTries
             /\ queued' = queued => queued' = [queued EXCEPT ![j] = queued[j]]
             /\ accountRow' = accountRow => accountRow' = [accountRow EXCEPT ![j] = accountRow[j]]
             /\ AccountJobFits(j) /\ MemoryFits(j)
  BY <1>0 DEF AccountMemories, AccountDeliveries
<1>f. ASSUME NEW j \in AccountJob
      PROVE  /\ queued[j].tries \in Nat /\ AccountTries \in Nat
             /\ syncing[j].at # "idle" => queued[j].state = "running"
             /\ queued[j].state = "running" => queued[j].tries > 0
             /\ queued[j].state = "waiting" => queued[j].tries < AccountTries
             /\ accountRow[j] = "none" => queued[j].tries = 0
             /\ accountRow[j] = "DEAD" => queued[j].state = "dead"
  BY <1>j, AccountNumbers DEF AccountJobFits
(* A job goes on to another step, with the worker it has.                  *)
<1>m. ASSUME NEW j \in AccountJob, NEW r \in AccountMemories, syncing' = [syncing EXCEPT ![j] = r],
             syncing[j].at # "idle",
             UNCHANGED <<accountWorld, queued, accountRow>>,
             daily' \in [1..MaxEvenings -> [followers : Counts, source : Sources]], DailyFits',
             r.day <= accountDay, r.at \in {"ask", "store"} => r.day >= 1,
             r.at = "store" => IsOfDay(r.got.value, r.day, r.source)
      PROVE  AccountInv'
  <2>1. /\ queued[j].state = "running" /\ queued[j].tries > 0 /\ accountRow[j] \notin {"none", "DEAD"}
    BY <1>j, <1>m DEF AccountJobFits
  <2>2. /\ queued[j] \in AccountDeliveries /\ accountRow[j] \in AccountRows
        /\ queued' = [queued EXCEPT ![j] = queued[j]]
           /\ accountRow' = [accountRow EXCEPT ![j] = accountRow[j]]
        /\ UNCHANGED accountWorld
    BY <1>j, <1>m
  <2> DEFINE e == queued[j]
             w == accountRow[j]
  <2>3. /\ e \in AccountDeliveries /\ w \in AccountRows /\ queued' = [queued EXCEPT ![j] = e]
        /\ accountRow' = [accountRow EXCEPT ![j] = w] /\ e.state = "running" /\ e.tries > 0
           /\ w \notin {"none", "DEAD"}
    BY <2>1, <2>2
  <2> HIDE DEF e, w
  <2> QED
    BY <1>m, <2>2, <2>3, AccountJobMoves
(* A job's worker is done with it, for now or for good.                    *)
<1>e. ASSUME NEW j \in AccountJob, NEW e \in AccountDeliveries, NEW w \in AccountRows,
             syncing' = [syncing EXCEPT ![j] = Resting], queued' = [queued EXCEPT ![j] = e],
             accountRow' = [accountRow EXCEPT ![j] = w], UNCHANGED <<accountWorld, daily>>,
             e.state # "running", e.state = "waiting" => e.tries < AccountTries, w # "none", w = "DEAD"
               => e.state = "dead"
      PROVE  AccountInv'
  <2>1. /\ daily' \in [1..MaxEvenings -> [followers : Counts, source : Sources]] /\ DailyFits'
           /\ UNCHANGED accountWorld
    BY <1>0, <1>s, <1>e
  <2>2. Resting.day <= accountDay
    BY <1>0, AccountNumbers
  <2> QED
    BY <1>e, <2>1, <2>2, AccountNumbers, AccountJobMoves
<1>1. CASE Follow
  <2>1. /\ followers' = followers + 1 /\ followers < MaxFollowers
        /\ UNCHANGED <<accountDay, atNightfall, syncing, queued, accountRow, daily>>
    BY <1>1 DEF Follow
  <2>2. followers' \in 0..MaxFollowers /\ followers <= followers' /\ followers \in Int
    BY <1>0, <2>1, AccountNumbers
  <2>3. \A d \in 0..MaxEvenings : atNightfall[d] \in Int /\ atNightfall[d] <= followers'
    BY <1>0, <2>2
  <2>4. ASSUME NEW n \in Counts, NEW d \in 1..MaxEvenings, NEW s, IsOfDay(n, d, s) PROVE IsOfDay(n, d, s)'
    BY <2>1, <2>2, <2>4, AccountNumbers DEF IsOfDay
  <2>5. DailyFits'
    <3>1. \A d \in 1..MaxEvenings : daily[d].followers \in Counts
      BY <1>0
    <3> QED
      BY <1>0, <2>1, <2>4, <3>1 DEF DailyFits
  <2>6. ASSUME NEW j \in AccountJob PROVE AccountJobFits(j)' /\ MemoryFits(j)'
    <3>1. AccountJobFits(j)'
      BY <1>j, <2>1 DEF AccountJobFits
    <3>2. syncing[j].at = "store" => syncing[j].day \in 1..MaxEvenings
      BY <1>j DEF MemoryFits
    <3>3. syncing[j].got.value \in Counts
      BY <1>j DEF AccountMemories
    <3>4. syncing[j].at = "store" => IsOfDay(syncing[j].got.value, syncing[j].day, syncing[j].source)'
      BY <1>j, <2>1, <2>4, <3>2, <3>3 DEF MemoryFits, IsOfDay
    <3> QED
      BY <1>j, <2>1, <3>1, <3>4 DEF MemoryFits
  <2> QED
    BY <1>0, <2>1, <2>2, <2>3, <2>5, <2>6 DEF AccountInv, AccountTyped
<1>2. CASE Nightfall
  <2>1. /\ accountDay < MaxEvenings /\ accountDay' = accountDay + 1
        /\ atNightfall' = [atNightfall EXCEPT ![accountDay] = followers]
        /\ UNCHANGED <<followers, syncing, queued, accountRow, daily>>
    BY <1>2 DEF Nightfall
  <2>2. /\ accountDay' \in 1..MaxEvenings /\ accountDay \in 0..MaxEvenings /\ accountDay \in Nat
        /\ atNightfall' \in [0..MaxEvenings -> 0..MaxFollowers]
        /\ \A d \in 0..MaxEvenings : atNightfall'[d] = IF d = accountDay THEN followers ELSE atNightfall[d]
    BY <1>0, <2>1, AccountNumbers
  <2>3. \A d \in 0..MaxEvenings : atNightfall'[d] <= followers
    BY <1>0, <2>2
  <2>4. ASSUME NEW n \in Counts, NEW d \in 1..MaxEvenings, NEW s, IsOfDay(n, d, s), d <= accountDay
        PROVE  IsOfDay(n, d, s)'
    <3>1. d - 1 \in 0..MaxEvenings /\ d - 1 # accountDay
      BY <2>2, <2>4, AccountNumbers
    <3> QED
      BY <2>1, <2>2, <2>4, <3>1 DEF IsOfDay
  <2>5. DailyFits'
    <3> SUFFICES ASSUME NEW d \in 1..MaxEvenings
                 PROVE  IF d <= accountDay' THEN IsOfDay(daily[d].followers, d, daily[d].source)'
                                            ELSE daily[d] = NotTaken
      BY <2>1 DEF DailyFits
    <3>1. CASE d <= accountDay
      <4>1. IsOfDay(daily[d].followers, d, daily[d].source) /\ daily[d].followers \in Counts
        BY <1>0, <3>1 DEF DailyFits
      <4>2. IsOfDay(daily[d].followers, d, daily[d].source)' /\ d <= accountDay'
        BY <2>1, <2>2, <2>4, <3>1, <4>1
      <4> QED
        BY <4>2
    <3>2. CASE d > accountDay
      <4>1. daily[d] = NotTaken
        BY <1>0, <2>2, <3>2 DEF DailyFits
      <4>2. IsOfDay(daily[d].followers, d, daily[d].source)'
        BY <2>1, <4>1, AccountNumbers DEF IsOfDay
      <4> QED
        BY <4>1, <4>2
    <3> QED
      BY <2>2, <3>1, <3>2
  <2>6. ASSUME NEW j \in AccountJob PROVE AccountJobFits(j)' /\ MemoryFits(j)'
    <3>1. AccountJobFits(j)'
      BY <1>j, <2>1 DEF AccountJobFits
    <3>2. syncing[j].at = "store" => syncing[j].day \in 1..MaxEvenings
      BY <1>j DEF MemoryFits
    <3>3. syncing[j].got.value \in Counts
      BY <1>j DEF AccountMemories
    <3>4. syncing[j].at = "store" => IsOfDay(syncing[j].got.value, syncing[j].day, syncing[j].source)'
      BY <1>j, <2>1, <2>4, <3>2, <3>3 DEF MemoryFits, IsOfDay
    <3>5. syncing[j].day <= accountDay'
      BY <1>j, <2>1, <2>2 DEF MemoryFits
    <3> QED
      BY <1>j, <2>1, <3>1, <3>4, <3>5 DEF MemoryFits
  <2> QED
    BY <1>0, <2>1, <2>2, <2>3, <2>5, <2>6 DEF AccountInv, AccountTyped
<1>3. CASE DisconnectAccount
  <2>1. /\ followers' = followers /\ accountDay' = accountDay /\ atNightfall' = atNightfall
        /\ UNCHANGED <<syncing, queued, accountRow, daily>>
    BY <1>3 DEF DisconnectAccount, accountWorld
  <2> QED
    BY <1>0, <2>1 DEF AccountInv, AccountTyped, DailyFits, IsOfDay, AccountJobFits, MemoryFits
<1>4. ASSUME NEW j \in AccountJob, EnqueueAccountSync(j) PROVE AccountInv'
  <2> DEFINE e == [queued[j] EXCEPT !.state = "waiting"]
             r == syncing[j]
  <2>1. /\ accountRow[j] = "none" /\ accountRow' = [accountRow EXCEPT ![j] = "QUEUED"]
        /\ queued' = [queued EXCEPT ![j] = e] /\ UNCHANGED <<accountWorld, syncing, daily>>
    BY <1>0, <1>4 DEF EnqueueAccountSync
  <2>2. queued[j].tries = 0 /\ queued[j].state # "running" /\ syncing[j].at = "idle"
    BY <1>f, <2>1
  <2>3. e \in AccountDeliveries /\ e.state = "waiting" /\ e.tries < AccountTries
    BY <1>j, <2>2, AccountNumbers DEF AccountDeliveries
  <2>4. r \in AccountMemories /\ syncing' = [syncing EXCEPT ![j] = r] /\ r.at = "idle" /\ r.day <= accountDay
    BY <1>0, <1>j, <2>1, <2>2 DEF MemoryFits
  <2>5. /\ daily' \in [1..MaxEvenings -> [followers : Counts, source : Sources]] /\ DailyFits'
           /\ UNCHANGED accountWorld
        /\ "QUEUED" \in AccountRows
    BY <1>0, <1>s, <2>1 DEF AccountRows
  <2> HIDE DEF e, r
  <2> QED
    BY <2>1, <2>3, <2>4, <2>5, AccountJobMoves
<1>5. ASSUME NEW j \in AccountJob, TakeAccountJob(j) PROVE AccountInv'
  <2> DEFINE e == [queued[j] EXCEPT !.state = "running", !.tries = queued[j].tries + 1]
             r == [syncing[j] EXCEPT !.at = "load"]
  <2>1. /\ queued[j].state = "waiting" /\ accountRow' = [accountRow EXCEPT ![j] = "RUNNING"]
        /\ queued' = [queued EXCEPT ![j] = e] /\ syncing' = [syncing EXCEPT ![j] = r]
        /\ UNCHANGED <<accountWorld, daily>>
    BY <1>0, <1>5 DEF TakeAccountJob
  <2>2. queued[j].tries + 1 \in 0..AccountTries /\ queued[j].tries + 1 > 0
    BY <1>f, <2>1
  <2>3. e \in AccountDeliveries /\ e.state = "running" /\ e.tries > 0
    BY <1>j, <2>2 DEF AccountDeliveries
  <2>4. r \in AccountMemories /\ r.at = "load" /\ r.day = syncing[j].day
    BY <1>j DEF AccountMemories
  <2>5. r.day <= accountDay
    BY <1>j, <2>4 DEF MemoryFits
  <2>6. /\ daily' \in [1..MaxEvenings -> [followers : Counts, source : Sources]] /\ DailyFits'
           /\ UNCHANGED accountWorld
        /\ "RUNNING" \in AccountRows
    BY <1>0, <1>s, <2>1 DEF AccountRows
  <2> HIDE DEF e, r
  <2> QED
    BY <2>1, <2>3, <2>4, <2>5, <2>6, AccountJobMoves
<1>6. ASSUME NEW j \in AccountJob, LoadAccount(j) PROVE AccountInv'
  <2> DEFINE r == [syncing[j] EXCEPT !.at = IF connected THEN "date" ELSE "end"]
  <2>1. /\ syncing[j].at = "load" /\ syncing' = [syncing EXCEPT ![j] = r]
        /\ UNCHANGED <<accountWorld, queued, accountRow, daily>>
    BY <1>0, <1>6 DEF LoadAccount
  <2>2. r \in AccountMemories /\ r.at \in {"date", "end"} /\ r.day = syncing[j].day
    BY <1>j DEF AccountMemories
  <2>3. r.day <= accountDay
    BY <1>j, <2>2 DEF MemoryFits
  <2>4. /\ daily' \in [1..MaxEvenings -> [followers : Counts, source : Sources]] /\ DailyFits'
    BY <1>0, <1>s, <2>1
  <2> HIDE DEF r
  <2> QED
    BY <1>m, <2>1, <2>2, <2>3, <2>4
<1>7. ASSUME NEW j \in AccountJob, ChooseDate(j) PROVE AccountInv'
  <2> DEFINE r == [syncing[j] EXCEPT !.at = "ask", !.day = accountDay]
  <2>1. /\ syncing[j].at = "date" /\ syncing' = [syncing EXCEPT ![j] = r]
        /\ UNCHANGED <<accountWorld, queued, accountRow, daily>>
    BY <1>0, <1>7 DEF ChooseDate
  <2>2. accountDay \in 0..MaxEvenings /\ accountDay >= 1 /\ accountDay <= accountDay
    BY <1>0, AccountNumbers
  <2>3. r \in AccountMemories /\ r.at = "ask" /\ r.day = accountDay
    BY <1>j, <2>2 DEF AccountMemories
  <2>4. /\ daily' \in [1..MaxEvenings -> [followers : Counts, source : Sources]] /\ DailyFits'
    BY <1>0, <1>s, <2>1
  <2> HIDE DEF r
  <2> QED
    BY <1>m, <2>1, <2>2, <2>3, <2>4
<1>8. ASSUME NEW j \in AccountJob, AskAccount(j) PROVE AccountInv'
  <2>1. PICK got \in {FromApi(followers), Blank("NOT_SYNCED"), Blank("UNSUPPORTED")},
             others \in {{}, {"DERIVED"}, {"PLATFORM_API"}} :
          syncing' = [syncing EXCEPT ![j].at = "store", ![j].got = got,
                                     ![j].source = DominantSource({got.source} \cup others)]
    BY <1>8 DEF AskAccount
  <2>2. syncing[j].at = "ask" /\ UNCHANGED <<accountWorld, queued, accountRow, daily>>
    BY <1>8 DEF AskAccount
  <2> DEFINE source == DominantSource({got.source} \cup others)
             r == [syncing[j] EXCEPT !.at = "store", !.got = got, !.source = source]
  <2>3. source \in Sources /\ (got.source = "PLATFORM_API" => source = "PLATFORM_API")
    BY DEF DominantSource, Sources
  <2>4. got \in [value : Counts, source : Sources]
        /\ (got.value # Unknown => got.value = followers /\ got.source = "PLATFORM_API")
    BY <1>0 DEF FromApi, Blank, Counts, Sources
  <2> HIDE DEF source
  <2>5. syncing' = [syncing EXCEPT ![j] = r]
    BY <1>0, <2>1 DEF source
  <2>6. r \in AccountMemories /\ r.at = "store" /\ r.day = syncing[j].day /\ r.got = got /\ r.source = source
    BY <1>j, <2>3, <2>4 DEF AccountMemories
  <2>7. r.day <= accountDay /\ r.day >= 1 /\ r.day \in 0..MaxEvenings
    BY <1>j, <2>2, <2>6 DEF MemoryFits
  <2>8. IsOfDay(r.got.value, r.day, r.source)
    <3>1. r.day - 1 \in 0..MaxEvenings
      BY <2>7, AccountNumbers
    <3>2. atNightfall[r.day - 1] <= followers /\ followers <= followers
      BY <1>0, <3>1
    <3> QED
      BY <2>3, <2>4, <2>6, <3>2 DEF IsOfDay
  <2>9. /\ daily' \in [1..MaxEvenings -> [followers : Counts, source : Sources]] /\ DailyFits'
    BY <1>0, <1>s, <2>2
  <2> HIDE DEF r
  <2> QED
    BY <1>m, <2>2, <2>5, <2>6, <2>7, <2>8, <2>9
<1>9. ASSUME NEW j \in AccountJob, StoreSnapshot(j) PROVE AccountInv'
  <2> DEFINE r == [Resting EXCEPT !.at = "end"]
             s == syncing[j]
             row == [followers |-> s.got.value, source |-> s.source]
  <2>1. /\ s.at = "store" /\ syncing' = [syncing EXCEPT ![j] = r]
        /\ daily' = [daily EXCEPT ![s.day] = row] /\ UNCHANGED <<accountWorld, queued, accountRow>>
    BY <1>0, <1>9 DEF StoreSnapshot
  <2>2. r \in AccountMemories /\ r.at = "end" /\ r.day = 0
    BY AccountNumbers DEF AccountMemories, Resting
  <2>3. s \in AccountMemories /\ s.day \in 1..MaxEvenings /\ s.day <= accountDay
        /\ IsOfDay(s.got.value, s.day, s.source)
    BY <1>j, <2>1 DEF MemoryFits
  <2>4. row \in [followers : Counts, source : Sources] /\ row.followers = s.got.value /\ row.source = s.source
    BY <2>3 DEF AccountMemories
  <2> HIDE DEF row, s
  <2>5. daily' \in [1..MaxEvenings -> [followers : Counts, source : Sources]]
    BY <1>0, <2>1, <2>3, <2>4
  <2>6. DailyFits'
    <3> SUFFICES ASSUME NEW d \in 1..MaxEvenings
                 PROVE  IF d <= accountDay THEN IsOfDay(daily'[d].followers, d, daily'[d].source)
                                           ELSE daily'[d] = NotTaken
      BY <2>1 DEF DailyFits, IsOfDay, accountWorld
    <3>1. CASE d = s.day
      BY <1>0, <2>1, <2>3, <2>4, <3>1
    <3>2. CASE d # s.day
      <4>1. daily'[d] = daily[d]
        BY <1>0, <2>1, <3>2
      <4> QED
        BY <1>0, <4>1 DEF DailyFits
    <3> QED
      BY <3>1, <3>2
  <2>7. syncing[j].at # "idle" /\ 0 <= accountDay
    BY <1>0, <2>1 DEF s
  <2> HIDE DEF r
  <2> QED
    BY <1>m, <2>1, <2>2, <2>5, <2>6, <2>7
<1>10. ASSUME NEW j \in AccountJob, EndAccountJob(j) PROVE AccountInv'
  <2> DEFINE e == [queued[j] EXCEPT !.state = "done"]
  <2>1. /\ syncing' = [syncing EXCEPT ![j] = Resting] /\ accountRow' = [accountRow EXCEPT ![j] = "COMPLETED"]
        /\ queued' = [queued EXCEPT ![j] = e] /\ UNCHANGED <<accountWorld, daily>>
    BY <1>0, <1>10 DEF EndAccountJob
  <2>2. e \in AccountDeliveries /\ e.state = "done" /\ "COMPLETED" \in AccountRows
    BY <1>j DEF AccountDeliveries, AccountRows
  <2> HIDE DEF e
  <2> QED
    BY <1>e, <2>1, <2>2
<1>11. ASSUME NEW j \in AccountJob, FailAccountJob(j) PROVE AccountInv'
  <2> DEFINE last == queued[j].tries = AccountTries
             e == [queued[j] EXCEPT !.state = IF last THEN "dead" ELSE "waiting"]
             w == IF last THEN "DEAD" ELSE "FAILED"
  <2>1. /\ syncing' = [syncing EXCEPT ![j] = Resting] /\ accountRow' = [accountRow EXCEPT ![j] = w]
        /\ queued' = [queued EXCEPT ![j] = e] /\ UNCHANGED <<accountWorld, daily>>
    BY <1>0, <1>11 DEF FailAccountJob
  <2>2. ~last => queued[j].tries < AccountTries
    BY <1>j, AccountNumbers
  <2>3. /\ e \in AccountDeliveries /\ e.state \in {"dead", "waiting"}
           /\ (e.state = "waiting" => e.tries < AccountTries)
        /\ w \in AccountRows /\ w # "none" /\ (w = "DEAD" => e.state = "dead")
    BY <1>j, <2>2 DEF AccountDeliveries, AccountRows
  <2> HIDE DEF e, w
  <2> QED
    BY <1>e, <2>1, <2>3
<1>12. ASSUME NEW j \in AccountJob, AccountWorkerDies(j) PROVE AccountInv'
  <2> DEFINE e == [state |-> IF queued[j].stalled THEN "dead" ELSE "waiting", tries |-> queued[j].tries - 1, stalled |-> TRUE]
             w == accountRow[j]
  <2>1. /\ syncing[j].at # "idle" /\ syncing' = [syncing EXCEPT ![j] = Resting]
           /\ accountRow' = [accountRow EXCEPT ![j] = w]
        /\ queued' = [queued EXCEPT ![j] = e] /\ UNCHANGED <<accountWorld, daily>>
    BY <1>0, <1>12 DEF AccountWorkerDies
  <2>a. queued[j].state = "running" /\ queued[j].tries > 0
    BY <1>f, <2>1
  <2>b. accountRow[j] # "none" /\ accountRow[j] # "DEAD"
    BY <1>f, <2>a
  <2>2. queued[j].state = "running" /\ queued[j].tries > 0 /\ w \in AccountRows /\ w # "none" /\ w # "DEAD"
    BY <1>j, <2>a, <2>b
  <2>3. queued[j].tries - 1 \in 0..AccountTries /\ queued[j].tries - 1 < AccountTries
    BY <1>j, <2>2, AccountNumbers
  <2>4. e \in AccountDeliveries /\ e.state # "running" /\ e.tries < AccountTries
    BY <2>3 DEF AccountDeliveries
  <2> HIDE DEF e, w
  <2> QED
    BY <1>e, <2>1, <2>2, <2>4
<1>13. CASE UNCHANGED accountVars
  <2>1. /\ followers' = followers /\ accountDay' = accountDay /\ atNightfall' = atNightfall
        /\ UNCHANGED <<syncing, queued, accountRow, daily>>
    BY <1>13 DEF accountVars
  <2> QED
    BY <1>0, <2>1 DEF AccountInv, AccountTyped, DailyFits, IsOfDay, AccountJobFits, MemoryFits
<1> QED
  BY <1>1, <1>2, <1>3, <1>4, <1>5, <1>6, <1>7, <1>8, <1>9, <1>10, <1>11, <1>12, <1>13 DEF AccountNext

(* Hence it holds throughout.                                              *)
LEMMA AccountInvHolds == AccountSpec => []AccountInv
BY AccountInvInit, AccountInvStep, PTL DEF AccountSpec

(* AccountTypeOK, for every number of jobs, days, attempts and mishaps.    *)
THEOREM AccountTypesHold == AccountSpec => []AccountTypeOK
<1>1. AccountInv => AccountTypeOK
  <2> SUFFICES ASSUME AccountInv PROVE AccountTypeOK
    OBVIOUS
  <2>1. AccountTyped /\ DailyFits
    BY DEF AccountInv
  <2>2. ASSUME NEW d \in 1..MaxEvenings
        PROVE  /\ daily[d].followers \in {Unknown} \cup 0..followers /\ daily[d].source \in Sources
               /\ d > accountDay => daily[d] = NotTaken
    <3>1. daily[d].followers \in Counts /\ daily[d].source \in Sources /\ followers \in Nat
          /\ accountDay \in Nat
      BY <2>1, AccountNumbers DEF AccountTyped
    <3>2. daily[d].followers # Unknown => daily[d].followers <= followers
      BY <2>1, AccountNumbers DEF DailyFits, IsOfDay
    <3>3. d > accountDay => daily[d] = NotTaken
      BY <2>1, <3>1 DEF DailyFits
    <3> QED
      BY <3>1, <3>2, <3>3, AccountNumbers DEF Counts
  <2>3. ASSUME NEW j \in AccountJob
        PROVE  /\ queued[j].tries \in 0..AccountTries /\ syncing[j].day \in 0..accountDay
               /\ syncing[j].at # "idle" => queued[j].state = "running"
               /\ accountRow[j] = "DEAD" => syncing[j].at = "idle"
    <3>1. AccountJobFits(j) /\ MemoryFits(j) /\ queued[j] \in AccountDeliveries
          /\ syncing[j] \in AccountMemories
      BY <2>1 DEF AccountInv, AccountTyped
    <3>2. accountDay \in Nat /\ MaxEvenings \in Nat
      BY <2>1, AccountNumbers DEF AccountTyped
    <3>3. syncing[j].day \in 0..MaxEvenings /\ queued[j].tries \in 0..AccountTries
      BY <3>1 DEF AccountMemories, AccountDeliveries
    <3> QED
      BY <3>1, <3>2, <3>3 DEF AccountJobFits, MemoryFits
  <2> QED
    BY <2>1, <2>2, <2>3 DEF AccountTypeOK, AccountTyped
<1> QED
  BY <1>1, AccountInvHolds, PTL

(* SnapshotsAreNotOld: what is stored under a date is no older than it.    *)
THEOREM DaysAreNotOld == AccountSpec => []SnapshotsAreNotOld
<1>1. AccountInv => SnapshotsAreNotOld
  <2> SUFFICES ASSUME AccountInv, NEW d \in 1..accountDay, daily[d].followers # Unknown
               PROVE  daily[d].followers >= atNightfall[d - 1] /\ daily[d].source = "PLATFORM_API"
    BY DEF SnapshotsAreNotOld
  <2>1. d \in 1..MaxEvenings /\ d <= accountDay /\ d - 1 \in 0..MaxEvenings
    BY AccountNumbers DEF AccountInv, AccountTyped
  <2>2. IsOfDay(daily[d].followers, d, daily[d].source)
    BY <2>1 DEF AccountInv, DailyFits
  <2>3. daily[d].followers \in Int /\ atNightfall[d - 1] \in Int
    BY <2>1, AccountNumbers DEF AccountInv, AccountTyped
  <2> QED
    BY <2>2, <2>3 DEF IsOfDay
<1> QED
  BY <1>1, AccountInvHolds, PTL
-----------------------------------------------------------------------------
(* The platforms' numbers, for every read and answer: each is taken from   *)
(* an item that was given, and an engagement is the sum of its parts.      *)

(* A read is one of the nine; what it heard is what it asked for so far.   *)
ReadInv ==
  /\ reader \in DOMAIN Reads /\ readAt \in {"ask", "insights", "done", "failed"}
  /\ DOMAIN heard \subseteq Read.base \cup Read.insights
     /\ \A i \in DOMAIN heard : heard[i] \in {Unknown} \cup 0..MaxAnswer
  /\ readAt = "insights" => DOMAIN heard = Read.base
  /\ readAt = "ask" => heard = <<>>

(* A number is taken from one of at most two items.                        *)
Preferences(read) ==
  /\ DOMAIN read.prefers \subseteq {"likes", "comments", "shares", "saves", "views", "reach", "impressions",
                                    "followers", "profileViews", "clicks", "linkClicks"}
  /\ \A field \in DOMAIN read.prefers : DOMAIN read.prefers[field] \subseteq {1, 2}

(* So it is for each read, one by one.                                     *)
LEMMA ReadShapes == \A r \in DOMAIN Reads : Preferences(Reads[r])
<1>1. Preferences(FacebookPost)
  BY DEF FacebookPost, Preferences
<1>2. Preferences(InstagramPost)
  BY DEF InstagramPost, Preferences
<1>3. Preferences(YouTubePost)
  BY DEF YouTubePost, Preferences
<1>4. Preferences(PinterestPost)
  BY DEF PinterestPost, Preferences
<1>5. Preferences(TikTokPost)
  BY DEF TikTokPost, Preferences
<1>6. Preferences(FacebookAccount)
  BY DEF FacebookAccount, Account, Preferences
<1>7. Preferences(InstagramAccount)
  BY DEF InstagramAccount, Account, Preferences
<1>8. Preferences(YouTubeAccount)
  BY DEF YouTubeAccount, Account, Preferences
<1>9. Preferences(TikTokAccount)
  BY DEF TikTokAccount, Account, Preferences
<1> QED
  BY <1>1, <1>2, <1>3, <1>4, <1>5, <1>6, <1>7, <1>8, <1>9 DEF Reads

(* ReadInv holds at the start, and every step keeps it.                    *)
LEMMA ReadInvInit == ReadInit => ReadInv
BY DEF ReadInit, ReadInv

(* One step per action.                                                    *)
LEMMA ReadInvStep == ReadInv /\ [ReadNext]_readVars => ReadInv'
<1> SUFFICES ASSUME ReadInv, [ReadNext]_readVars PROVE ReadInv'
  OBVIOUS
<1>0. /\ reader \in DOMAIN Reads /\ DOMAIN heard \subseteq Read.base \cup Read.insights
      /\ \A i \in DOMAIN heard : heard[i] \in {Unknown} \cup 0..MaxAnswer
      /\ readAt = "insights" => DOMAIN heard = Read.base
  BY DEF ReadInv
<1>1. CASE AskBase
  <2>1. reader' = reader /\ readAt = "ask" /\ heard = <<>> /\ Read' = Read
    BY <1>1 DEF AskBase, ReadInv, Read
  <2>2. CASE readAt' = "failed" /\ heard' = heard
    BY <1>0, <2>1, <2>2 DEF ReadInv
  <2>3. CASE readAt' = (IF Read.insights = {} THEN "done" ELSE "insights") /\ heard' \in Answers(Read.base)
    <3>1. DOMAIN heard' = Read.base /\ \A i \in Read.base : heard'[i] \in {Unknown} \cup 0..MaxAnswer
      BY <2>3 DEF Answers
    <3> QED
      BY <1>0, <2>1, <2>3, <3>1 DEF ReadInv
  <2>4. CASE readAt' = "done" /\ heard' = heard
    BY <1>0, <2>1, <2>4 DEF ReadInv
  <2> QED
    BY <1>1, <2>2, <2>3, <2>4 DEF AskBase
<1>2. CASE AskInsights
  <2>1. reader' = reader /\ readAt = "insights" /\ Read' = Read
    BY <1>2 DEF AskInsights, Read
  <2>2. CASE readAt' = "failed" /\ heard' = heard
    BY <1>0, <2>1, <2>2 DEF ReadInv
  <2>3. ASSUME readAt' = "done", NEW got \in Answers(Read.insights),
               heard' = [i \in Read.base \cup Read.insights |-> IF i \in Read.insights THEN got[i] ELSE heard[i]]
        PROVE  ReadInv'
    <3>1. DOMAIN heard' = Read.base \cup Read.insights
      BY <2>3
    <3>2. ASSUME NEW i \in Read.base \cup Read.insights PROVE heard'[i] \in {Unknown} \cup 0..MaxAnswer
      <4>1. heard'[i] = IF i \in Read.insights THEN got[i] ELSE heard[i]
        BY <2>3
      <4>2. i \in Read.insights => got[i] \in {Unknown} \cup 0..MaxAnswer
        BY <2>3 DEF Answers
      <4>3. i \notin Read.insights => heard[i] \in {Unknown} \cup 0..MaxAnswer
        BY <1>0, <2>1
      <4> QED
        BY <4>1, <4>2, <4>3
    <3> QED
      BY <1>0, <2>1, <2>3, <3>1, <3>2 DEF ReadInv
  <2> QED
    BY <1>2, <2>2, <2>3 DEF AskInsights
<1>3. CASE UNCHANGED readVars
  BY <1>3 DEF readVars, ReadInv, Read
<1> QED
  BY <1>1, <1>2, <1>3 DEF ReadNext

(* Hence it holds throughout.                                              *)
LEMMA ReadInvHolds == ReadSpec => []ReadInv
BY ReadInvInit, ReadInvStep, PTL DEF ReadSpec

(* ReadTypeOK, for every bound on the numbers.                             *)
THEOREM ReadTypesHold == ReadSpec => []ReadTypeOK
<1>1. ReadInv => ReadTypeOK
  <2> SUFFICES ASSUME ReadInv PROVE ReadTypeOK
    OBVIOUS
  <2>1. Preferences(Read)
    BY ReadShapes DEF ReadInv, Read
  <2>2. \A n \in {Unknown} \cup 0..MaxAnswer : n \in -1..MaxAnswer
    BY PlatformReadsAssumption DEF Unknown
  <2> QED
    BY <2>1, <2>2 DEF ReadInv, ReadTypeOK, Preferences
<1> QED
  BY <1>1, ReadInvHolds, PTL

(* FirstGiven takes the first of the items that were given, if any was.    *)
LEMMA FirstIsGiven ==
  ASSUME NEW items, DOMAIN items \subseteq {1, 2}
  PROVE  LET from == {i \in DOMAIN items : Given(items[i])}
         IN  IF from = {} THEN FirstGiven(items) = Unknown
             ELSE \E i \in from : /\ FirstGiven(items) = heard[items[i]] /\ heard[items[i]] # Unknown
                                  /\ \A j \in from : i <= j
<1> DEFINE from == {i \in DOMAIN items : Given(items[i])}
<1>1. FirstGiven(items) = IF from = {} THEN Unknown ELSE heard[items[Min(from)]]
  BY DEF FirstGiven
<1>2. \A i \in from : heard[items[i]] # Unknown
  BY DEF Given
<1>3. from \subseteq {1, 2}
  OBVIOUS
<1> HIDE DEF from
<1>4. from # {} => Min(from) \in from /\ \A j \in from : Min(from) <= j
  <2>1. from # {} => \E x \in from : \A y \in from : x <= y
    <3>1. CASE 1 \in from
      <4>1. \A y \in from : 1 <= y
        BY <1>3
      <4> QED
        BY <3>1, <4>1
    <3>2. CASE 1 \notin from
      <4>1. \A y \in from : y = 2
        BY <1>3, <3>2
      <4> QED
        BY <4>1
    <3> QED
      BY <3>1, <3>2
  <2> QED
    BY <2>1 DEF Min
<1> QED
  BY <1>1, <1>2, <1>4 DEF from

(* NumbersAreGiven, for every bound: no number is shown that the platform  *)
(* did not give, TikTok's zeros apart, and none it gave is lost.           *)
THEOREM NumbersComeFromAnswers == ReadSpec => []NumbersAreGiven
<1>1. ReadInv => NumbersAreGiven
  <2> SUFFICES ASSUME ReadInv, NEW field \in DOMAIN Read.prefers
               PROVE  LET from == {i \in DOMAIN Read.prefers[field] : Given(Read.prefers[field][i])} IN
                      IF Usable(Number(field))
                      THEN \/ \E i \in from : Number(field) = Raw(Read.prefers[field][i])
                                              /\ Read.prefers[field][i] \in InTable
                           \/ reader = "ttPost" /\ from = {} /\ Number(field).value = 0
                      ELSE from = {}
    BY DEF NumbersAreGiven
  <2> DEFINE items == Read.prefers[field]
             from == {i \in DOMAIN items : Given(items[i])}
             n == TikTokZero(FirstGiven(items))
             number == Number(field)
             none == Blank(IF reader = "ttPost" /\ heard = <<>> THEN "NOT_SYNCED" ELSE Read.blank)
  <2>1. Preferences(Read)
    BY ReadShapes DEF ReadInv, Read
  <2>2. DOMAIN items \subseteq {1, 2}
    BY <2>1 DEF Preferences
  <2>3. IF from = {} THEN FirstGiven(items) = Unknown
        ELSE \E i \in from : FirstGiven(items) = heard[items[i]] /\ heard[items[i]] # Unknown
    BY <2>2, FirstIsGiven
  <2>4. number = IF n # Unknown THEN FromApi(n) ELSE none
    BY DEF Number
  <2>5. n = IF FirstGiven(items) = Unknown /\ reader = "ttPost" /\ heard # <<>> THEN 0 ELSE FirstGiven(items)
    BY DEF TikTokZero
  <2>6. none.value = Unknown /\ \A m : FromApi(m).value = m /\ FromApi(m).source = "PLATFORM_API"
    BY DEF Blank, FromApi
  <2>7. \A i \in from : Given(items[i])
    OBVIOUS
  <2>8. ASSUME NEW i \in from PROVE Raw(items[i]) = FromApi(heard[items[i]]) /\ items[i] \in InTable
    <3>1. Given(items[i]) /\ items[i] \in DOMAIN heard
      BY <2>7 DEF Given
    <3>2. items[i] \in Read.base \cup Read.insights
      BY <3>1 DEF ReadInv
    <3> QED
      BY <3>1, <3>2 DEF Raw, InTable
  <2> HIDE DEF from, items, n, number, none
  <2>9. CASE from = {}
    <3>1. FirstGiven(items) = Unknown
      BY <2>3, <2>9
    <3>2. n # Unknown => n = 0 /\ reader = "ttPost"
      BY <2>5, <3>1
    <3>3. IF Usable(number) THEN reader = "ttPost" /\ number.value = 0 ELSE TRUE
      BY <2>4, <2>6, <3>2 DEF Usable
    <3> QED
      BY <2>9, <3>3 DEF from, items, number
  <2>10. CASE from # {}
    <3>1. PICK i \in from : FirstGiven(items) = heard[items[i]] /\ heard[items[i]] # Unknown
      BY <2>3, <2>10
    <3>2. n = heard[items[i]] /\ n # Unknown
      BY <2>5, <3>1
    <3>3. number = FromApi(heard[items[i]]) /\ Usable(number)
      BY <2>4, <2>6, <3>2 DEF Usable
    <3>4. i \in from /\ number = Raw(items[i]) /\ items[i] \in InTable
      BY <2>8, <3>1, <3>3
    <3> QED
      BY <3>3, <3>4 DEF from, items, number
  <2> QED
    BY <2>9, <2>10
<1> QED
  BY <1>1, ReadInvHolds, PTL

(* The numbers an engagement is made of, and the items it is summed from:  *)
(* on Facebook, likes known by their types alone are not; on Pinterest, the*)
(* clicks are.                                                             *)
Parts == <<"likes", "comments", "shares", "saves">>
SummedIn(name) == IF name = "pinPost" THEN Rated \cup {"clicks", "linkClicks"} ELSE Rated
FieldsOf(name, read) == {f \in SummedIn(name) : f \in DOMAIN read.prefers}
SummedOf(name, read) ==
  [f \in FieldsOf(name, read) |-> IF name = "fbPost" /\ f = "likes" THEN <<"reactions">> ELSE read.prefers[f]]

(* The items summed are those of these numbers, each its own.              *)
Adds(name, read) ==
  read.sumOf # {} =>
    LET items == SummedOf(name, read) IN
    /\ read.sumOf = {items[f] : f \in FieldsOf(name, read)}
    /\ \A f, g \in FieldsOf(name, read) : items[f] = items[g] => f = g

(* So it is in each of the nine.                                           *)
LEMMA ReadsAdd == \A name \in DOMAIN Reads : Adds(name, Reads[name])
<1>1. Adds("fbPost", FacebookPost)
  <2> DEFINE items == SummedOf("fbPost", FacebookPost)
             fields == {"likes", "comments", "shares"}
  <2>1. DOMAIN FacebookPost.prefers \cap {"likes", "comments", "shares", "saves"} = fields
    BY DEF FacebookPost
  <2>2. FieldsOf("fbPost", FacebookPost) = fields
    BY <2>1 DEF FieldsOf, SummedIn, Rated
  <2>3. /\ items["likes"] = <<"reactions">>
        /\ items["comments"] = <<"comments">>
        /\ items["shares"] = <<"shares">>
    BY <2>2 DEF SummedOf, FacebookPost
  <2>4. FacebookPost.sumOf = {<<"reactions">>, <<"comments">>, <<"shares">>}
    BY DEF FacebookPost
  <2>5. /\ <<"reactions">> # <<"comments">> /\ <<"reactions">> # <<"shares">>
        /\ <<"comments">> # <<"shares">>
    OBVIOUS
  <2> HIDE DEF items
  <2>6. {items[f] : f \in fields} = {items["likes"], items["comments"], items["shares"]}
    OBVIOUS
  <2>7. \A f, g \in fields : items[f] = items[g] => f = g
    BY <2>3, <2>5
  <2> QED
    BY <2>2, <2>3, <2>4, <2>6, <2>7 DEF Adds, items
<1>2. Adds("igPost", InstagramPost)
  <2> DEFINE items == SummedOf("igPost", InstagramPost)
             fields == {"likes", "comments", "shares", "saves"}
  <2>1. DOMAIN InstagramPost.prefers \cap {"likes", "comments", "shares", "saves"} = fields
    BY DEF InstagramPost
  <2>2. FieldsOf("igPost", InstagramPost) = fields
    BY <2>1 DEF FieldsOf, SummedIn, Rated
  <2>3. /\ items["likes"] = <<"like_count", "likes">>
        /\ items["comments"] = <<"comments_count", "comments">>
        /\ items["shares"] = <<"shares">>
        /\ items["saves"] = <<"saved">>
    BY <2>2 DEF SummedOf, InstagramPost
  <2>4. InstagramPost.sumOf = {<<"like_count", "likes">>, <<"comments_count", "comments">>, <<"shares">>, <<"saved">>}
    BY DEF InstagramPost
  <2>5. /\ <<"like_count", "likes">> # <<"comments_count", "comments">>
           /\ <<"like_count", "likes">> # <<"shares">> /\ <<"like_count", "likes">> # <<"saved">>
        /\ <<"comments_count", "comments">> # <<"shares">> /\ <<"comments_count", "comments">> # <<"saved">>
        /\ <<"shares">> # <<"saved">>
    OBVIOUS
  <2> HIDE DEF items
  <2>6. {items[f] : f \in fields} = {items["likes"], items["comments"], items["shares"], items["saves"]}
    OBVIOUS
  <2>7. \A f, g \in fields : items[f] = items[g] => f = g
    BY <2>3, <2>5
  <2> QED
    BY <2>2, <2>3, <2>4, <2>6, <2>7 DEF Adds, items
<1>3. Adds("ytPost", YouTubePost)
  <2> DEFINE items == SummedOf("ytPost", YouTubePost)
             fields == {"likes", "comments", "shares"}
  <2>1. DOMAIN YouTubePost.prefers \cap {"likes", "comments", "shares", "saves"} = fields
    BY DEF YouTubePost
  <2>2. FieldsOf("ytPost", YouTubePost) = fields
    BY <2>1 DEF FieldsOf, SummedIn, Rated
  <2>3. /\ items["likes"] = <<"likes", "likeCount">>
        /\ items["comments"] = <<"comments", "commentCount">>
        /\ items["shares"] = <<"shares">>
    BY <2>2 DEF SummedOf, YouTubePost
  <2>4. YouTubePost.sumOf = {<<"likes", "likeCount">>, <<"comments", "commentCount">>, <<"shares">>}
    BY DEF YouTubePost
  <2>5. /\ <<"likes", "likeCount">> # <<"comments", "commentCount">>
           /\ <<"likes", "likeCount">> # <<"shares">>
        /\ <<"comments", "commentCount">> # <<"shares">>
    OBVIOUS
  <2> HIDE DEF items
  <2>6. {items[f] : f \in fields} = {items["likes"], items["comments"], items["shares"]}
    OBVIOUS
  <2>7. \A f, g \in fields : items[f] = items[g] => f = g
    BY <2>3, <2>5
  <2> QED
    BY <2>2, <2>3, <2>4, <2>6, <2>7 DEF Adds, items
<1>4. Adds("pinPost", PinterestPost)
  <2> DEFINE items == SummedOf("pinPost", PinterestPost)
             fields == {"likes", "comments", "saves", "clicks", "linkClicks"}
  <2>1. DOMAIN PinterestPost.prefers \cap (Rated \cup {"clicks", "linkClicks"}) = fields
    BY DEF PinterestPost, Rated
  <2>2. FieldsOf("pinPost", PinterestPost) = fields
    BY <2>1 DEF FieldsOf, SummedIn
  <2>3. /\ items["likes"] = <<"TOTAL_REACTIONS", "reaction">>
        /\ items["comments"] = <<"comment", "comment90d">>
        /\ items["saves"] = <<"SAVE", "save">>
        /\ items["clicks"] = <<"PIN_CLICK", "pin_click">>
        /\ items["linkClicks"] = <<"OUTBOUND_CLICK", "clickthrough">>
    BY <2>2 DEF SummedOf, PinterestPost
  <2>4. PinterestPost.sumOf = {<<"TOTAL_REACTIONS", "reaction">>, <<"comment", "comment90d">>, <<"SAVE", "save">>,
                               <<"PIN_CLICK", "pin_click">>, <<"OUTBOUND_CLICK", "clickthrough">>}
    BY DEF PinterestPost
  <2>5. /\ items["likes"][1] = "TOTAL_REACTIONS" /\ items["comments"][1] = "comment" /\ items["saves"][1] = "SAVE"
        /\ items["clicks"][1] = "PIN_CLICK" /\ items["linkClicks"][1] = "OUTBOUND_CLICK"
    BY <2>3
  <2> HIDE DEF items
  <2>6. {items[f] : f \in fields}
          = {items["likes"], items["comments"], items["saves"], items["clicks"], items["linkClicks"]}
    OBVIOUS
  <2>7. \A f, g \in fields : items[f] = items[g] => f = g
    BY <2>5
  <2> QED
    BY <2>2, <2>3, <2>4, <2>6, <2>7 DEF Adds, items
<1>5. Adds("ttPost", TikTokPost)
  <2> DEFINE items == SummedOf("ttPost", TikTokPost)
             fields == {"likes", "comments", "shares"}
  <2>1. DOMAIN TikTokPost.prefers \cap {"likes", "comments", "shares", "saves"} = fields
    BY DEF TikTokPost
  <2>2. FieldsOf("ttPost", TikTokPost) = fields
    BY <2>1 DEF FieldsOf, SummedIn, Rated
  <2>3. /\ items["likes"] = <<"like_count">>
        /\ items["comments"] = <<"comment_count">>
        /\ items["shares"] = <<"share_count">>
    BY <2>2 DEF SummedOf, TikTokPost
  <2>4. TikTokPost.sumOf = {<<"like_count">>, <<"comment_count">>, <<"share_count">>}
    BY DEF TikTokPost
  <2>5. /\ <<"like_count">> # <<"comment_count">> /\ <<"like_count">> # <<"share_count">>
        /\ <<"comment_count">> # <<"share_count">>
    OBVIOUS
  <2> HIDE DEF items
  <2>6. {items[f] : f \in fields} = {items["likes"], items["comments"], items["shares"]}
    OBVIOUS
  <2>7. \A f, g \in fields : items[f] = items[g] => f = g
    BY <2>3, <2>5
  <2> QED
    BY <2>2, <2>3, <2>4, <2>6, <2>7 DEF Adds, items
<1>6. Adds("fbAccount", FacebookAccount) /\ Adds("igAccount", InstagramAccount) 
      /\ Adds("ytAccount", YouTubeAccount) /\ Adds("ttAccount", TikTokAccount)
  BY DEF FacebookAccount, InstagramAccount, YouTubeAccount, TikTokAccount, Account, Adds
<1> QED
  BY <1>1, <1>2, <1>3, <1>4, <1>5, <1>6 DEF Reads

(* A number is known when an item it is taken from is.                     *)
LEMMA NumberIs ==
  ASSUME ReadInv, NEW field
  PROVE  LET n == Number(field) IN
         /\ n.value \in {Unknown} \cup Nat
         /\ Usable(n) <=> n.value # Unknown
         /\ n.value # Unknown => n.source = "PLATFORM_API"
         /\ field \notin DOMAIN Read.prefers => n.value = Unknown
         /\ field \in DOMAIN Read.prefers => n.value = TikTokZero(FirstGiven(Read.prefers[field]))
<1> DEFINE items == Read.prefers[field]
           z == TikTokZero(FirstGiven(items))
<1>1. Preferences(Read)
  BY ReadShapes DEF ReadInv, Read
<1>2. ASSUME field \in DOMAIN Read.prefers PROVE z \in {Unknown} \cup Nat
  <2>1. DOMAIN items \subseteq {1, 2}
    BY <1>1, <1>2 DEF Preferences
  <2>2. FirstGiven(items) = Unknown \/ \E i \in DOMAIN items : Given(items[i])
        /\ FirstGiven(items) = heard[items[i]]
    BY <2>1, FirstIsGiven
  <2>3. \A i : Given(i) => heard[i] \in {Unknown} \cup 0..MaxAnswer
    BY DEF ReadInv, Given
  <2>4. FirstGiven(items) \in {Unknown} \cup Nat
    BY <2>2, <2>3
  <2> QED
    BY <2>4 DEF TikTokZero
<1>3. \A source : Blank(source).value = Unknown /\ ~Usable(Blank(source))
  BY DEF Blank, Usable
<1>4. \A m : FromApi(m).value = m /\ FromApi(m).source = "PLATFORM_API" /\ (m # Unknown => Usable(FromApi(m)))
  BY DEF FromApi, Usable
<1>5. CASE field \notin DOMAIN Read.prefers
  BY <1>3, <1>5 DEF Number
<1>6. CASE field \in DOMAIN Read.prefers /\ z = Unknown
  BY <1>3, <1>6 DEF Number
<1>7. CASE field \in DOMAIN Read.prefers /\ z # Unknown
  BY <1>2, <1>4, <1>7 DEF Number
<1> QED
  BY <1>5, <1>6, <1>7

(* What the items of a field come to is the field's number, unless it is   *)
(* that of Facebook's likes and they are known by their types alone.       *)
LEMMA ItemsTell ==
  ASSUME ReadInv, Read.sumOf # {}, NEW f \in FieldsOf(reader, Read)
  PROVE  LET byType == reader = "fbPost" /\ ~Given("reactions") /\ Given("reactions_by_type")
             w == TikTokZero(FirstGiven(SummedOf(reader, Read)[f]))
         IN  /\ byType /\ f = "likes" => Number(f).value # Unknown
             /\ ~(byType /\ f = "likes") => w = Number(f).value
<1> DEFINE byType == reader = "fbPost" /\ ~Given("reactions") /\ Given("reactions_by_type")
           items == SummedOf(reader, Read)[f]
<1>1. Number(f).value = TikTokZero(FirstGiven(Read.prefers[f]))
  BY NumberIs DEF FieldsOf
<1>2. CASE ~(reader = "fbPost" /\ f = "likes")
  <2>1. items = Read.prefers[f]
    BY <1>2 DEF SummedOf
  <2> QED
    BY <1>1, <1>2, <2>1
<1>3. CASE reader = "fbPost" /\ f = "likes"
  <2> DEFINE one == <<"reactions">>
             two == <<"reactions", "reactions_by_type">>
  <2>1. items = one
    BY <1>3 DEF SummedOf
  <2>2. Read.prefers[f] = two
    BY <1>3 DEF Read, Reads, FacebookPost
  <2>3. FirstGiven(one) = IF Given("reactions") THEN heard["reactions"] ELSE Unknown
    <3>1. DOMAIN one = {1} /\ one[1] = "reactions"
      OBVIOUS
    <3> HIDE DEF one
    <3>2. {i \in DOMAIN one : Given(one[i])} = IF Given("reactions") THEN {1} ELSE {}
      BY <3>1
    <3> QED
      BY <3>1, <3>2, FirstIsGiven
  <2>4. /\ FirstGiven(two) = IF Given("reactions") THEN heard["reactions"]
                             ELSE IF Given("reactions_by_type") THEN heard["reactions_by_type"] ELSE Unknown
    <3>1. DOMAIN two = {1, 2} /\ two[1] = "reactions" /\ two[2] = "reactions_by_type"
      OBVIOUS
    <3> DEFINE from == {i \in DOMAIN two : Given(two[i])}
    <3> HIDE DEF two
    <3>2. IF from = {} THEN FirstGiven(two) = Unknown
          ELSE \E i \in from : FirstGiven(two) = heard[two[i]] /\ \A j \in from : i <= j
      BY <3>1, FirstIsGiven
    <3>3. /\ 1 \in from <=> Given("reactions")
          /\ 2 \in from <=> Given("reactions_by_type")
          /\ \A i \in from : i \in {1, 2}
      BY <3>1
    <3> HIDE DEF from
    <3>4. CASE Given("reactions")
      <4>1. PICK i \in from : FirstGiven(two) = heard[two[i]] /\ \A j \in from : i <= j
        BY <3>2, <3>3, <3>4
      <4>2. i = 1
        BY <3>3, <3>4, <4>1
      <4> QED
        BY <3>1, <3>4, <4>1, <4>2
    <3>5. CASE ~Given("reactions") /\ Given("reactions_by_type")
      <4>1. PICK i \in from : FirstGiven(two) = heard[two[i]]
        BY <3>2, <3>3, <3>5
      <4>2. i = 2
        BY <3>3, <3>5
      <4> QED
        BY <3>1, <3>5, <4>1, <4>2
    <3>6. CASE ~Given("reactions") /\ ~Given("reactions_by_type")
      BY <3>2, <3>3, <3>6
    <3> QED
      BY <3>4, <3>5, <3>6
  <2>5. \A n : TikTokZero(n) = n
    BY <1>3 DEF TikTokZero
  <2>6. Given("reactions_by_type") => heard["reactions_by_type"] # Unknown
    BY DEF Given
  <2> HIDE DEF one, two
  <2> QED
    BY <1>1, <1>3, <2>1, <2>2, <2>3, <2>4, <2>5, <2>6
<1> QED
  BY <1>2, <1>3

(* What is summed of the numbers shown is finite, and each of it known.    *)
ShownOf(S) == {f \in S : Usable(Number(f))}
ValuesOf(S) == [f \in ShownOf(S) |-> Number(f).value]

LEMMA ShownIsFinite ==
  ASSUME ReadInv, NEW S, S \subseteq Rated \cup {"clicks", "linkClicks"}
  PROVE  /\ IsFiniteSet(ShownOf(S))
         /\ SumOfShown(S) = SumFunctionOnSet(ValuesOf(S), ShownOf(S))
         /\ \A f \in ShownOf(S) : ValuesOf(S)[f] = Number(f).value /\ ValuesOf(S)[f] \in Int
         /\ \A f \in S : f \in ShownOf(S) <=> Number(f).value # Unknown
<1>1. \A f \in S : /\ Number(f).value \in {Unknown} \cup Nat
                   /\ Usable(Number(f)) <=> Number(f).value # Unknown
  BY NumberIs
<1>2. IsFiniteSet(ShownOf(S))
  <2> DEFINE Six == Rated \cup {"clicks", "linkClicks"}
  <2>1. IsFiniteSet({})
    BY FS_EmptySet
  <2>2. Six = {} \cup {"likes"} \cup {"comments"} \cup {"shares"} \cup {"saves"} \cup {"clicks"} \cup {"linkClicks"}
    BY DEF Rated
  <2>3. ShownOf(S) \subseteq Six
    BY DEF ShownOf
  <2> HIDE DEF Six
  <2>4. IsFiniteSet(Six)
    <3>1. IsFiniteSet({} \cup {"likes"} \cup {"comments"} \cup {"shares"})
      BY <2>1, FS_AddElement
    <3> DEFINE three == {} \cup {"likes"} \cup {"comments"} \cup {"shares"}
    <3> HIDE DEF three
    <3>2. IsFiniteSet(three \cup {"saves"} \cup {"clicks"} \cup {"linkClicks"})
      <4>1. IsFiniteSet(three)
        BY <3>1 DEF three
      <4> QED
        BY <4>1, FS_AddElement
    <3>3. Six = three \cup {"saves"} \cup {"clicks"} \cup {"linkClicks"}
      BY <2>2 DEF three
    <3> QED
      BY <3>2, <3>3
  <2> QED
    BY <2>3, <2>4, FS_Subset
<1>3. SumOfShown(S) = SumFunctionOnSet(ValuesOf(S), ShownOf(S))
  BY DEF SumOfShown, SumFunction, ValuesOf, ShownOf
<1>4. \A f \in ShownOf(S) : ValuesOf(S)[f] = Number(f).value /\ ValuesOf(S)[f] \in Int
  BY <1>1 DEF ValuesOf, ShownOf, Unknown
<1>5. \A f \in S : f \in ShownOf(S) <=> Number(f).value # Unknown
  BY <1>1 DEF ShownOf
<1> QED
  BY <1>2, <1>3, <1>4, <1>5

(* TotalsAddUp follows: the items and the fields are summed alike.         *)
LEMMA TotalsFollow == ASSUME ReadInv PROVE TotalsAddUp
<1> DEFINE fields == FieldsOf(reader, Read)
           items == SummedOf(reader, Read)
           usable == ShownOf(Summed)
           values == ValuesOf(Summed)
           sum == SumOfShown(Summed)
           byType == reader = "fbPost" /\ ~Given("reactions") /\ Given("reactions_by_type")
           W(l) == TikTokZero(FirstGiven(l))
           parts == {l \in Read.sumOf : W(l) # Unknown}
           total == FirstGiven(Read.total)
<1> SUFFICES ASSUME readAt = "done", Read.sumOf # {}
             PROVE  /\ total = Unknown => IF usable = {} THEN ~Usable(Engagement)
                                                        ELSE byType \/ Engagement = FromApi(sum)
                    /\ Rate # <<>> => Rate[1] = SumOfShown(Rated) /\ Rate[2] > 0
  BY DEF TotalsAddUp, ShownOf
<1>1. reader \in DOMAIN Reads /\ Read = Reads[reader]
  BY DEF ReadInv, Read
<1>2. Read.sumOf = {items[f] : f \in fields} /\ \A f, g \in fields : items[f] = items[g] => f = g
  <2>1. Adds(reader, Read)
    BY <1>1, ReadsAdd
  <2> QED
    BY <2>1 DEF Adds
<1>3. \A f \in Summed : Number(f).value # Unknown => f \in fields
  BY NumberIs DEF FieldsOf, Summed, SummedIn
<1>4. fields \subseteq Summed
  BY DEF FieldsOf, Summed, SummedIn
<1>5. \A f \in fields : /\ byType /\ f = "likes" => Number(f).value # Unknown
                        /\ ~(byType /\ f = "likes") => W(items[f]) = Number(f).value
  BY ItemsTell
<1>6. /\ IsFiniteSet(usable)
      /\ sum = SumFunctionOnSet(values, usable)
      /\ \A f \in usable : values[f] = Number(f).value /\ values[f] \in Int
      /\ \A f \in Summed : f \in usable <=> Number(f).value # Unknown
  <2>1. Summed \subseteq Rated \cup {"clicks", "linkClicks"}
    BY DEF Summed
  <2> QED
    BY <2>1, ShownIsFinite
<1>7. usable \subseteq Summed
  BY DEF ShownOf
<1>8. Engagement = IF total # Unknown THEN FromApi(total)
                   ELSE IF parts = {} THEN Blank(Number("likes").source)
                   ELSE FromApi(SumFunctionOnSet([l \in Read.sumOf |-> W(l)], parts))
  BY DEF Engagement
<1>9. usable \subseteq fields /\ \A f \in Summed : f \in usable <=> Number(f).value # Unknown
  BY <1>3, <1>6, <1>7
<1> HIDE DEF items, values, sum, W, fields, total, usable
<1>10. total = Unknown => IF usable = {} THEN ~Usable(Engagement) ELSE byType \/ Engagement = FromApi(sum)
  <2> SUFFICES ASSUME total = Unknown
               PROVE  IF usable = {} THEN ~Usable(Engagement) ELSE byType \/ Engagement = FromApi(sum)
    OBVIOUS
  <2>1. CASE byType
    <3>1. usable = {} => "likes" \notin fields
      BY <1>4, <1>5, <1>9, <2>1
    <3>2. "likes" \in fields
      <4>1. "likes" \in DOMAIN Read.prefers
        BY <1>1, <2>1 DEF Reads, FacebookPost
      <4> QED
        BY <4>1 DEF FieldsOf, SummedIn, Rated, fields
    <3> QED
      BY <2>1, <3>1, <3>2
  <2>2. CASE ~byType
    <3>1. \A f \in fields : W(items[f]) = Number(f).value
      BY <1>5, <2>2
    <3>2. parts = {items[f] : f \in usable}
      <4>1. \A l : l \in parts <=> \E f \in fields : l = items[f] /\ Number(f).value # Unknown
        BY <1>2, <3>1
      <4>2. \A l : l \in parts <=> \E f \in usable : l = items[f]
        BY <1>4, <1>9, <4>1
      <4> HIDE DEF parts
      <4> QED
        BY <4>2
    <3> DEFINE v == [l \in Read.sumOf |-> W(l)]
    <3>3. \A f \in usable : values[f] \in Int /\ v[items[f]] = values[f]
      BY <1>2, <1>6, <1>9, <3>1
    <3>4. \A f, g \in usable : items[f] = items[g] => f = g
      BY <1>2, <1>9
    <3>5. SumFunctionOnSet(v, parts) = sum
      <4> HIDE DEF v, parts
      <4>1. SumFunctionOnSet(v, {items[f] : f \in usable}) = SumFunctionOnSet(values, usable)
        BY <1>6, <3>3, <3>4, SumsRename
      <4> QED
        BY <1>6, <3>2, <4>1
    <3>6. parts = {} <=> usable = {}
      BY <3>2
    <3>7. \A source : ~Usable(Blank(source))
      BY DEF Blank, Usable
    <3> HIDE DEF v, parts
    <3>8. CASE usable = {}
      BY <1>8, <3>6, <3>7, <3>8
    <3>9. CASE usable # {}
      BY <1>8, <3>5, <3>6, <3>9 DEF v
    <3> QED
      BY <3>8, <3>9
  <2> QED
    BY <2>1, <2>2
<1>11. ASSUME Rate # <<>> PROVE Rate[1] = SumOfShown(Rated) /\ Rate[2] > 0
  <2> DEFINE P == <<Number("likes"), Number("comments"), Number("shares"), Number("saves")>>
             known == {i \in DOMAIN P : P[i].value # Unknown /\ P[i].source = "PLATFORM_API"}
             w == [i \in DOMAIN P |-> P[i].value]
             reach == Number("reach").value
             impressions == Number("impressions").value
             rated == ShownOf(Rated)
             given == ValuesOf(Rated)
             denominator == IF reach # Unknown THEN reach ELSE impressions
  <2>1. Rate = IF known = {} \/ denominator <= 0 THEN <<>> ELSE <<SumFunctionOnSet(w, known), denominator>>
    BY DEF Rate, EngagementRate
  <2>2. reach \in Int /\ impressions \in Int
    BY NumberIs DEF Unknown
  <2>3. DOMAIN P = 1..4 /\ \A i \in 1..4 : P[i] = Number(Parts[i]) /\ Parts[i] \in Rated
    BY DEF Parts, Rated
  <2>4. \A f \in Rated : \E i \in 1..4 : f = Parts[i]
    BY DEF Parts, Rated
  <2>5. \A i, j \in 1..4 : Parts[i] = Parts[j] => i = j
    BY DEF Parts
  <2>13. /\ SumOfShown(Rated) = SumFunctionOnSet(given, rated) /\ rated \subseteq Rated
         /\ \A f \in rated : given[f] = Number(f).value /\ given[f] \in Int
         /\ \A f \in Rated : f \in rated <=> Number(f).value # Unknown
    BY ShownIsFinite DEF ShownOf
  <2>14. \A f \in Rated : Number(f).value # Unknown => Number(f).source = "PLATFORM_API"
    BY NumberIs
  <2> HIDE DEF P, rated, given
  <2>6. \A i \in 1..4 : i \in known <=> Parts[i] \in rated
    BY <2>3, <2>13, <2>14
  <2>7. {Parts[i] : i \in known} = rated
    <3>1. \A f \in rated : f \in Rated
      BY <2>13
    <3> QED
      BY <2>3, <2>4, <2>6, <3>1
  <2>8. IsFiniteSet(known)
    <3>1. IsFiniteSet(1..4)
      <4>1. 1 \in Int /\ 4 \in Int
        OBVIOUS
      <4> QED
        BY <4>1, FS_Interval
    <3> QED
      BY <2>3, <3>1, FS_Subset
  <2>9. \A i \in known : w[i] \in Int /\ given[Parts[i]] = w[i]
    BY <2>3, <2>6, <2>13
  <2>10. known \subseteq 1..4
    BY <2>3
  <2>11. SumOfShown(Rated) = SumFunctionOnSet(w, known)
    <3> HIDE DEF w, known
    <3>1. \A i, j \in known : Parts[i] = Parts[j] => i = j
      BY <2>5, <2>10
    <3>2. SumFunctionOnSet(given, {Parts[i] : i \in known}) = SumFunctionOnSet(w, known)
      BY <2>8, <2>9, <3>1, SumsRename
    <3> QED
      BY <2>7, <2>13, <3>2
  <2> HIDE DEF w, known, reach, impressions
  <2>12. Rate = <<SumFunctionOnSet(w, known), denominator>> /\ ~(denominator <= 0)
    BY <1>11, <2>1
  <2> QED
    BY <2>2, <2>11, <2>12
<1> QED
  BY <1>10, <1>11 DEF sum, usable, total

(* ReadsAreHonest, for every read and answer: every number rated was       *)
(* given, and an engagement counts each of the numbers it is made of once. *)
THEOREM ReadsHold == ReadSpec => []ReadsAreHonest
<1>1. NumbersAreGiven /\ TotalsAddUp => ReadsAreHonest
  BY DEF ReadsAreHonest
<1> QED
  BY <1>1, TotalsFollow, ReadInvHolds, NumbersComeFromAnswers, PTL
-----------------------------------------------------------------------------
(* The paged lists, for any number of items, page size and requests:       *)
(* walking the pages skips nothing that stays.                             *)

(* The numbers of the items there ever were, and what is made of a set K   *)
(* of such numbers: pages, replies, actions, walks.                        *)
Known == 1 .. FirstItems + turns
FilterNames == {"all", "narrow", "none"}
Pages(K) == {s \in Seq(K) : Len(s) <= Limit}
Replies(K) == [filter : FilterNames, cursor : {0} \cup K, items : Pages(K), next : {0} \cup K, matching : SUBSET K]
Actions(K) == [filter : FilterNames, cursor : {0} \cup K, todo : Seq(K), failed : SUBSET K, bulk : BOOLEAN]
Walks(K) == [filter : FilterNames, since : SUBSET K, seen : SUBSET K, given : SUBSET K]

(* Each variable is made of the numbers in K.                              *)
PagerTyped(K) ==
  /\ rows \subseteq K /\ narrow \subseteq K /\ selected \subseteq K /\ cursorStack \in Seq(K)
  /\ loads \in [Reply -> Replies(K)] /\ page \in Replies(K) /\ pending \in Actions(K) /\ walk \in Walks(K)

(* What a reply was made of: no item below its cursor has come since, and  *)
(* it shows every item below the cursor, down to the one it gives next.    *)
ReplyIsWhole(r) ==
  /\ \A n \in Matching(r.filter) : n <= r.cursor => n \in r.matching
  /\ (r.cursor = 0 \/ kind = "posts" \/ r.cursor \in r.matching) =>
       \A n \in r.matching : (r.cursor = 0 \/ n < r.cursor) => (n \in ToSet(r.items) \/ n < r.next)

(* Of a walk w, the items that were there and are not seen yet.            *)
Unseen(w) == (w.since \cap Matching(w.filter)) \ w.seen

(* They come after every cursor that was given on the walk.                *)
GivenIsAhead == \A n \in Unseen(walk), g \in walk.given : n < g

(* The inductive invariant.                                                *)
PagerInv ==
  /\ kind \in {"posts", "settings"} /\ turns \in 0..MaxTurns /\ filter \in {"all", "narrow"}
     /\ loading \in BOOLEAN
  /\ PagerTyped(Known)
  /\ \A l \in Reply : ReplyIsWhole(loads[l])
  /\ GivenIsAhead /\ NothingIsSkipped /\ SelectionIsShown
-----------------------------------------------------------------------------
(* What is made of fewer numbers is made of more.                          *)
LEMMA PagesGrow ==
  ASSUME NEW K, NEW L, K \subseteq L
  PROVE  /\ Seq(K) \subseteq Seq(L) /\ Replies(K) \subseteq Replies(L)
         /\ Actions(K) \subseteq Actions(L) /\ Walks(K) \subseteq Walks(L)
<1>1. Seq(K) \subseteq Seq(L)
  BY SeqMonotonic
<1>2. Pages(K) \subseteq Pages(L)
  BY <1>1 DEF Pages
<1>3. {0} \cup K \subseteq {0} \cup L /\ SUBSET K \subseteq SUBSET L
  OBVIOUS
<1> QED
  BY <1>1, <1>2, <1>3 DEF Replies, Actions, Walks

(* NewestFirst lists each item of a finite set, and a newer one earlier.   *)
Descends(s) == \A i, j \in 1..Len(s) : i < j => s[i] > s[j]

(* So do the lists of the model.                                           *)
LEMMA NewestAreFirst ==
  ASSUME NEW S \in SUBSET Nat, IsFiniteSet(S)
  PROVE  NewestFirst(S) \in Seq(S) /\ ToSet(NewestFirst(S)) = S /\ Descends(NewestFirst(S))
<1> DEFINE card == Cardinality(S)
           newer(n) == {m \in S : m > n}
           rank(n) == Cardinality(newer(n))
           s == NewestFirst(S)
<1>1. card \in Nat
  BY FS_CardinalityType
<1>2. ASSUME NEW n \in S PROVE rank(n) \in 0..(card - 1) /\ IsFiniteSet(newer(n))
  <2>1. newer(n) \in SUBSET S /\ newer(n) # S
    OBVIOUS
  <2>2. IsFiniteSet(newer(n)) /\ rank(n) <= card /\ (card = rank(n) => S = newer(n))
    BY <2>1, FS_Subset
  <2>3. rank(n) \in Nat
    BY <2>2, FS_CardinalityType
  <2> HIDE DEF newer, card, rank
  <2> QED
    BY <1>1, <2>1, <2>2, <2>3
<1>3. ASSUME NEW a \in S, NEW b \in S, a < b PROVE rank(b) < rank(a)
  <2>1. newer(b) \in SUBSET newer(a) /\ b \in newer(a) /\ b \notin newer(b)
    <3>1. a \in Nat /\ b \in Nat /\ \A m \in S : m \in Nat
      OBVIOUS
    <3>2. \A m \in S : m > b => m > a
      BY <1>3, <3>1
    <3>3. b > a /\ ~(b > b)
      BY <1>3, <3>1
    <3> QED
      BY <3>2, <3>3
  <2>2. rank(b) <= rank(a) /\ rank(a) # rank(b)
    BY <1>2, <2>1, FS_Subset
  <2>3. rank(a) \in Int /\ rank(b) \in Int
    BY <1>1, <1>2
  <2> QED
    BY <2>2, <2>3
<1>4. ASSUME NEW a \in S, NEW b \in S, rank(a) = rank(b) PROVE a = b
  <2>1. a < b \/ b < a \/ a = b
    OBVIOUS
  <2>2. rank(a) \in Int /\ rank(b) \in Int
    BY <1>1, <1>2
  <2> QED
    BY <1>3, <1>4, <2>1, <2>2
<1>5. \A k \in 0..(card - 1) : \E n \in S : rank(n) = k
  <2> DEFINE f == [n \in S |-> rank(n)]
             T == 0..(card - 1)
  <2>1. IsFiniteSet(T) /\ Cardinality(T) = card
    <3>1. 0 \in Int /\ card - 1 \in Int /\ card \in Nat
      BY <1>1
    <3> HIDE DEF card
    <3>2. IsFiniteSet(T) /\ Cardinality(T) = IF 0 > card - 1 THEN 0 ELSE (card - 1) - 0 + 1
      BY <3>1, FS_Interval
    <3> QED
      BY <3>1, <3>2
  <2>2. f \in [S -> T]
    BY <1>2
  <2>3. \A a, b \in S : f[a] = f[b] => a = b
    BY <1>4
  <2> HIDE DEF rank, T, card
  <2>4. f \in Injection(S, T)
    BY <2>2, <2>3 DEF Injection, IsInjective
  <2> HIDE DEF f
  <2>5. f \in Surjection(S, T)
    BY <2>1, <2>4, FS_Injection DEF card
  <2>6. \A k \in T : \E n \in S : f[n] = k
    BY <2>5 DEF Surjection
  <2> QED
    BY <2>6 DEF f, T
<1>6. s = [i \in 1..card |-> CHOOSE n \in S : rank(n) = i - 1]
  BY DEF NewestFirst
<1> HIDE DEF rank, card, s
<1>7. ASSUME NEW i \in 1..card PROVE s[i] \in S /\ rank(s[i]) = i - 1
  <2>1. i - 1 \in 0..(card - 1)
    BY <1>1
  <2>2. \E n \in S : rank(n) = i - 1
    BY <1>5, <2>1
  <2>3. s[i] = CHOOSE n \in S : rank(n) = i - 1
    BY <1>6
  <2> QED
    BY <2>2, <2>3
<1>8. s \in Seq(S) /\ Len(s) = card /\ DOMAIN s = 1..card
  <2>1. s \in [1..card -> S]
    BY <1>6, <1>7
  <2> QED
    BY <1>1, <2>1
<1>9. Descends(s)
  <2> SUFFICES ASSUME NEW i \in 1..card, NEW j \in 1..card, i < j PROVE s[i] > s[j]
    BY <1>8 DEF Descends
  <2>1. rank(s[i]) < rank(s[j]) /\ rank(s[i]) \in Int /\ rank(s[j]) \in Int /\ s[i] \in S /\ s[j] \in S
    BY <1>1, <1>7
  <2>2. ASSUME s[i] < s[j] PROVE FALSE
    <3>1. rank(s[j]) < rank(s[i])
      BY <1>3, <2>1, <2>2
    <3> QED
      BY <2>1, <3>1
  <2>3. s[i] = s[j] => rank(s[i]) = rank(s[j])
    OBVIOUS
  <2>4. s[i] # s[j]
    BY <2>1, <2>3
  <2>5. s[i] \in Nat /\ s[j] \in Nat
    BY <2>1
  <2> QED
    BY <2>2, <2>4, <2>5
<1>10. ToSet(s) = S
  <2>1. ASSUME NEW n \in S PROVE n \in ToSet(s)
    <3>1. rank(n) \in 0..(card - 1)
      BY <1>2
    <3>2. rank(n) + 1 \in 1..card /\ (rank(n) + 1) - 1 = rank(n)
      BY <1>1, <3>1
    <3>3. s[rank(n) + 1] = n
      BY <1>4, <1>7, <3>2
    <3> QED
      BY <1>8, <3>2, <3>3 DEF ToSet
  <2> QED
    BY <1>7, <1>8, <2>1 DEF ToSet
<1> QED
  BY <1>8, <1>9, <1>10 DEF s

(* A page of what was found, and the cursor that comes with it, leave out  *)
(* nothing but what is older than the cursor.                              *)
LEMMA FirstPageIsWhole ==
  ASSUME NEW K \in SUBSET Nat, NEW found \in Seq(K), Descends(found)
  PROVE  LET items == SubSeq(found, 1, IF Len(found) < Limit THEN Len(found) ELSE Limit)
             next == IF Len(found) > Limit THEN Last(items) ELSE 0
         IN  /\ items \in Pages(K) /\ next \in {0} \cup K
             /\ \A n \in ToSet(found) : n \in ToSet(items) \/ n < next
<1> DEFINE len == Len(found)
           size == IF len < Limit THEN len ELSE Limit
           items == SubSeq(found, 1, size)
           next == IF len > Limit THEN Last(items) ELSE 0
<1>1. Limit \in Nat /\ Limit >= 1 /\ len \in Nat /\ DOMAIN found = 1..len
      /\ \A i \in 1..len : found[i] \in K
  <2>1. Limit \in Nat /\ Limit >= 1
    BY PagerAssumption
  <2>2. Len(found) \in Nat /\ DOMAIN found = 1..Len(found)
    BY LenProperties
  <2>3. \A i \in 1..Len(found) : found[i] \in K
    BY ElementOfSeq
  <2> QED
    BY <2>1, <2>2, <2>3
<1> HIDE DEF len
<1>2. size \in Nat /\ size <= Limit /\ size <= len /\ (len > Limit => size = Limit)
      /\ (len <= Limit => size = len)
  BY <1>1
<1> HIDE DEF size
<1>3. items \in Seq(K) /\ Len(items) = size /\ \A i \in 1..size : items[i] = found[i]
  <2>1. \A i \in 1..size : found[i] \in K
    BY <1>1, <1>2
  <2>2. /\ items \in Seq(K) /\ Len(items) = IF 1 <= size THEN size - 1 + 1 ELSE 0
        /\ \A i \in 1..(size - 1 + 1) : items[i] = found[1 + i - 1]
    BY <1>2, <2>1, SubSeqProperties
  <2>3. size - 1 + 1 = size /\ \A i \in 1..size : 1 + i - 1 = i
    BY <1>2
  <2>4. Len(items) = size
    BY <1>2, <2>2
  <2> HIDE DEF items
  <2> QED
    BY <2>2, <2>3, <2>4
<1> HIDE DEF items
<1>4. items \in Pages(K)
  BY <1>2, <1>3 DEF Pages
<1>5. len > Limit => next = found[Limit] /\ Limit \in 1..len
  BY <1>1, <1>2, <1>3 DEF Last
<1>6. next \in {0} \cup K
  BY <1>1, <1>5
<1>7. ASSUME NEW n \in ToSet(found) PROVE n \in ToSet(items) \/ n < next
  <2>1. PICK i \in 1..len : n = found[i]
    BY <1>1 DEF ToSet
  <2>2. CASE i <= size
    <3>1. i \in 1..size /\ items[i] = n
      BY <1>1, <1>2, <1>3, <2>1, <2>2
    <3>2. DOMAIN items = 1..size
      BY <1>3, LenProperties
    <3> QED
      BY <3>1, <3>2 DEF ToSet
  <2>3. CASE i > size
    <3>1. len > Limit /\ Limit < i
      BY <1>1, <1>2, <2>1, <2>3
    <3>2. found[Limit] > found[i] /\ found[Limit] \in K /\ found[i] \in K
      BY <1>1, <1>5, <2>1, <3>1 DEF Descends, len
    <3> QED
      BY <1>5, <2>1, <3>1, <3>2
  <2> QED
    BY <1>1, <1>2, <2>1, <2>2, <2>3
<1> QED
  BY <1>4, <1>6, <1>7 DEF items, size, len

(* What is found from a cursor: every item below it, if the cursor is a    *)
(* value, or a row that is still in the list.                              *)
LEMMA FoundIsWhole ==
  ASSUME NEW N \in Nat, rows \subseteq 1..N, NEW f, NEW c \in {0} \cup 1..N
  PROVE  LET found == FromCursor(f, c)
         IN  /\ found \in Seq(1..N) /\ Descends(found)
             /\ (c = 0 \/ kind = "posts" \/ c \in Matching(f)) =>
                  \A n \in Matching(f) : (c = 0 \/ n < c) => n \in ToSet(found)
<1> DEFINE M == Matching(f)
           upTo == {n \in M : n <= c}
           found == FromCursor(f, c)
<1>1. M \subseteq rows /\ M \subseteq 1..N
  BY DEF Matching
<1>2. ASSUME NEW S \in SUBSET 1..N
      PROVE  /\ NewestFirst(S) \in Seq(S) /\ NewestFirst(S) \in Seq(1..N)
             /\ ToSet(NewestFirst(S)) = S /\ Descends(NewestFirst(S))
  <2>1. IsFiniteSet(S) /\ S \in SUBSET Nat
    <3>1. IsFiniteSet(1..N) /\ 1..N \subseteq Nat
      BY FS_Interval
    <3> QED
      BY <3>1, FS_Subset
  <2>2. NewestFirst(S) \in Seq(S) /\ ToSet(NewestFirst(S)) = S /\ Descends(NewestFirst(S))
    BY <2>1, NewestAreFirst
  <2> QED
    BY <2>2, SeqMonotonic
<1>3. CASE c = 0
  <2>1. found = NewestFirst(M)
    BY <1>3 DEF FromCursor
  <2> QED
    BY <1>1, <1>2, <2>1
<1>4. CASE c # 0 /\ kind = "posts"
  <2>1. found = NewestFirst(upTo \ {c})
    BY <1>4 DEF FromCursor
  <2>2. upTo \ {c} \in SUBSET 1..N
    BY <1>1
  <2>3. \A n \in M : n < c => n \in upTo \ {c}
    BY <1>1, <1>4
  <2> HIDE DEF M, upTo, found
  <2>4. found \in Seq(1..N) /\ Descends(found) /\ ToSet(found) = upTo \ {c}
    BY <1>2, <2>1, <2>2
  <2> QED
    BY <1>4, <2>3, <2>4 DEF M, found
<1>5. CASE c # 0 /\ kind # "posts"
  <2>1. found = IF c \in rows /\ upTo # {} THEN Tail(NewestFirst(upTo)) ELSE <<>>
    BY <1>5 DEF FromCursor
  <2>2. upTo \in SUBSET 1..N /\ (c \in M => c \in upTo /\ c \in rows) /\ \A n \in M : n < c => n \in upTo
    BY <1>1
  <2> HIDE DEF M, upTo, found
  <2>3. CASE c \in rows /\ upTo # {}
    <3> DEFINE s == NewestFirst(upTo)
    <3>1. s \in Seq(1..N) /\ ToSet(s) = upTo /\ Descends(s)
      BY <1>2, <2>2
    <3>2. found = Tail(s)
      BY <2>1, <2>3
    <3> HIDE DEF s
    <3>3. s # <<>>
      BY <2>3, <3>1 DEF ToSet
    <3>4. /\ found \in Seq(1..N) /\ Len(found) = Len(s) - 1 /\ Len(s) \in Nat
          /\ \A i \in 1..Len(found) : found[i] = s[i + 1]
      BY <3>1, <3>2, <3>3, HeadTailProperties, LenProperties
    <3>5. Descends(found)
      <4> SUFFICES ASSUME NEW i \in 1..Len(found), NEW j \in 1..Len(found), i < j PROVE found[i] > found[j]
        BY DEF Descends
      <4>1. i + 1 \in 1..Len(s) /\ j + 1 \in 1..Len(s) /\ i + 1 < j + 1
        BY <3>4
      <4>2. found[i] = s[i + 1] /\ found[j] = s[j + 1] /\ s[i + 1] > s[j + 1]
        BY <3>1, <3>4, <4>1 DEF Descends
      <4> QED
        BY <4>2
    <3>6. ASSUME c \in M, NEW n \in M, n < c PROVE n \in ToSet(found)
      <4>1. DOMAIN s = 1..Len(s) /\ DOMAIN found = 1..Len(found)
        BY <3>1, <3>4, LenProperties
      <4>2. n \in upTo /\ c \in upTo /\ n \in Nat /\ c \in Nat
        BY <2>2, <3>6
      <4>3. PICK i \in 1..Len(s) : s[i] = n
        BY <3>1, <4>1, <4>2 DEF ToSet
      <4>4. PICK j \in 1..Len(s) : s[j] = c
        BY <3>1, <4>1, <4>2 DEF ToSet
      <4>5. i # 1
        <5>1. ASSUME i = 1 PROVE FALSE
          <6>1. j # 1 /\ 1 < j /\ 1 \in 1..Len(s)
            BY <3>4, <3>6, <4>2, <4>3, <4>4, <5>1
          <6>2. s[1] > s[j]
            BY <3>1, <6>1 DEF Descends
          <6> QED
            BY <3>6, <4>2, <4>3, <4>4, <5>1, <6>2
        <5> QED
          BY <5>1
      <4>6. i - 1 \in 1..Len(found) /\ (i - 1) + 1 = i
        BY <3>4, <4>3, <4>5
      <4>7. found[i - 1] = n
        BY <3>4, <4>3, <4>6
      <4> QED
        BY <4>1, <4>6, <4>7 DEF ToSet
    <3> QED
      BY <1>5, <3>4, <3>5, <3>6 DEF M, found
  <2>4. CASE ~(c \in rows /\ upTo # {})
    <3>1. found = <<>> /\ c \notin M
      BY <2>1, <2>2, <2>4
    <3>2. found \in Seq(1..N) /\ Descends(found)
      BY <3>1 DEF Descends
    <3> QED
      BY <1>5, <3>1, <3>2 DEF M, found
  <2> QED
    BY <2>3, <2>4
<1> QED
  BY <1>3, <1>4, <1>5

(* Hence the reply to a request is whole.                                  *)
LEMMA ListIsWhole ==
  ASSUME NEW N \in Nat, rows \subseteq 1..N, NEW f \in FilterNames, NEW c \in {0} \cup 1..N
  PROVE  List(f, c) \in Replies(1..N) /\ ReplyIsWhole(List(f, c))
<1> DEFINE found == FromCursor(f, c)
           items == SubSeq(found, 1, IF Len(found) < Limit THEN Len(found) ELSE Limit)
           next == IF Len(found) > Limit THEN Last(items) ELSE 0
           reply == List(f, c)
<1>1. /\ found \in Seq(1..N) /\ Descends(found)
      /\ (c = 0 \/ kind = "posts" \/ c \in Matching(f)) =>
           \A n \in Matching(f) : (c = 0 \/ n < c) => n \in ToSet(found)
  BY FoundIsWhole
<1> HIDE DEF found
<1>2. /\ items \in Pages(1..N) /\ next \in {0} \cup 1..N
      /\ \A n \in ToSet(found) : n \in ToSet(items) \/ n < next
  BY <1>1, FirstPageIsWhole
<1>3. reply = [filter |-> f, cursor |-> c, items |-> items, next |-> next, matching |-> Matching(f)]
  BY DEF List, found
<1> HIDE DEF items, next, reply
<1>4. Matching(f) \subseteq 1..N
  BY DEF Matching
<1>5. reply \in Replies(1..N)
  BY <1>2, <1>3, <1>4 DEF Replies
<1>6. reply.filter = f /\ reply.cursor = c /\ reply.items = items /\ reply.next = next
      /\ reply.matching = Matching(f)
  BY <1>3
<1>7. ReplyIsWhole(reply)
  BY <1>1, <1>2, <1>6 DEF ReplyIsWhole
<1> QED
  BY <1>5, <1>7 DEF reply
-----------------------------------------------------------------------------
(* The numbers, and what is none: no reply, no action, no walk.            *)
LEMMA NothingPaged ==
  /\ FirstItems \in Nat /\ MaxTurns \in Nat /\ \A t \in Nat : FirstItems + t \in Nat
  /\ \A K : NoReply \in Replies(K) /\ NoAction \in Actions(K) /\ NotWalking \in Walks(K)
  /\ NoReply.items = <<>> /\ ToSet(<<>>) = {} /\ NotWalking.since = {} /\ NotWalking.given = {}
<1>1. FirstItems \in Nat /\ MaxTurns \in Nat /\ Limit \in Nat
  BY PagerAssumption
<1>2. \A t \in Nat : FirstItems + t \in Nat
  BY <1>1
<1>3. ASSUME NEW K PROVE NoReply \in Replies(K) /\ NoAction \in Actions(K) /\ NotWalking \in Walks(K)
  <2>1. <<>> \in Pages(K) /\ <<>> \in Seq(K)
    BY <1>1, EmptySeq DEF Pages
  <2> QED
    BY <2>1 DEF NoReply, NoAction, NotWalking, Replies, Actions, Walks, FilterNames
<1>4. NoReply.items = <<>> /\ ToSet(<<>>) = {} /\ NotWalking.since = {} /\ NotWalking.given = {}
  BY DEF NoReply, NotWalking, ToSet
<1> QED
  BY <1>1, <1>2, <1>3, <1>4

(* An empty slot is whole.                                                 *)
LEMMA NoReplyIsWhole ==
  ASSUME NEW N \in Nat, rows \subseteq 1..N
  PROVE  ReplyIsWhole(NoReply)
<1>1. NoReply.cursor = 0 /\ NoReply.matching = {}
  BY DEF NoReply
<1>2. \A n \in Matching(NoReply.filter) : ~(n <= 0)
  BY DEF Matching
<1> QED
  BY <1>1, <1>2 DEF ReplyIsWhole

(* It holds at the start.                                                  *)
LEMMA PagerInvInit == PagerInit => PagerInv
<1> SUFFICES ASSUME PagerInit PROVE PagerInv
  OBVIOUS
<1>1. /\ kind \in {"posts", "settings"} /\ turns = 0 /\ filter = "all" /\ loading = TRUE
         /\ rows = 1..FirstItems
      /\ narrow \subseteq 1..FirstItems /\ page = NoReply /\ cursorStack = <<>> /\ selected = {}
      /\ pending = NoAction /\ walk = NotWalking
  BY DEF PagerInit
<1>2. Known = 1..FirstItems /\ FirstItems \in Nat /\ 0 \in 0..MaxTurns
  BY <1>1, NothingPaged DEF Known
<1>3. PICK first \in Reply : loads = [l \in Reply |-> IF l = first THEN List("all", 0) ELSE NoReply]
  BY DEF PagerInit
<1>4. List("all", 0) \in Replies(1..FirstItems) /\ ReplyIsWhole(List("all", 0))
  BY <1>1, <1>2, ListIsWhole DEF FilterNames
<1>5. NoReply \in Replies(1..FirstItems) /\ ReplyIsWhole(NoReply)
  BY <1>1, <1>2, NothingPaged, NoReplyIsWhole
<1>6. PagerTyped(1..FirstItems)
  BY <1>1, <1>3, <1>4, <1>5, NothingPaged, EmptySeq DEF PagerTyped
<1>7. \A l \in Reply : ReplyIsWhole(loads[l])
  BY <1>3, <1>4, <1>5
<1>8. GivenIsAhead /\ NothingIsSkipped /\ SelectionIsShown
  BY <1>1, NothingPaged DEF GivenIsAhead, Unseen, NothingIsSkipped, SelectionIsShown
<1> QED
  BY <1>1, <1>2, <1>6, <1>7, <1>8 DEF PagerInv

(* What others do, and deletes: items go, those that come are newer than   *)
(* all, and a request may be given up.                                     *)
LEMMA OthersMove ==
  ASSUME PagerInv, turns' \in {turns, turns + 1}, turns' <= MaxTurns,
         UNCHANGED <<kind, page, walk, filter, cursorStack, selected>>, loading' \in BOOLEAN,
         rows' \subseteq Known', narrow' \subseteq Known', rows' \cap Known \subseteq rows,
           narrow' \cap Known \subseteq narrow,
         loads' \in [Reply -> Replies(Known)], \A l \in Reply : loads'[l] = loads[l] \/ loads'[l] = NoReply,
         pending' \in Actions(Known)
  PROVE  PagerInv'
<1>1. /\ kind' = kind /\ page' = page /\ walk' = walk /\ filter' = filter /\ cursorStack' = cursorStack
      /\ selected' = selected
  OBVIOUS
<1>2. /\ kind \in {"posts", "settings"} /\ filter \in {"all", "narrow"} /\ turns \in 0..MaxTurns
         /\ PagerTyped(Known)
      /\ \A l \in Reply : ReplyIsWhole(loads[l])
      /\ GivenIsAhead /\ NothingIsSkipped /\ SelectionIsShown
  BY DEF PagerInv
<1>3. turns' \in 0..MaxTurns /\ Known \subseteq Known' /\ Known' \subseteq Nat \ {0}
  <2>1. FirstItems \in Nat /\ MaxTurns \in Nat
    BY PagerAssumption
  <2>2. turns' \in Nat /\ turns <= turns' /\ turns' \in 0..MaxTurns /\ turns \in Nat
    BY <1>2, <2>1
  <2>3. \A a, b \in Nat : a <= b => 1..a \subseteq 1..b /\ 1..b \subseteq Nat \ {0}
    OBVIOUS
  <2>4. FirstItems + turns \in Nat /\ FirstItems + turns' \in Nat /\ FirstItems + turns <= FirstItems + turns'
    <3>1. \A a, b, c \in Nat : b <= c => a + b \in Nat /\ a + c \in Nat /\ a + b <= a + c
      OBVIOUS
    <3> QED
      BY <2>1, <2>2, <3>1
  <2> QED
    BY <2>2, <2>3, <2>4 DEF Known
<1>4. PagerTyped(Known)'
  <2>1. /\ selected \subseteq Known /\ cursorStack \in Seq(Known) /\ page \in Replies(Known)
           /\ walk \in Walks(Known)
    BY <1>2 DEF PagerTyped
  <2>2. /\ Seq(Known) \subseteq Seq(Known') /\ Replies(Known) \subseteq Replies(Known')
        /\ Actions(Known) \subseteq Actions(Known') /\ Walks(Known) \subseteq Walks(Known')
    BY <1>3, PagesGrow
  <2>3. loads' \in [Reply -> Replies(Known')]
    BY <2>2
  <2>4. /\ rows' \subseteq Known' /\ narrow' \subseteq Known' /\ selected' \subseteq Known'
        /\ cursorStack' \in Seq(Known') /\ page' \in Replies(Known') /\ walk' \in Walks(Known')
        /\ pending' \in Actions(Known')
    BY <1>1, <1>3, <2>1, <2>2
  <2> QED
    BY <2>3, <2>4 DEF PagerTyped, Replies, Walks, Actions, Pages
<1>5. \A f : Matching(f)' \cap Known \subseteq Matching(f) /\ Matching(f)' \subseteq Nat \ {0}
  BY <1>3 DEF Matching
<1>6. \A l \in Reply : ReplyIsWhole(loads[l])'
  <2> SUFFICES ASSUME NEW l \in Reply PROVE ReplyIsWhole(loads[l])'
    OBVIOUS
  <2>1. CASE loads'[l] = loads[l]
    <3>1. ReplyIsWhole(loads[l]) /\ loads[l].cursor \in {0} \cup Known
      BY <1>2 DEF PagerTyped, Replies
    <3>2. \A n \in IF loads[l].filter = "all" THEN rows' ELSE rows' \cap narrow' :
             n <= loads[l].cursor => n \in Matching(loads[l].filter)
      <4>1. ASSUME NEW n \in Nat \ {0}, n <= loads[l].cursor PROVE n \in Known
        <5>1. FirstItems + turns \in Nat
          BY <1>2, NothingPaged
        <5> QED
          BY <3>1, <4>1, <5>1 DEF Known
      <4> QED
        BY <1>3, <4>1 DEF Matching
    <3>3. \A n \in IF loads[l].filter = "all" THEN rows' ELSE rows' \cap narrow' :
             n <= loads[l].cursor => n \in loads[l].matching
      BY <3>1, <3>2 DEF ReplyIsWhole, Matching
    <3> QED
      BY <1>1, <2>1, <3>1, <3>3 DEF ReplyIsWhole, Matching
  <2>2. CASE loads'[l] = NoReply
    <3>1. NoReply.cursor = 0 /\ NoReply.matching = {}
      BY DEF NoReply
    <3>2. \A n \in Matching(NoReply.filter)' : ~(n <= 0)
      BY <1>5
    <3> QED
      BY <2>2, <3>1, <3>2 DEF ReplyIsWhole
  <2> QED
    BY <2>1, <2>2
<1>7. Unseen(walk)' \subseteq Unseen(walk)
  <2>1. walk.since \subseteq Known
    BY <1>2 DEF PagerTyped, Walks
  <2> QED
    BY <1>1, <1>5, <2>1 DEF Unseen
<1>8. GivenIsAhead' /\ NothingIsSkipped'
  <2>1. \A n \in Unseen(walk) : (\A g \in walk.given : n < g) /\ n < page.next
    BY <1>2 DEF GivenIsAhead, NothingIsSkipped, Unseen
  <2>2. \A n \in Unseen(walk)' : (\A g \in walk'.given : n < g) /\ n < page'.next
    BY <1>1, <1>7, <2>1
  <2> QED
    BY <2>2 DEF GivenIsAhead, NothingIsSkipped, Unseen
<1>9. SelectionIsShown'
  BY <1>1, <1>2 DEF SelectionIsShown
<1> QED
  BY <1>1, <1>2, <1>3, <1>4, <1>6, <1>8, <1>9 DEF PagerInv

(* What the user does, while the items rest and the page stays.            *)
LEMMA ViewMoves ==
  ASSUME PagerInv, UNCHANGED <<kind, server, turns, page, walk>>,
         filter' \in {"all", "narrow"}, loading' \in BOOLEAN, cursorStack' \in Seq(Known),
         selected' \subseteq ToSet(page.items), pending' \in Actions(Known),
         loads' \in [Reply -> Replies(Known)], \A l \in Reply : ReplyIsWhole(loads'[l])
  PROVE  PagerInv'
<1>1. /\ kind' = kind /\ rows' = rows /\ narrow' = narrow /\ turns' = turns /\ page' = page /\ walk' = walk
      /\ Known' = Known
  BY DEF server, Known
<1>2. PagerTyped(Known)'
  <2>1. page.items \in Seq(Known) /\ DOMAIN page.items = 1..Len(page.items)
    BY LenProperties DEF PagerInv, PagerTyped, Replies, Pages
  <2>2. ToSet(page.items) \subseteq Known
    BY <2>1, ElementOfSeq DEF ToSet
  <2> QED
    BY <1>1, <2>2 DEF PagerInv, PagerTyped
<1>3. \A f : Matching(f)' = Matching(f)
  BY <1>1 DEF Matching
<1>4. \A l \in Reply : ReplyIsWhole(loads[l])'
  BY <1>1, <1>3 DEF ReplyIsWhole
<1>5. GivenIsAhead' /\ NothingIsSkipped'
  BY <1>1, <1>3 DEF PagerInv, GivenIsAhead, Unseen, NothingIsSkipped
<1>6. SelectionIsShown'
  BY <1>1 DEF SelectionIsShown
<1> QED
  BY <1>1, <1>2, <1>4, <1>5, <1>6 DEF PagerInv

(* A request fills a slot with what the server has for it.                 *)
LEMMA RequestIsWhole ==
  ASSUME PagerInv, NEW f \in FilterNames, NEW c \in {0} \cup Known, RequestPage(f, c)
  PROVE  loading' = TRUE /\ loads' \in [Reply -> Replies(Known)] /\ \A l \in Reply : ReplyIsWhole(loads'[l])
<1>1. PICK l \in Reply : loads' = [loads EXCEPT ![l] = List(f, c)]
  BY DEF RequestPage
<1>2. FirstItems + turns \in Nat /\ rows \subseteq Known
  BY NothingPaged DEF PagerInv, PagerTyped
<1>3. List(f, c) \in Replies(Known) /\ ReplyIsWhole(List(f, c))
  BY <1>2, ListIsWhole DEF Known
<1>4. loads \in [Reply -> Replies(Known)] /\ \A k \in Reply : ReplyIsWhole(loads[k])
  BY DEF PagerInv, PagerTyped
<1>5. \A k \in Reply : loads'[k] = IF k = l THEN List(f, c) ELSE loads[k]
  BY <1>1, <1>4
<1> QED
  BY <1>1, <1>3, <1>4, <1>5 DEF RequestPage

(* The cursor on top of a stack, the stack without it.                     *)
LEMMA StackOfCursors ==
  ASSUME NEW K, NEW stack \in Seq(K)
  PROVE  Top(stack) \in {0} \cup K /\ (stack # <<>> => Front(stack) \in Seq(K))
<1>1. CASE stack = <<>>
  BY <1>1 DEF Top
<1>2. CASE stack # <<>>
  <2>1. Len(stack) \in Nat \ {0}
    BY <1>2, EmptySeq
  <2>2. stack[Len(stack)] \in K /\ \A i \in 1..(Len(stack) - 1) : stack[i] \in K
    BY <2>1, ElementOfSeq
  <2>3. Front(stack) \in Seq(K)
    <3>1. 1 \in Int /\ Len(stack) - 1 \in Int
      BY <2>1
    <3> QED
      BY <2>2, <3>1, SubSeqProperties DEF Front
  <2> QED
    BY <1>2, <2>2, <2>3 DEF Top, Last
<1> QED
  BY <1>1, <1>2

(* The walk that an answer starts, goes on with, or ends.                  *)
LEMMA WalkedIsWhole ==
  ASSUME PagerInv, NEW r \in Replies(Known), ReplyIsWhole(r)
  PROVE  /\ Walked(r) \in Walks(Known)
         /\ \A n \in Unseen(Walked(r)) : (\A g \in Walked(r).given : n < g) /\ n < r.next
<1> DEFINE items == ToSet(r.items)
           given == {r.next} \ {0}
<1>1. /\ r.items \in Seq(Known) /\ r.next \in {0} \cup Known /\ r.matching \subseteq Known
         /\ r.cursor \in {0} \cup Known
      /\ Known \subseteq Nat /\ FirstItems + turns \in Nat
      /\ filter \in {"all", "narrow"} /\ walk \in Walks(Known) /\ kind \in {"posts", "settings"}
  BY NothingPaged DEF Replies, Pages, PagerInv, PagerTyped, Known
<1>2. items \subseteq Known /\ given \subseteq Known
  <2>1. DOMAIN r.items = 1..Len(r.items)
    BY <1>1, LenProperties
  <2>2. items \subseteq Known
    BY <1>1, <2>1, ElementOfSeq DEF ToSet
  <2> QED
    BY <1>1, <2>2
<1>3. CASE r.filter = filter /\ r.cursor = 0
  <2> DEFINE w == [filter |-> filter, since |-> r.matching, seen |-> items, given |-> given]
  <2>1. Walked(r) = w
    BY <1>3 DEF Walked
  <2>2. w \in Walks(Known)
    BY <1>1, <1>2 DEF Walks, FilterNames
  <2>3. ASSUME NEW n \in Unseen(w) PROVE n < r.next
    <3>1. n \in r.matching /\ n \notin items
      BY <2>3 DEF Unseen
    <3> QED
      BY <1>3, <3>1 DEF ReplyIsWhole
  <2>4. w.given \subseteq {r.next}
    OBVIOUS
  <2> HIDE DEF w
  <2> QED
    BY <2>1, <2>2, <2>3, <2>4
<1>4. CASE /\ r.filter = filter /\ filter = walk.filter /\ r.cursor \in walk.given \ {0}
           /\ kind = "settings" => r.cursor \in r.matching
  <2> DEFINE w == [walk EXCEPT !.seen = @ \cup items, !.given = @ \cup given]
  <2>1. Walked(r) = w
    BY <1>4 DEF Walked
  <2>2. w \in Walks(Known) /\ w.filter = walk.filter /\ w.since = walk.since
        /\ w.seen = walk.seen \cup items /\ w.given = walk.given \cup given
    BY <1>1, <1>2 DEF Walks
  <2> HIDE DEF w
  <2>3. ASSUME NEW n \in Unseen(w) PROVE (\A g \in walk.given : n < g) /\ n < r.next
    <3>1. n \in Unseen(walk) /\ n \notin items /\ n \in Matching(r.filter)
      BY <1>4, <2>2, <2>3 DEF Unseen
    <3>2. \A g \in walk.given : n < g
      BY <3>1 DEF PagerInv, GivenIsAhead
    <3>3. n < r.cursor /\ n \in Nat /\ r.cursor \in Nat
      BY <1>1, <1>4, <2>2, <2>3, <3>2 DEF Unseen, Walks
    <3>4. n \in r.matching
      BY <3>1, <3>3 DEF ReplyIsWhole
    <3>5. r.cursor = 0 \/ kind = "posts" \/ r.cursor \in r.matching
      BY <1>1, <1>4
    <3>6. n \in items \/ n < r.next
      BY <3>3, <3>4, <3>5 DEF ReplyIsWhole
    <3> QED
      BY <3>1, <3>2, <3>6
  <2>4. \A g \in w.given : g \in walk.given \/ g = r.next
    BY <2>2
  <2> QED
    BY <2>1, <2>2, <2>3, <2>4
<1>5. CASE /\ ~(r.filter = filter /\ r.cursor = 0)
           /\ ~(/\ r.filter = filter /\ filter = walk.filter /\ r.cursor \in walk.given \ {0}
                /\ kind = "settings" => r.cursor \in r.matching)
  <2>1. Walked(r) = NotWalking
    BY <1>5 DEF Walked
  <2> QED
    BY <2>1, NothingPaged DEF Unseen
<1> QED
  BY <1>3, <1>4, <1>5

(* One step per action.                                                    *)
LEMMA PagerInvStep == PagerInv /\ [PagerNext]_pagerVars => PagerInv'
<1> SUFFICES ASSUME PagerInv, [PagerNext]_pagerVars PROVE PagerInv'
  OBVIOUS
<1>0. /\ kind \in {"posts", "settings"} /\ turns \in 0..MaxTurns /\ filter \in {"all", "narrow"}
         /\ loading \in BOOLEAN
      /\ rows \subseteq Known /\ narrow \subseteq Known /\ selected \subseteq Known
         /\ cursorStack \in Seq(Known)
      /\ loads \in [Reply -> Replies(Known)] /\ page \in Replies(Known) /\ pending \in Actions(Known)
      /\ \A l \in Reply : ReplyIsWhole(loads[l])
      /\ selected \subseteq ToSet(page.items)
  BY DEF PagerInv, PagerTyped, SelectionIsShown
<1>k. /\ Known \subseteq Nat /\ FirstItems + turns \in Nat /\ FirstItems \in Nat /\ MaxTurns \in Nat
      /\ ToSet(page.items) \subseteq Known /\ page.next \in {0} \cup Known /\ 0 \in {0} \cup Known
      /\ filter \in FilterNames
  <2>1. page.items \in Seq(Known) /\ DOMAIN page.items = 1..Len(page.items) /\ page.next \in {0} \cup Known
    BY <1>0, LenProperties DEF Replies, Pages
  <2>2. ToSet(page.items) \subseteq Known
    BY <2>1, ElementOfSeq DEF ToSet
  <2>3. FirstItems \in Nat /\ MaxTurns \in Nat
    BY PagerAssumption
  <2>4. FirstItems + turns \in Nat /\ Known \subseteq Nat
    BY <1>0, <2>3 DEF Known
  <2> QED
    BY <1>0, <2>1, <2>2, <2>3, <2>4 DEF FilterNames
<1>1. CASE ItemCreated
  <2> DEFINE new == FirstItems + turns + 1
  <2>1. /\ turns < MaxTurns /\ turns' = turns + 1 /\ rows' = rows \cup {new}
           /\ narrow' \in {narrow, narrow \cup {new}}
        /\ UNCHANGED <<kind, page, walk, filter, cursorStack, selected, loads, loading, pending>>
    BY <1>1 DEF ItemCreated, PageTurn, view
  <2>2. new \in Known' /\ new \notin Known /\ Known \subseteq Known' /\ turns' <= MaxTurns
    BY <1>0, <1>k, <2>1 DEF Known
  <2> HIDE DEF new
  <2> QED
    BY <1>0, <2>1, <2>2, OthersMove
<1>2. CASE ItemGone
  <2>1. /\ turns < MaxTurns /\ turns' = turns + 1 /\ rows' \subseteq rows /\ narrow' \subseteq narrow
        /\ UNCHANGED <<kind, page, walk, filter, cursorStack, selected, loads, loading, pending>>
    BY <1>2 DEF ItemGone, PageTurn, view
  <2>2. Known \subseteq Known' /\ turns' <= MaxTurns
    BY <1>0, <1>k, <2>1 DEF Known
  <2> QED
    BY <1>0, <2>1, <2>2, OthersMove
<1>3. CASE Delete
  <2>1. /\ rows' \subseteq rows /\ narrow' \subseteq narrow /\ pending' = [pending EXCEPT !.todo = Tail(@)]
        /\ pending.todo # <<>>
        /\ UNCHANGED <<kind, page, walk, filter, cursorStack, selected, loads, loading, turns>>
    BY <1>3 DEF Delete, view
  <2>2. pending.todo \in Seq(Known) /\ Tail(pending.todo) \in Seq(Known)
    BY <1>0, <2>1, HeadTailProperties DEF Actions
  <2>3. pending' \in Actions(Known)
    BY <1>0, <2>1, <2>2 DEF Actions
  <2>4. Known' = Known /\ turns' <= MaxTurns
    BY <1>0, <1>k, <2>1 DEF Known
  <2> QED
    BY <1>0, <2>1, <2>3, <2>4, OthersMove
<1>4. CASE DeleteFails
  <2>1. /\ turns < MaxTurns /\ turns' = turns + 1 /\ pending.todo # <<>> /\ rows' = rows /\ narrow' = narrow
        /\ UNCHANGED <<kind, page, walk, filter, cursorStack, selected, loads, loading>>
    BY <1>4 DEF DeleteFails, PageTurn, view, server
  <2>2. /\ pending.todo \in Seq(Known) /\ Tail(pending.todo) \in Seq(Known) /\ Head(pending.todo) \in Known
        /\ pending.failed \in SUBSET Known
    BY <1>0, <2>1, HeadTailProperties DEF Actions
  <2>3. pending' \in Actions(Known)
    <3>1. CASE pending' = NoAction
      BY <3>1, NothingPaged
    <3>2. CASE pending' = [pending EXCEPT !.todo = Tail(@), !.failed = @ \cup {Head(pending.todo)}]
      BY <1>0, <2>2, <3>2 DEF Actions
    <3> QED
      BY <1>4, <3>1, <3>2 DEF DeleteFails
  <2>4. Known \subseteq Known' /\ turns' <= MaxTurns
    BY <1>0, <1>k, <2>1 DEF Known
  <2> QED
    BY <1>0, <2>1, <2>3, <2>4, OthersMove
<1>5. ASSUME NEW l \in Reply, AnswerFails(l) PROVE PagerInv'
  <2>1. /\ turns < MaxTurns /\ turns' = turns + 1 /\ rows' = rows /\ narrow' = narrow /\ loading' = FALSE
        /\ loads' = [loads EXCEPT ![l] = NoReply]
        /\ UNCHANGED <<kind, page, walk, filter, cursorStack, selected, pending>>
    BY <1>5 DEF AnswerFails, PageTurn, view, server
  <2>2. loads' \in [Reply -> Replies(Known)] /\ \A k \in Reply : loads'[k] = loads[k] \/ loads'[k] = NoReply
    BY <1>0, <2>1, NothingPaged
  <2>3. Known \subseteq Known' /\ turns' <= MaxTurns
    BY <1>0, <1>k, <2>1 DEF Known
  <2> QED
    BY <1>0, <2>1, <2>2, <2>3, OthersMove
<1>6. ASSUME NEW f \in {"all", "narrow"}, SetFilter(f) PROVE PagerInv'
  <2>1. /\ UNCHANGED <<kind, server, turns, page, walk>> /\ filter' = f /\ RequestPage(f, 0)
        /\ cursorStack' \in {<<>>, cursorStack} /\ selected' = selected /\ pending' = pending
    BY <1>6 DEF SetFilter, PageStep
  <2>2. f \in FilterNames /\ cursorStack' \in Seq(Known)
    BY <1>0, <2>1, EmptySeq DEF FilterNames
  <2>3. loading' = TRUE /\ loads' \in [Reply -> Replies(Known)] /\ \A l \in Reply : ReplyIsWhole(loads'[l])
    BY <1>k, <2>1, <2>2, RequestIsWhole
  <2> QED
    BY <1>0, <2>1, <2>2, <2>3, ViewMoves
(* The pager asks for the page on top of the stack it leaves.              *)
<1>p. ASSUME NEW stack \in Seq(Known), NEW c \in {0} \cup Known, cursorStack' = stack, RequestPage(filter, c),
             UNCHANGED <<kind, server, turns, page, walk, filter, selected, pending>>
      PROVE  PagerInv'
  <2>1. loading' = TRUE /\ loads' \in [Reply -> Replies(Known)] /\ \A l \in Reply : ReplyIsWhole(loads'[l])
    BY <1>k, <1>p, RequestIsWhole
  <2>2. UNCHANGED <<kind, server, turns, page, walk>> /\ filter' = filter /\ selected' = selected
        /\ pending' = pending
    BY <1>p
  <2> QED
    BY <1>0, <1>p, <2>1, <2>2, ViewMoves
<1>7. CASE Refresh
  <2>1. /\ UNCHANGED <<kind, server, turns, page, walk, filter, selected, pending>>
        /\ cursorStack' \in {<<>>, cursorStack} /\ RequestPage(filter, Top(cursorStack'))
    BY <1>7 DEF Refresh, PageStep
  <2>2. cursorStack' \in Seq(Known)
    BY <1>0, <2>1, EmptySeq
  <2>3. Top(cursorStack') \in {0} \cup Known
    BY <2>2, StackOfCursors
  <2> QED
    BY <1>p, <2>1, <2>2, <2>3
<1>8. CASE PreviousPage
  <2>1. /\ UNCHANGED <<kind, server, turns, page, walk, filter, selected, pending>>
        /\ cursorStack # <<>> /\ cursorStack' = Front(cursorStack) /\ RequestPage(filter, Top(cursorStack'))
    BY <1>8 DEF PreviousPage, PageStep
  <2>2. cursorStack' \in Seq(Known)
    BY <1>0, <2>1, StackOfCursors
  <2>3. Top(cursorStack') \in {0} \cup Known
    BY <2>2, StackOfCursors
  <2> QED
    BY <1>p, <2>1, <2>2, <2>3
<1>9. CASE NextPage
  <2>1. /\ UNCHANGED <<kind, server, turns, page, walk, filter, selected, pending>>
        /\ page.next # 0 /\ cursorStack' = Append(cursorStack, page.next) /\ RequestPage(filter, page.next)
    BY <1>9 DEF NextPage, PageStep
  <2>2. page.next \in Known
    BY <1>k, <2>1
  <2>3. cursorStack' \in Seq(Known)
    BY <1>0, <2>1, <2>2, AppendProperties
  <2> QED
    BY <1>p, <2>1, <2>2, <2>3
(* Selections and dialogs: no request is sent.                             *)
<1>q. ASSUME PageStep, filter' = filter, cursorStack' = cursorStack, loads' = loads, loading' = loading,
             selected' \subseteq ToSet(page.items), pending' \in Actions(Known)
      PROVE  PagerInv'
  <2>1. UNCHANGED <<kind, server, turns, page, walk>>
    BY <1>q DEF PageStep
  <2> QED
    BY <1>0, <1>q, <2>1, ViewMoves
<1>10. CASE Toggle
  <2>1. PICK n \in ToSet(page.items) : selected' = SymDiff(selected, {n})
    BY <1>10 DEF Toggle
  <2>2. selected' \subseteq ToSet(page.items)
    BY <1>0, <2>1 DEF SymDiff
  <2> QED
    BY <1>0, <1>10, <1>q, <2>2 DEF Toggle
<1>11. CASE ToggleAll
  <2>1. selected' \subseteq ToSet(page.items)
    BY <1>0, <1>11 DEF ToggleAll
  <2> QED
    BY <1>0, <1>11, <1>q, <2>1 DEF ToggleAll
<1>b. ASSUME NEW todo \in Seq(Known), NEW bulk \in BOOLEAN, Begin(todo, bulk) PROVE PagerInv'
  <2>1. Top(cursorStack) \in {0} \cup Known
    BY <1>0, StackOfCursors
  <2>2. pending' = [filter |-> filter, cursor |-> Top(cursorStack), todo |-> todo, failed |-> {}, bulk |-> bulk]
    BY <1>b DEF Begin
  <2>3. pending' \in Actions(Known)
    BY <1>k, <2>1, <2>2 DEF Actions
  <2>4. PageStep /\ filter' = filter /\ cursorStack' = cursorStack /\ selected' = selected /\ loads' = loads
        /\ loading' = loading
    BY <1>b DEF Begin, view
  <2> QED
    BY <1>0, <1>q, <2>3, <2>4
<1>12. CASE DeleteOne
  <2>1. PICK n \in ToSet(page.items) : Begin(<<n>>, FALSE)
    BY <1>12 DEF DeleteOne
  <2>2. n \in Known
    BY <1>k, <2>1
  <2>3. <<n>> \in Seq(Known)
    BY <2>2
  <2> QED
    BY <1>b, <2>1, <2>3
<1>13. CASE DeleteSelected
  <2>1. Begin(NewestFirst(selected), TRUE)
    BY <1>13 DEF DeleteSelected
  <2>2. IsFiniteSet(selected) /\ selected \in SUBSET Nat
    <3>1. IsFiniteSet(Known)
      BY <1>k, FS_Interval DEF Known
    <3> QED
      BY <1>0, <1>k, <3>1, FS_Subset
  <2>3. NewestFirst(selected) \in Seq(selected)
    BY <2>2, NewestAreFirst
  <2>4. NewestFirst(selected) \in Seq(Known)
    BY <1>0, <2>3, SeqMonotonic
  <2> QED
    BY <1>b, <2>1, <2>4
<1>14. CASE ActAndReload
  <2>1. <<>> \in Seq(Known)
    BY EmptySeq
  <2> QED
    BY <1>b, <1>14, <2>1 DEF ActAndReload
<1>15. CASE Reload
  <2>1. /\ UNCHANGED <<kind, server, turns, page, walk>> /\ filter' = filter /\ cursorStack' = cursorStack
        /\ pending' = NoAction /\ RequestPage(pending.filter, pending.cursor)
        /\ selected' \subseteq selected
    BY <1>15 DEF Reload, server
  <2>2. pending.filter \in FilterNames /\ pending.cursor \in {0} \cup Known
    BY <1>0 DEF Actions
  <2>3. loading' = TRUE /\ loads' \in [Reply -> Replies(Known)] /\ \A l \in Reply : ReplyIsWhole(loads'[l])
    BY <2>1, <2>2, RequestIsWhole
  <2>4. selected' \subseteq ToSet(page.items) /\ pending' \in Actions(Known)
    BY <1>0, <2>1, NothingPaged
  <2> QED
    BY <1>0, <2>1, <2>3, <2>4, ViewMoves
<1>16. ASSUME NEW l \in Reply, Answer(l) PROVE PagerInv'
  <2> DEFINE r == loads[l]
  <2>1. /\ page' = r /\ loads' = [loads EXCEPT ![l] = NoReply] /\ loading' = FALSE /\ walk' = Walked(r)
        /\ selected' \subseteq ToSet(r.items)
        /\ UNCHANGED <<kind, rows, narrow, filter, cursorStack, pending, turns>>
    BY <1>16 DEF Answer, server
  <2>2. r \in Replies(Known) /\ ReplyIsWhole(r) /\ r.items \in Seq(Known)
    BY <1>0 DEF Replies, Pages
  <2> HIDE DEF r
  <2>3. /\ Walked(r) \in Walks(Known)
        /\ \A n \in Unseen(Walked(r)) : (\A g \in Walked(r).given : n < g) /\ n < r.next
    BY <2>2, WalkedIsWhole
  <2>4. Known' = Known /\ \A f : Matching(f)' = Matching(f)
    BY <2>1 DEF Known, Matching
  <2>5. loads' \in [Reply -> Replies(Known)] /\ \A k \in Reply : loads'[k] = loads[k] \/ loads'[k] = NoReply
    BY <1>0, <2>1, NothingPaged
  <2>6. \A k \in Reply : ReplyIsWhole(loads[k])'
    <3>1. ReplyIsWhole(NoReply)
      BY <1>0, <1>k, NoReplyIsWhole DEF Known
    <3>2. \A k \in Reply : ReplyIsWhole(loads'[k])
      BY <1>0, <2>5, <3>1
    <3> QED
      BY <2>1, <2>4, <3>2 DEF ReplyIsWhole
  <2>7. GivenIsAhead' /\ NothingIsSkipped'
    <3>1. \A w : Unseen(w)' = Unseen(w)
      BY <2>4 DEF Unseen
    <3>2. \A n \in Unseen(walk') : (\A g \in walk'.given : n < g) /\ n < page'.next
      BY <2>1, <2>3
    <3> QED
      BY <2>4, <3>2 DEF GivenIsAhead, NothingIsSkipped, Unseen
  <2>8. ToSet(r.items) \subseteq Known
    <3>1. DOMAIN r.items = 1..Len(r.items)
      BY <2>2, LenProperties
    <3> QED
      BY <2>2, <3>1, ElementOfSeq DEF ToSet
  <2>9. PagerTyped(Known)'
    BY <1>0, <2>1, <2>2, <2>3, <2>4, <2>5, <2>8 DEF PagerTyped
  <2>10. SelectionIsShown'
    BY <2>1 DEF SelectionIsShown
  <2> QED
    BY <1>0, <2>1, <2>6, <2>7, <2>9, <2>10 DEF PagerInv
<1>17. CASE UNCHANGED pagerVars
  <2>1. /\ UNCHANGED <<kind, server, turns, page, walk>> /\ filter' = filter /\ cursorStack' = cursorStack
        /\ selected' = selected /\ pending' = pending /\ loads' = loads /\ loading' = loading
    BY <1>17 DEF pagerVars, view, server
  <2> QED
    BY <1>0, <2>1, ViewMoves
<1> QED
  BY <1>1, <1>2, <1>3, <1>4, <1>5, <1>6, <1>7, <1>8, <1>9, <1>10, <1>11, <1>12, <1>13, <1>14, <1>15, <1>16,
     <1>17
     DEF PagerNext

(* Hence it holds throughout.                                              *)
LEMMA PagerInvHolds == PagerSpec => []PagerInv
BY PagerInvInit, PagerInvStep, PTL DEF PagerSpec

(* PagerTypeOK, for every number of items, page size, slots and bounds.    *)
THEOREM PagerTypesHold == PagerSpec => []PagerTypeOK
<1>1. PagerInv => PagerTypeOK
  <2> SUFFICES ASSUME PagerInv PROVE PagerTypeOK
    OBVIOUS
  <2> DEFINE Item == 1 .. FirstItems + MaxTurns
  <2>1. Known \subseteq Item
    BY NothingPaged DEF PagerInv, Known
  <2>2. /\ rows \subseteq Known /\ narrow \subseteq Known /\ selected \subseteq Known
           /\ cursorStack \in Seq(Known)
        /\ page.items \in Seq(Known) /\ Len(page.items) <= Limit /\ pending.todo \in Seq(Known)
        /\ walk.seen \cup walk.given \subseteq Known
    BY DEF PagerInv, PagerTyped, Replies, Pages, Actions, Walks
  <2>3. \A s \in Seq(Known) : ToSet(s) \subseteq Known
    <3> SUFFICES ASSUME NEW s \in Seq(Known) PROVE ToSet(s) \subseteq Known
      OBVIOUS
    <3>1. DOMAIN s = 1..Len(s)
      BY LenProperties
    <3> QED
      BY <3>1, ElementOfSeq DEF ToSet
  <2>4. cursorStack \in Seq(Item)
    BY <2>1, <2>2, SeqMonotonic
  <2>5. filter \in {"all", "narrow"} /\ loading \in BOOLEAN
    BY DEF PagerInv
  <2>6. ToSet(page.items) \subseteq Item /\ ToSet(pending.todo) \subseteq Item
    BY <2>1, <2>2, <2>3
  <2> HIDE DEF Item
  <2>7. /\ rows \subseteq Item /\ narrow \subseteq Item /\ selected \subseteq Item
           /\ walk.seen \cup walk.given \subseteq Item
    BY <2>1, <2>2
  <2> QED
    BY <2>2, <2>4, <2>5, <2>6, <2>7 DEF PagerTypeOK, Item
<1> QED
  BY <1>1, PagerInvHolds, PTL

(* ListsAreWhole, for every number of items, page size, slots and bounds:  *)
(* walking the pages skips nothing, and a selection is on display.         *)
THEOREM PagesSkipNothing == PagerSpec => []ListsAreWhole
<1>1. PagerInv => ListsAreWhole
  BY DEF PagerInv, ListsAreWhole
<1> QED
  BY <1>1, PagerInvHolds, PTL
-----------------------------------------------------------------------------
(* The components in one run: a behaviour of them all holds one of each.   *)

(* Each component's part of a behaviour of all is a behaviour of its own:  *)
(* it takes one of its steps or rests.                                     *)
LEMMA BackgroundIsItsParts ==
  BackgroundSpec =>
    /\ ProxySpec
    /\ MediaSpec
    /\ ImportSpec
    /\ MetricsSpec
    /\ AdapterSpec
    /\ StatusSpec
    /\ ReadSpec
    /\ CallSpec
    /\ AccountSpec
    /\ PagerSpec
<1>0. BackgroundInit =>
        /\ ProxyInit
        /\ MediaInit
        /\ ImportInit
        /\ MetricsInit
        /\ AdapterInit
        /\ StatusInit
        /\ ReadInit
        /\ CallInit
        /\ AccountInit
        /\ PagerInit
  BY DEF BackgroundInit
<1>1. [BackgroundNext]_<<focus, proxyVars, mediaVars, importVars, metricVars, adapterVars,
                               children, readVars, callVars, accountVars, pagerVars>>
        => [ProxyNext]_proxyVars
  BY DEF BackgroundNext, OthersRest
<1>2. [BackgroundNext]_<<focus, proxyVars, mediaVars, importVars, metricVars, adapterVars,
                               children, readVars, callVars, accountVars, pagerVars>>
        => [MediaNext]_mediaVars
  BY DEF BackgroundNext, OthersRest
<1>3. [BackgroundNext]_<<focus, proxyVars, mediaVars, importVars, metricVars, adapterVars,
                               children, readVars, callVars, accountVars, pagerVars>>
        => [ImportNext]_importVars
  BY DEF BackgroundNext, OthersRest
<1>4. [BackgroundNext]_<<focus, proxyVars, mediaVars, importVars, metricVars, adapterVars,
                               children, readVars, callVars, accountVars, pagerVars>>
        => [MetricsNext]_metricVars
  BY DEF BackgroundNext, OthersRest
<1>5. [BackgroundNext]_<<focus, proxyVars, mediaVars, importVars, metricVars, adapterVars,
                               children, readVars, callVars, accountVars, pagerVars>>
        => [AdapterNext]_adapterVars
  BY DEF BackgroundNext, OthersRest
<1>6. [BackgroundNext]_<<focus, proxyVars, mediaVars, importVars, metricVars, adapterVars,
                               children, readVars, callVars, accountVars, pagerVars>>
        => [StatusNext]_children
  BY DEF BackgroundNext, OthersRest
<1>7. [BackgroundNext]_<<focus, proxyVars, mediaVars, importVars, metricVars, adapterVars,
                               children, readVars, callVars, accountVars, pagerVars>>
        => [ReadNext]_readVars
  BY DEF BackgroundNext, OthersRest
<1>8. [BackgroundNext]_<<focus, proxyVars, mediaVars, importVars, metricVars, adapterVars,
                               children, readVars, callVars, accountVars, pagerVars>>
        => [CallNext]_callVars
  BY DEF BackgroundNext, OthersRest
<1>9. [BackgroundNext]_<<focus, proxyVars, mediaVars, importVars, metricVars, adapterVars,
                               children, readVars, callVars, accountVars, pagerVars>>
        => [AccountNext]_accountVars
  BY DEF BackgroundNext, OthersRest
<1>10. [BackgroundNext]_<<focus, proxyVars, mediaVars, importVars, metricVars, adapterVars,
                               children, readVars, callVars, accountVars, pagerVars>>
        => [PagerNext]_pagerVars
  BY DEF BackgroundNext, OthersRest
<1> QED
  BY <1>0, <1>1, <1>2, <1>3, <1>4, <1>5, <1>6, <1>7, <1>8, <1>9, <1>10, PTL
     DEF BackgroundSpec, ProxySpec, MediaSpec, ImportSpec, MetricsSpec, AdapterSpec, StatusSpec,
         ReadSpec, CallSpec, AccountSpec, PagerSpec

(* BackgroundTypeOK, for every value of the constants: the types of every  *)
(* component that works in the background.                                 *)
THEOREM BackgroundIsTyped == BackgroundSpec => []BackgroundTypeOK
<1>1. /\ ProxyTypeOK /\ MediaTypeOK /\ ImportTypeOK /\ MetricsTypeOK /\ AdapterTypeOK
      /\ ReadTypeOK /\ CallTypeOK /\ AccountTypeOK /\ PagerTypeOK
      => BackgroundTypeOK
  BY DEF BackgroundTypeOK
<1> QED
  BY <1>1, BackgroundIsItsParts, ProxyTypesHold, MediaTypesHold, ImportTypesHold, MetricTypesHold,
     AdapterTypesHold, ReadTypesHold, CallTypesHold, AccountTypesHold, PagerTypesHold, PTL

(* MetricsAreHonest, for every value of the constants: the numbers shown   *)
(* are those the platforms gave, of the day they are filed under, and what *)
(* is not known is not zero.                                               *)
THEOREM MetricsHold == BackgroundSpec => []MetricsAreHonest
<1>1. NumbersAreHonest /\ SnapshotsAreNotOld /\ ReadsAreHonest => MetricsAreHonest
  BY DEF MetricsAreHonest
<1> QED
  BY <1>1, BackgroundIsItsParts, NumbersHold, DaysAreNotOld, ReadsHold, PTL

(* AnswersAreTold, for every value of the constants: in every call of an   *)
(* adapter, what is returned or thrown fits what was done at the platform. *)
THEOREM AnswersHold == BackgroundSpec => []AnswersAreTold
<1>1. ErrorsTellTheWorker /\ CallsTellTheTruth => AnswersAreTold
  BY DEF AnswersAreTold
<1> QED
  BY <1>1, BackgroundIsItsParts, ErrorsAreUnderstood, CallsAreHonest, PTL
=============================================================================
