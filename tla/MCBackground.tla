---------------------------- MODULE MCBackground ----------------------------
(***************************************************************************)
(* Components that work in the background, for TLC in one run: as in       *)
(* MCServices, the initial state picks the component that takes steps.     *)
(***************************************************************************)
EXTENDS Proxy, Media, ImportSync, Metrics, Adapters, MCPostStatus, PlatformReads,
        PlatformCalls, AccountMetrics, Pager, TLC

CONSTANTS t1

VARIABLE focus

Components == {"proxy", "media", "import", "metrics", "adapters", "status", "reads",
               "calls", "accounts", "pager"}

OthersRest ==
  /\ focus # "proxy"    => UNCHANGED proxyVars
  /\ focus # "media"    => UNCHANGED mediaVars
  /\ focus # "import"   => UNCHANGED importVars
  /\ focus # "metrics"  => UNCHANGED metricVars
  /\ focus # "adapters" => UNCHANGED adapterVars
  /\ focus # "status"   => UNCHANGED children
  /\ focus # "reads"    => UNCHANGED readVars
  /\ focus # "calls"    => UNCHANGED callVars
  /\ focus # "accounts" => UNCHANGED accountVars
  /\ focus # "pager"    => UNCHANGED pagerVars

BackgroundInit ==
  /\ focus \in Components
  /\ ProxyInit
  /\ MediaInit
  /\ focus # "media" => ~video
  /\ ImportInit
  /\ MetricsInit
  /\ focus # "metrics" => \A j \in MetricJob : target[j] = t1
  /\ AdapterInit
  /\ focus # "adapters" => way = "fbPhoto"
  /\ StatusInit
  /\ ReadInit
  /\ focus # "reads" => reader = "fbPost"
  /\ CallInit
  /\ focus # "calls" => called = [platform |-> "FACEBOOK", name |-> "getPosts", does |-> FacebookMethods.getPosts]
  /\ AccountInit
  /\ PagerInit
  /\ focus # "pager" => kind = "posts" /\ narrow = {} /\ loads[1] # NoReply

BackgroundNext ==
  /\ UNCHANGED focus
  /\ OthersRest
  /\ \/ focus = "proxy"    /\ ProxyNext
     \/ focus = "media"    /\ MediaNext
     \/ focus = "import"   /\ ImportNext
     \/ focus = "metrics"  /\ MetricsNext
     \/ focus = "adapters" /\ AdapterNext
     \/ focus = "status"   /\ StatusNext
     \/ focus = "reads"    /\ ReadNext
     \/ focus = "calls"    /\ CallNext
     \/ focus = "accounts" /\ AccountNext
     \/ focus = "pager"    /\ PagerNext

BackgroundSpec ==
  BackgroundInit /\ [][BackgroundNext]_<<focus, proxyVars, mediaVars,
                                                        importVars, metricVars,
                                                        adapterVars, children,
                                                        readVars, callVars,
                                                        accountVars, pagerVars>>
-----------------------------------------------------------------------------
(* The proxy's callers are alike, and so are the requests of one of them.  *)
Alike == Permutations(Client) \cup Permutations(Sibling)

(* Every component keeps its types; those that rest are as they began.     *)
BackgroundTypeOK ==
  /\ focus = "proxy"    => ProxyTypeOK
  /\ focus = "media"    => MediaTypeOK
  /\ focus = "import"   => ImportTypeOK
  /\ focus = "metrics"  => MetricsTypeOK
  /\ focus = "adapters" => AdapterTypeOK
  /\ focus = "reads"    => ReadTypeOK
  /\ focus = "calls"    => CallTypeOK
  /\ focus = "accounts" => AccountTypeOK
  /\ focus = "pager"    => PagerTypeOK

(* The numbers the dashboards show, from the platforms' answers to the     *)
(* rows of a day: NumbersAreHonest, SnapshotsAreNotOld, ReadsAreHonest.    *)
MetricsAreHonest == NumbersAreHonest /\ SnapshotsAreNotOld /\ ReadsAreHonest

(* What an adapter's call returns or throws fits what it did.              *)
AnswersAreTold == ErrorsTellTheWorker /\ CallsTellTheTruth
=============================================================================
