----------------------------- MODULE MCServices -----------------------------
(***************************************************************************)
(* Components that serve requests, for TLC in one run.  They keep no state *)
(* in common, so a behaviour of all of them together is an interleaving of *)
(* one behaviour of each, and a property of one depends on that one alone. *)
(* The initial state therefore picks one component, `focus', and only that *)
(* one takes steps: every reachable state and step of each component is    *)
(* reached, without their product.                                         *)
(***************************************************************************)
EXTENDS TokenRefresh, Webhooks, Comments, Team, Sessions, PostEditor, Composer,
        PartUpload, InboxPage, Access, TLC

CONSTANTS e1, e2, s1, s2, b1

VARIABLE focus

HookSyncs == (e1 :> {s1, s2}) @@ (e2 :> {})

Components == {"tokens", "hooks", "inbox", "team", "sessions", "editor", "composer",
               "upload", "inboxPage", "access"}

OthersRest ==
  /\ focus # "tokens"    => UNCHANGED tokenVars
  /\ focus # "hooks"     => UNCHANGED hookVars
  /\ focus # "inbox"     => UNCHANGED inboxVars
  /\ focus # "team"      => UNCHANGED teamVars
  /\ focus # "sessions"  => UNCHANGED sessionVars
  /\ focus # "editor"    => UNCHANGED editorVars
  /\ focus # "composer"  => UNCHANGED composerVars
  /\ focus # "upload"    => UNCHANGED uploadVars
  /\ focus # "inboxPage" => UNCHANGED inboxPageVars
  /\ focus # "access"    => UNCHANGED accessVars

ServicesInit ==
  /\ focus \in Components
  /\ TokenInit
  /\ focus # "tokens" => account.renewable
  /\ HookInit
  /\ InboxInit
  /\ TeamInit
  /\ SessionsInit
  /\ focus # "sessions" => session[b1] = 1
  /\ EditorInit
  /\ ComposerInit
  /\ focus # "composer" => network = "FACEBOOK" /\ words = {} /\ images + videos = 0 /\ material.hosted
  /\ UploadInit
  /\ InboxPageInit
  /\ focus # "inboxPage" => recency = <<"p1", "p2">> /\ loads[1] # NoLoad /\ remark = [t \in Thread |-> "none"]
  /\ AccessInit
  /\ focus # "access" => standing = [u \in Account |-> [w \in Space |-> "none"]]

ServicesNext ==
  /\ UNCHANGED focus
  /\ OthersRest
  /\ \/ focus = "tokens"    /\ TokenNext
     \/ focus = "hooks"     /\ HookNext
     \/ focus = "inbox"     /\ InboxNext
     \/ focus = "team"      /\ TeamNext
     \/ focus = "sessions"  /\ SessionsNext
     \/ focus = "editor"    /\ EditorNext
     \/ focus = "composer"  /\ ComposerNext
     \/ focus = "upload"    /\ UploadNext
     \/ focus = "inboxPage" /\ InboxPageNext
     \/ focus = "access"    /\ AccessNext

ServicesSpec ==
  ServicesInit /\ [][ServicesNext]_<<focus, tokenVars, hookVars,
                                                  inboxVars, teamVars, sessionVars,
                                                  editorVars, composerVars,
                                                  uploadVars, inboxPageVars,
                                                  accessVars>>
-----------------------------------------------------------------------------
(* Every component keeps its types; those that rest are as they began.     *)
ServicesTypeOK ==
  /\ focus = "tokens"    => TokenTypeOK
  /\ focus = "hooks"     => HookTypeOK
  /\ focus = "inbox"     => InboxTypeOK
  /\ focus = "team"      => TeamTypeOK
  /\ focus = "sessions"  => SessionsTypeOK
  /\ focus = "editor"    => EditorTypeOK
  /\ focus = "composer"  => ComposerTypeOK
  /\ focus = "upload"    => UploadTypeOK
  /\ focus = "inboxPage" => InboxPageTypeOK
  /\ focus = "access"    => AccessTypeOK

(* What the pages show, offer and send fits what the services hold and do. *)
PagesKeepFaith ==
  ComposerKeepsFaith /\ UploadsAreWhole /\ InboxPageHolds /\ OffersAreGranted
=============================================================================
