------------------------------- MODULE Access -------------------------------
(***************************************************************************)
(* What the pages offer and what the API grants: the routes with the       *)
(* permissions their guards ask for, the buttons with the permissions the  *)
(* pages look at, and the store of who is logged in, which every tab keeps *)
(* for itself while the session cookie and the chosen workspace are the    *)
(* browser's.                                                              *)
(***************************************************************************)
EXTENDS Rbac, Sequences, SequencesExt

CONSTANTS
  Account,     \* people who log in
  Space,       \* workspaces, in the order they are listed
  Tab,         \* tabs of one browser
  StartRoles,  \* the roles people have at first, or "none"
  MaxFetches,  \* bound on the refreshes a tab has under way
  MaxMoves     \* bound on what the user and the administrators do

ASSUME AccessAssumption ==
  /\ StartRoles \subseteq Roles \cup {"none"} /\ MaxFetches \in Nat /\ MaxMoves \in Nat
  /\ "none" \notin Account \cup Space

VARIABLES
  standing,  \* server: the role each person has in each workspace
  cookie,    \* whose session the browser's cookie names
  stored,    \* localStorage: the workspace chosen last
  tab,       \* the store of each tab
  fetches,   \* the answers of /auth/me on their way to each tab
  fresh,     \* history: tabs that show what the server has now
  moves

accessVars == <<standing, cookie, stored, tab, fetches, fresh, moves>>
-----------------------------------------------------------------------------
PostsRoutes ==
  [list |-> {"post:view"}, create |-> {"post:create"}, bulkDelete |-> {"post:delete"},
   get |-> {"post:view"}, update |-> {"post:update"}, delete |-> {"post:delete"},
   publish |-> {"post:publish"}, schedule |-> {"post:schedule"}, retry |-> {"post:publish"},
   refreshPlatformPostState |-> {"post:view"}, makeYouTubePublic |-> {"post:publish"},
   cancelTikTokPublish |-> {"post:publish"}, duplicate |-> {"post:create"}]

CommentsRoutes ==
  [list |-> {"comment:view"}, sync |-> {"comment:moderate"}, listTags |-> {"comment:view"},
   bulkCreatePlatformComments |-> {"comment:reply"}, createPlatformComment |-> {"comment:reply"},
   bulkReplyToComments |-> {"comment:reply"}, createTag |-> {"comment:moderate"},
   listTemplates |-> {"comment:view"}, createTemplate |-> {"comment:reply"},
   updateTemplate |-> {"comment:reply"}, deleteTemplate |-> {"comment:reply"},
   get |-> {"comment:view"}, updateStatus |-> {"comment:moderate"}, assign |-> {"comment:assign"},
   updateTags |-> {"comment:moderate"}, updateMessage |-> {"comment:moderate"},
   updateVisibility |-> {"comment:moderate"}, deleteComment |-> {"comment:moderate"},
   addNote |-> {"comment:view"}, reply |-> {"comment:reply"}]

MediaRoutes ==
  [usage |-> {"media:view"}, list |-> {"media:view"}, get |-> {"media:view"},
   rename |-> {"media:upload"}, object |-> {"media:view"}, thumbnail |-> {"media:view"},
   createUpload |-> {"media:upload"}, createMultipartUpload |-> {"media:upload"},
   confirm |-> {"media:upload"},
   completeMultipartUpload |-> {"media:upload"}, abortMultipartUpload |-> {"media:upload"},
   regenerateThumbnail |-> {"media:upload"}, uploadObject |-> {"media:upload"},
   delete |-> {"media:delete"}, archive |-> {"media:delete"}]

SocialAccountsRoutes ==
  [list |-> {"social_account:view"}, authorize |-> {"social_account:connect"},
   disconnect |-> {"social_account:disconnect"}, testConnection |-> {"social_account:view"},
   tiktokCreatorInfo |-> {"social_account:view"}, pinterestBoards |-> {"social_account:view"},
   pinterestBoardSections |-> {"social_account:view"}, instagramLocations |-> {"social_account:view"},
   syncExternalPosts |-> {"social_account:sync"}]

WorkspacesRoutes ==
  [get |-> {}, update |-> {"workspace:update"}, listMembers |-> {"member:view"},
   invite |-> {"member:invite"},
   changeRole |-> {"member:change_role"}, removeMember |-> {"member:remove"}]

SystemRoutes == [r \in {"network", "proxy", "proxyPolicy"} |-> {"workspace:update"}]
JobsRoutes == [r \in {"activity", "status", "clearFailed", "clearStaleQueued"} |-> {"notification:view"}]
NotificationsRoutes == [r \in {"list", "markAllRead", "markRead"} |-> {"notification:view"}]
AnalyticsRoutes == [r \in {"dashboard", "sync"} |-> {"analytics:view"}]
AuditRoutes == [list |-> {"audit_log:view"}]
-----------------------------------------------------------------------------
Offer(gate, route) == [gate |-> gate, needs |-> route]
Gated(permission, routes) == {Offer({permission}, r) : r \in routes}
Always(routes) == {Offer({}, r) : r \in routes}

PostsPageOffers ==
  Gated("post:publish", {PostsRoutes.retry}) \cup Gated("post:delete", {PostsRoutes.delete})
  \cup Always({PostsRoutes.list, PostsRoutes.duplicate, SocialAccountsRoutes.list})

PostPageOffers ==
  Gated("post:publish", {PostsRoutes.publish, PostsRoutes.retry, PostsRoutes.makeYouTubePublic,
                         PostsRoutes.cancelTikTokPublish})
  \cup Gated("post:delete", {PostsRoutes.delete})
  \cup Always({PostsRoutes.get, PostsRoutes.refreshPlatformPostState,
                CommentsRoutes.createPlatformComment})

ComposePageOffers ==
  Gated("post:create", {PostsRoutes.create}) \cup Gated("post:publish", {PostsRoutes.publish})
  \cup Gated("post:schedule", {PostsRoutes.schedule})
  \cup Always({MediaRoutes[r] : r \in {"usage", "list", "createUpload",
                                       "createMultipartUpload", "confirm"}})

EditPageOffers == Gated("post:update", {PostsRoutes.update}) \cup Always({PostsRoutes.get})

\* Mutant of InboxPageOffers: a sync is offered to who may reply.
InboxOffersByReply ==
  Gated("comment:reply", {CommentsRoutes.sync, SocialAccountsRoutes.syncExternalPosts})

InboxPageOffers ==
  Gated("comment:moderate",
        {CommentsRoutes[r] : r \in {"sync", "createTag", "updateStatus", "updateTags"}}
        \cup {SocialAccountsRoutes.syncExternalPosts})
  \cup Gated("comment:assign", {CommentsRoutes.assign})
  \cup Gated("comment:reply",
             {CommentsRoutes.bulkCreatePlatformComments, CommentsRoutes.bulkReplyToComments})
  \cup Always({CommentsRoutes[r] : r \in {"list", "listTags", "listTemplates", "addNote", "reply",
                                          "createPlatformComment"}})

SettingsPageOffers ==
  Gated("workspace:update", {WorkspacesRoutes.update}) \cup Gated("audit_log:view", {AuditRoutes.list})
  \cup Gated("media:view", {MediaRoutes.usage, MediaRoutes.list})
  \cup Gated("media:delete", {MediaRoutes.delete, MediaRoutes.archive})
  \cup Gated("media:upload", {MediaRoutes.rename, MediaRoutes.regenerateThumbnail})

TeamPageOffers ==
  Gated("member:invite", {WorkspacesRoutes.invite})
  \cup Gated("member:remove", {WorkspacesRoutes.removeMember})
  \cup Gated("member:change_role", {WorkspacesRoutes.changeRole}) \cup Always({WorkspacesRoutes.listMembers})

AccountsPageOffers ==
  Gated("social_account:connect", {SocialAccountsRoutes.authorize})
  \cup Gated("social_account:disconnect", {SocialAccountsRoutes.disconnect})
  \cup Always({SocialAccountsRoutes[r] : r \in {"list", "testConnection", "syncExternalPosts"}})

AnalyticsPageOffers ==
  Always({AnalyticsRoutes.dashboard, AnalyticsRoutes.sync, JobsRoutes.status,
          SocialAccountsRoutes.syncExternalPosts})

NetworkPageOffers == Always({SystemRoutes.proxyPolicy})

(* The shell shows the proxy to owners and administrators.                 *)
ShellOffers ==
  Gated("workspace:update", {SystemRoutes.network, SystemRoutes.proxy})
  \cup Always({NotificationsRoutes[r] : r \in DOMAIN NotificationsRoutes})
  \cup Always({JobsRoutes.activity, JobsRoutes.clearFailed, JobsRoutes.clearStaleQueued})

PageOffers ==
  UNION {PostsPageOffers, PostPageOffers, ComposePageOffers, EditPageOffers, InboxPageOffers,
         SettingsPageOffers, TeamPageOffers, AccountsPageOffers, AnalyticsPageOffers,
         NetworkPageOffers, ShellOffers}

(* The buttons that look at no permission though not every role may.       *)
UngatedOffers == {o \in PageOffers : o.gate = {} /\ ~(o.needs \subseteq Permissions["VIEWER"])}
-----------------------------------------------------------------------------
LoggedOut ==
  [user |-> "none", roles |-> [w \in Space |-> "none"], active |-> "none", loading |-> FALSE]

Memberships(roles) == {w \in Space : roles[w] # "none"}

\* Mutant of ChooseWorkspace: the stored choice is not looked up in the list.
ChooseAsStored(roles, preferred) ==
  IF preferred # "none" \/ Memberships(roles) = {} THEN preferred ELSE CHOOSE w \in Memberships(roles) : TRUE

(* chooseWorkspace: the preferred one, or the first of the list.           *)
ChooseWorkspace(roles, preferred) ==
  CASE preferred \in Memberships(roles) -> preferred
    [] Memberships(roles) = {}          -> "none"
    [] OTHER                            -> CHOOSE w \in Memberships(roles) : TRUE

(* /auth/me as the cookie's user is answered now.                          *)
Me == [user |-> cookie, current |-> TRUE,
       roles |-> IF cookie = "none" THEN LoggedOut.roles ELSE standing[cookie]]

AuthGuard == cookie # "none"
WorkspaceGuard(w) == standing[cookie][w] # "none"
RoleGuard(needs, w) == needs \subseteq Permissions[standing[cookie][w]]

Granted(needs, w) == AuthGuard /\ WorkspaceGuard(w) /\ RoleGuard(needs, w)

AccessInit ==
  /\ standing \in [Account -> [Space -> StartRoles]] /\ cookie = "none" /\ stored = "none"
  /\ tab = [t \in Tab |-> LoggedOut] /\ fetches = [t \in Tab |-> <<>>] /\ fresh = {} /\ moves = 0

AccessTypeOK ==
  /\ standing \in [Account -> [Space -> Roles \cup {"none"}]] /\ cookie \in Account \cup {"none"}
  /\ stored \in Space \cup {"none"} /\ fresh \subseteq Tab
  /\ \A t \in Tab : /\ tab[t].user \in Account \cup {"none"} /\ tab[t].active \in Space \cup {"none"}
                    /\ tab[t].loading \in BOOLEAN /\ Len(fetches[t]) <= MaxFetches

AccessMove == moves < MaxMoves /\ moves' = moves + 1

(* What the server has changes under every tab and every answer.           *)
Outdated(list) == [i \in DOMAIN list |-> [list[i] EXCEPT !.current = FALSE]]
OutdateAll == fresh' = {} /\ fetches' = [t \in Tab |-> Outdated(fetches[t])]

RoleChanges ==
  /\ AccessMove /\ OutdateAll
  /\ \E u \in Account, w \in Space, r \in Roles \cup {"none"} :
       r # standing[u][w] /\ standing' = [standing EXCEPT ![u][w] = r]
  /\ UNCHANGED <<cookie, stored, tab>>

SessionEnds ==
  /\ AccessMove /\ OutdateAll /\ cookie # "none" /\ cookie' = "none" /\ UNCHANGED <<standing, stored, tab>>

(* The pathname changes: refresh, and no page is shown meanwhile.          *)
Navigate(t) ==
  /\ AccessMove /\ Len(fetches[t]) < MaxFetches /\ fetches' = [fetches EXCEPT ![t] = Append(@, Me)]
  /\ tab' = [tab EXCEPT ![t].loading = TRUE] /\ UNCHANGED <<standing, cookie, stored, fresh>>

Applied(me) ==
  [user |-> me.user, roles |-> me.roles, active |-> ChooseWorkspace(me.roles, stored), loading |-> FALSE]

(* Answers come in any order, and each is applied.                         *)
Refreshed(t) ==
  \E i \in DOMAIN fetches[t] :
    LET me == fetches[t][i] IN
    /\ tab' = [tab EXCEPT ![t] = IF me.user = "none" THEN LoggedOut ELSE Applied(me)]
    /\ stored' = IF me.user = "none" THEN stored ELSE ChooseWorkspace(me.roles, stored)
    /\ fetches' = [fetches EXCEPT ![t] = RemoveAt(@, i)]
    /\ fresh' = IF me.current THEN fresh \cup {t} ELSE fresh \ {t}
    /\ UNCHANGED <<standing, cookie, moves>>

(* The cookie is another's for every tab; the page that follows refreshes. *)
LogIn(t, u) ==
  /\ AccessMove /\ tab[t] = LoggedOut /\ cookie' = u /\ Len(fetches[t]) < MaxFetches
  /\ LET me == [user |-> u, roles |-> standing[u], current |-> TRUE]
     IN /\ tab' = [tab EXCEPT ![t] = [Applied(me) EXCEPT !.loading = TRUE]]
        /\ fetches' = [s \in Tab |-> Outdated(fetches[s]) \o IF s = t THEN <<me>> ELSE <<>>]
        /\ stored' = ChooseWorkspace(standing[u], stored)
  /\ fresh' = {} /\ UNCHANGED standing

LogOut(t) ==
  /\ AccessMove /\ tab[t].user # "none" /\ ~tab[t].loading /\ OutdateAll
  /\ cookie' = "none" /\ tab' = [tab EXCEPT ![t] = LoggedOut] /\ stored' = "none"
  /\ UNCHANGED standing

SetActiveWorkspace(t, w) ==
  /\ AccessMove /\ ~tab[t].loading /\ w \in Memberships(tab[t].roles)
  /\ tab' = [tab EXCEPT ![t].active = w] /\ stored' = w
  /\ UNCHANGED <<standing, cookie, fetches, fresh>>

AccessNext ==
  \/ RoleChanges \/ SessionEnds
  \/ \E t \in Tab : \/ Navigate(t) \/ Refreshed(t) \/ LogOut(t)
                    \/ \E u \in Account : LogIn(t, u)
                    \/ \E w \in Space : SetActiveWorkspace(t, w)

AccessSpec == AccessInit /\ [][AccessNext]_accessVars
-----------------------------------------------------------------------------
(* While a tab shows what the server has, every button its page offers for *)
(* the role on display is granted by the guards: a refusal means that the  *)
(* role or the session changed behind the tab's back, or that the page     *)
(* looked at no permission at all.                                         *)
OffersAreGranted ==
  \A t \in fresh : tab[t].active # "none" /\ ~tab[t].loading =>
    /\ Granted({}, tab[t].active)
    /\ \A o \in PageOffers \ UngatedOffers :
         o.gate \subseteq Permissions[tab[t].roles[tab[t].active]] =>
           Granted(o.needs, tab[t].active)
=============================================================================
