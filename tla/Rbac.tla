-------------------------------- MODULE Rbac --------------------------------
(***************************************************************************)
(* The roles of a workspace and what each may do (rbac.ts), which the API  *)
(* and the web pages share.                                                *)
(***************************************************************************)
EXTENDS Naturals

Rank == [VIEWER |-> 1, ANALYST |-> 2, EDITOR |-> 3, ADMIN |-> 4, OWNER |-> 5]
Roles == DOMAIN Rank

\* ROLE_PERMISSIONS: each role's permissions include those before it.
ViewerPermissions == {"workspace:view", "member:view", "social_account:view", "post:view",
                      "media:view", "comment:view", "analytics:view", "notification:view"}
EditorPermissions == ViewerPermissions \cup
  {"post:create", "post:update", "post:delete", "post:publish", "post:schedule", "media:upload",
   "media:delete", "comment:reply", "comment:assign", "social_account:sync"}
AdminPermissions == EditorPermissions \cup
  {"workspace:update", "member:invite", "member:remove", "member:change_role",
   "social_account:connect", "social_account:disconnect", "comment:moderate", "audit_log:view"}
Permissions == [VIEWER |-> ViewerPermissions, ANALYST |-> ViewerPermissions,
                EDITOR |-> EditorPermissions, ADMIN |-> AdminPermissions,
                OWNER |-> AdminPermissions \cup {"workspace:delete", "workspace:transfer_ownership"}]
=============================================================================
