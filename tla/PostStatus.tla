----------------------------- MODULE PostStatus -----------------------------
(***************************************************************************)
(* The pure functions on post statuses of packages/shared/src/post-status  *)
(* .ts.  A content post has one platform post ("child") per social account *)
(* and its own status is derived from theirs.  The code only ever asks     *)
(* whether some or every child has a status, so what it derives depends on *)
(* the SET of statuses present among the children.                         *)
(***************************************************************************)

PostStatuses ==
  {"DRAFT", "SCHEDULED", "QUEUED", "PROCESSING", "PUBLISHED",
   "PARTIALLY_PUBLISHED", "FAILED", "CANCELLED"}

PlatformPostStatuses ==
  {"PENDING", "QUEUED", "PROCESSING", "PUBLISHED", "FAILED", "CANCELLED",
   "DELETED", "REMOTE_RESULT_UNKNOWN"}

(* Children the user withdrew; the derivation looks past them.             *)
Withdrawn == {"CANCELLED", "DELETED"}

Settled == {"PUBLISHED", "FAILED"}

TerminalPlatformPostStatuses == {"PUBLISHED", "CANCELLED", "DELETED"}

(* Mutant of the next definition: the withdrawn children are counted too.  *)
DeriveKeepingWithdrawn(present) ==
  CASE present = {}                               -> "DRAFT"
    [] present # {} /\ present \subseteq Withdrawn -> "CANCELLED"
    [] present = {"PUBLISHED"}                    -> "PUBLISHED"
    [] present = {"FAILED"}                       -> "FAILED"
    [] present = Settled                          -> "PARTIALLY_PUBLISHED"
    [] OTHER -> IF "PROCESSING" \in present THEN "PROCESSING" ELSE "QUEUED"

(* deriveContentPostStatus: present is the set of the children's statuses. *)
DeriveContentPostStatus(present) ==
  LET active  == present \ Withdrawn
      running == active \cap {"REMOTE_RESULT_UNKNOWN", "PROCESSING"}
  IN  CASE present = {}                                -> "DRAFT"
        [] present # {} /\ active = {}                 -> "CANCELLED"
        [] active = {"PUBLISHED"}                      -> "PUBLISHED"
        [] active = {"FAILED"}                         -> "FAILED"
        [] active = Settled                            -> "PARTIALLY_PUBLISHED"
        [] ~(active \subseteq Settled) /\ running # {} -> "PROCESSING"
        [] ~(active \subseteq Settled) /\ running = {} -> "QUEUED"
=============================================================================
