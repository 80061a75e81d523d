----------------------------- MODULE ErrorPolicy -----------------------------
(***************************************************************************)
(* decideOnError of apps/worker/src/queue/error-policy.ts: what a failed   *)
(* attempt of a job leads to.  An error is a kind of PlatformError, the    *)
(* missing-proxy configuration error, or anything else (Prisma, storage,   *)
(* a TypeError), which is "OTHER".                                         *)
(***************************************************************************)
EXTENDS Integers

PlatformErrorKinds ==
  {"AUTH_INVALID", "AUTH_EXPIRED", "PERMISSION_DENIED", "RATE_LIMITED",
   "VALIDATION", "NOT_FOUND", "CAPABILITY_UNSUPPORTED", "PLATFORM_ERROR",
   "NETWORK", "UNKNOWN"}

NonRetryableKinds ==
  {"AUTH_INVALID", "PERMISSION_DENIED", "VALIDATION", "NOT_FOUND",
   "CAPABILITY_UNSUPPORTED"}

Errors == PlatformErrorKinds \cup {"PROXY_CONFIGURATION_MISSING", "OTHER"}

(* Errors for which the policy always ends the job, whatever the attempt.  *)
FatalErrors == NonRetryableKinds \cup {"PROXY_CONFIGURATION_MISSING"}

(* The action of the decision; attempt counts from 1.                      *)
ActionOnError(e, attempt, maxAttempts) ==
  IF e \in FatalErrors \/ attempt >= maxAttempts THEN "FAIL_PERMANENTLY"
                                                 ELSE "RETRY"

(* decision.markAccountDisconnected                                        *)
DisconnectsAccount(e) == e = "AUTH_INVALID"
=============================================================================
