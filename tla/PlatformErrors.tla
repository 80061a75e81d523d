--------------------------- MODULE PlatformErrors ---------------------------
(* What a call to a platform can come to, and the error its client throws. *)
EXTENDS ErrorPolicy

(* An HTTP refusal: its status, the platform's own code in the body, and   *)
(* what the platform means: the same call may work later, or never.        *)
Refusals ==
  {[status |-> s, code |-> "none", meant |-> "later"] : s \in {429, 500}}
    \cup {[status |-> s, code |-> "none", meant |-> "never"] : s \in {400, 401, 403, 404}}
    \cup {[status |-> 400, code |-> c, meant |-> "never"] : c \in {"auth", "permission", "missing"}}
    \cup {[status |-> 400, code |-> "rate", meant |-> "later"],
          [status |-> 403, code |-> "rate", meant |-> "later"],
          [status |-> 403, code |-> "quota", meant |-> "later"]}

(* Which codes each client looks at: Meta's numbers, Google's reasons,     *)
(* TikTok's names; Pinterest has the status alone.                         *)
CodesRead(p) ==
  CASE p = "FACEBOOK"  -> {"none", "auth", "permission", "rate", "missing"}
    [] p = "INSTAGRAM" -> {"none", "auth", "permission", "rate"}
    [] p = "YOUTUBE"   -> {"none", "auth", "quota"}
    [] p = "TIKTOK"    -> {"none", "auth", "permission", "rate"}
    [] p = "PINTEREST" -> {"none"}

\* Mutant of ErrorKind: only the status is looked at, never the code.
ErrorKindByStatus(r) ==
  CASE r.status = 400                          -> "VALIDATION"
    [] r.status = 401                          -> "AUTH_INVALID"
    [] r.status = 403                          -> "PERMISSION_DENIED"
    [] r.status = 404                          -> "NOT_FOUND"
    [] r.status = 429                          -> "RATE_LIMITED"
    [] r.status = 500                          -> "PLATFORM_ERROR"

(* map...ErrorKind; the order of the tests matters for 400 and 403: Meta's *)
(* and TikTok's clients take every 403 for a missing permission, a rate    *)
(* limit that comes with that status included; Google's reads quota first. *)
ErrorKind(r) ==
  CASE r.status = 400 /\ r.code = "missing"    -> "NOT_FOUND"
    [] r.status = 401 \/ r.code = "auth"       -> "AUTH_INVALID"
    [] r.code = "permission"                   -> "PERMISSION_DENIED"
    [] r.status = 403 /\ r.code # "quota"      -> "PERMISSION_DENIED"
    [] \/ r.status = 429 \/ r.code = "quota"
       \/ r.code = "rate" /\ r.status # 403  -> "RATE_LIMITED"
    [] r.status = 404                          -> "NOT_FOUND"
    [] r.status = 500                          -> "PLATFORM_ERROR"
    [] r.status = 400 /\ r.code = "none"       -> "VALIDATION"

(* A PlatformError: its kind, the status it carries (0 when there was no   *)
(* refusal), and what the platform meant.                                  *)
Fault(k)   == [kind |-> k, status |-> 0, meant |-> "nothing"]
Refused(r) == [kind |-> ErrorKind(r), status |-> r.status, meant |-> r.meant]
NoError    == Fault("none")
Thrown     == [kind : Errors \cup {"none"}, status : {0, 400, 401, 403, 404, 429, 500},
               meant : {"later", "never", "nothing"}]

(* What a call can come to: whether it did its work, the error the client  *)
(* throws, and whether the platform refused it.  A timeout is NETWORK; a   *)
(* body the schema does not accept is PLATFORM_ERROR; response.text() is   *)
(* outside the try, so a body cut off in the middle is no PlatformError.   *)
Outcomes(p) ==
  {[does |-> TRUE, refused |-> FALSE, error |-> NoError]}
    \cup {[does |-> FALSE, refused |-> TRUE, error |-> Refused(r)] :
             r \in {q \in Refusals : q.code \in CodesRead(p)}}
    \cup {[does |-> b, refused |-> FALSE, error |-> Fault(k)] :
             b \in BOOLEAN, k \in {"NETWORK", "PLATFORM_ERROR", "OTHER"}}
=============================================================================
