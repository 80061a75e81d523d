--------------------------- MODULE PlatformCalls ---------------------------
(***************************************************************************)
(* The other calls of the five adapters: replies, comments, moderation,    *)
(* edits, deletions, visibility, listings.  Each is a few requests in turn,*)
(* and its caller, the comments' jobs or a user who clicks again, repeats  *)
(* one that failed.                                                        *)
(***************************************************************************)
EXTENDS Naturals, Sequences, PlatformErrors

CONSTANT MaxRepeats \* how often a call is made again
ASSUME PlatformCallsAssumption == MaxRepeats \in Nat

VARIABLES
  called,   \* the adapter's method
  atStep,   \* the request it is at; 0 when nobody is calling
  effects,  \* the changes it made at the platform
  rejected, \* the error the last call was rejected with
  told,     \* its write: unsent, answered, or its answer lost
  unheard,  \* the answer of an earlier call's write was lost
  declined, \* a write was answered 200 with success: false
  repeats

callVars == <<called, atStep, effects, rejected, told, unheard, declined, repeats>>

(* Each method: its requests, and what its write does when repeated: adds  *)
(* another, has nothing left to remove, or sets the same thing again.      *)
Method(requests, repeated) == [requests |-> requests, repeated |-> repeated]
OneWrite == <<"write">>

FacebookMethods ==
  [getPosts |-> Method(<<"read">>, "none"), getComments |-> Method(<<"read">>, "none"),
   replyToComment |-> Method(OneWrite, "adds"), createComment |-> Method(OneWrite, "adds"),
   deleteComment |-> Method(OneWrite, "removes"), hideComment |-> Method(OneWrite, "sets"),
   editPost |-> Method(OneWrite, "sets"), deletePost |-> Method(OneWrite, "removes")]

InstagramMethods ==
  [getPosts |-> Method(<<"read">>, "none"), getComments |-> Method(<<"read">>, "none"),
   replyToComment |-> Method(OneWrite, "adds"), createComment |-> Method(OneWrite, "adds"),
   deleteComment |-> Method(OneWrite, "removes"), hideComment |-> Method(OneWrite, "sets")]

(* The channel before the uploads; a video is edited from what it says now,*)
(* and one made public is read again.                                      *)
YouTubeMethods ==
  [getPosts |-> Method(<<"read", "read">>, "none"), editPost |-> Method(<<"read", "write">>, "sets"),
   deletePost |-> Method(OneWrite, "removes"), makeVideoPublic |-> Method(<<"write", "read">>, "sets"),
   getVideoPlatformState |-> Method(<<"read">>, "none")]

YouTubeCommentMethods ==
  [getComments |-> Method(<<"read">>, "none"), replyToComment |-> Method(OneWrite, "adds"),
   createComment |-> Method(OneWrite, "adds"), editComment |-> Method(OneWrite, "sets"),
   hideComment |-> Method(OneWrite, "sets"), deleteComment |-> Method(OneWrite, "removes")]

(* The edit is validated first, with an Error that is no PlatformError.    *)
PinterestMethods ==
  [getPosts |-> Method(<<"read">>, "none"), editPost |-> Method(<<"check", "write">>, "sets"),
   deletePost |-> Method(OneWrite, "removes")]

TikTokMethods ==
  [getPosts |-> Method(<<"read">>, "none"), getPublishPlatformState |-> Method(<<"read">>, "none"),
   cancelPublish |-> Method(OneWrite, "removes")]

MethodsOf == [FACEBOOK |-> FacebookMethods, INSTAGRAM |-> InstagramMethods, YOUTUBE |-> YouTubeMethods,
              PINTEREST |-> PinterestMethods, TIKTOK |-> TikTokMethods]
OnComments == {[platform |-> "YOUTUBE", name |-> n, does |-> YouTubeCommentMethods[n]] : n \in DOMAIN YouTubeCommentMethods}
AllMethods ==
  OnComments \cup UNION {{[platform |-> p, name |-> n, does |-> MethodsOf[p][n]] : n \in DOMAIN MethodsOf[p]}
                        : p \in DOMAIN MethodsOf}
-----------------------------------------------------------------------------
CallTypeOK ==
  /\ called \in AllMethods /\ atStep \in 0..Len(called.does.requests) /\ effects \in 0..(MaxRepeats + 1)
  /\ rejected \in Thrown /\ {unheard, declined} \subseteq BOOLEAN /\ told \in {"unsent", "lost", "answered"} /\ repeats \in 0..MaxRepeats
  /\ called.does.repeated = "none" => effects = 0
  /\ called.does.repeated \in {"removes", "sets"} => effects \in {0, 1}

CallInit ==
  /\ called \in AllMethods /\ atStep = 1 /\ effects = 0 /\ rejected = NoError
  /\ told = "unsent" /\ unheard = FALSE /\ declined = FALSE /\ repeats = 0

Request == IF atStep = 0 THEN "none" ELSE called.does.requests[atStep]
Proceed == atStep' = IF atStep = Len(called.does.requests) THEN 0 ELSE atStep + 1
Reject(error) == atStep' = 0 /\ rejected' = error

(* validatePinterestEdit.                                                  *)
Check ==
  /\ Request = "check"
  /\ \/ Proceed /\ UNCHANGED rejected
     \/ Reject(Fault("OTHER"))
  /\ UNCHANGED <<called, effects, told, unheard, declined, repeats>>

(* YouTube's getMyChannel and getVideoStatus make an empty list NOT_FOUND; *)
(* so may any platform by its status.                                      *)
ReadRequest ==
  /\ Request = "read"
  /\ \E o \in Outcomes(called.platform) :
       IF o.error = NoError THEN Proceed /\ UNCHANGED rejected ELSE Reject(o.error)
  /\ UNCHANGED <<called, effects, told, unheard, declined, repeats>>

(* success: false passes the schemas of Facebook and Instagram, and nobody *)
(* looks at it; TikTok's envelope is looked into.                          *)
MayDecline == called.platform \in {"FACEBOOK", "INSTAGRAM"} /\ called.does.repeated # "adds"

AfterWrite == IF called.does.repeated = "adds" THEN effects + 1 ELSE 1

Gone == called.does.repeated = "removes" /\ effects = 1

\* Mutant of WriteRequest: the status of the response is not looked at.
WriteRequestUnchecked ==
  /\ Request = "write"
  /\ \E o \in Outcomes(called.platform) :
       /\ Gone => ~o.does
       /\ effects' = IF o.does THEN AfterWrite ELSE effects
       /\ told' = IF o.error = NoError \/ o.refused THEN "answered" ELSE "lost"
       /\ IF told' = "answered" THEN Proceed /\ UNCHANGED rejected ELSE Reject(o.error)
  /\ UNCHANGED <<called, unheard, declined, repeats>>

(* What is gone cannot be removed again: the platform refuses.             *)
WriteRequest ==
  /\ Request = "write"
  /\ \/ \E o \in Outcomes(called.platform) :
          /\ Gone => ~o.does
          /\ effects' = IF o.does THEN AfterWrite ELSE effects
          /\ told' = IF o.error = NoError \/ o.refused THEN "answered" ELSE "lost"
          /\ IF o.error = NoError THEN Proceed /\ UNCHANGED rejected ELSE Reject(o.error)
          /\ UNCHANGED declined
     \/ /\ MayDecline /\ declined' = TRUE /\ told' = "answered" /\ Proceed
        /\ UNCHANGED <<effects, rejected>>
  /\ UNCHANGED <<called, unheard, repeats>>

(* A caller whose call failed makes it again, unless the kind of the error *)
(* tells it not to.                                                        *)
Repeat ==
  /\ atStep = 0 /\ rejected # NoError /\ rejected.kind \notin NonRetryableKinds /\ repeats < MaxRepeats
  /\ repeats' = repeats + 1 /\ atStep' = 1 /\ rejected' = NoError /\ told' = "unsent"
  /\ unheard' = (unheard \/ told = "lost")
  /\ UNCHANGED <<called, effects, declined>>

CallNext == Check \/ ReadRequest \/ WriteRequest \/ Repeat

CallSpec == CallInit /\ [][CallNext]_callVars
-----------------------------------------------------------------------------
(* A call that resolves has done what it says (unless Meta answered        *)
(* success: false, which the clients take for success); one that is        *)
(* rejected by an answer has done nothing, except making a video public,   *)
(* whose second request may fail; what is done twice or already was done   *)
(* by a call whose answer never came.                                      *)
CallsTellTheTruth ==
  atStep = 0 =>
    /\ rejected = NoError /\ called.does.repeated # "none" => effects > 0 \/ declined
    /\ rejected # NoError /\ told = "answered" /\ called.name # "makeVideoPublic" /\ effects > 0 => unheard
    /\ effects > 1 => unheard
    /\ rejected # NoError /\ told = "unsent" => effects = 0 \/ unheard
=============================================================================
