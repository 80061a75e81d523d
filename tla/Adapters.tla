------------------------------- MODULE Adapters -------------------------------
(***************************************************************************)
(* publishPost of the five adapters of packages/platform-adapters: the     *)
(* remote calls it makes, in their order, and the error it throws.  Media  *)
(* that the platform wants first (a container, an unpublished photo, an    *)
(* upload session, the chunks before the last) are parts; one call then    *)
(* makes the post, and some ways of publishing make one more call after    *)
(* that.  A call may be refused, may be done and its answer lost, and its  *)
(* answer may be one the client's schema does not accept.                  *)
(***************************************************************************)
EXTENDS Naturals, PlatformErrors

CONSTANTS Part,      \* the media of a post with several of them
          MaxLooks   \* how often the state of a part is asked for
ASSUME AdaptersAssumption == Part # {} /\ "whole" \notin Part /\ MaxLooks \in Nat \ {0}

Whole == "whole"     \* the only part, or the carousel built from the others
AllParts == Part \cup {Whole}

(* What publishPost branches on: the platform, the media and the options.  *)
Ways == {"fbVideo", "fbPhoto", "fbFeed", "igImage", "igVideo", "igCarousel",
         "pinImage", "pinVideo", "ytVideo", "ttVideo", "ttPhoto"}

PlatformOf(w) ==
  CASE w \in {"fbVideo", "fbPhoto", "fbFeed"}       -> "FACEBOOK"
    [] w \in {"igImage", "igVideo", "igCarousel"}   -> "INSTAGRAM"
    [] w \in {"pinImage", "pinVideo"}               -> "PINTEREST"
    [] w = "ytVideo"                                -> "YOUTUBE"
    [] w \in {"ttVideo", "ttPhoto"}                 -> "TIKTOK"

PartsOf(w) ==
  CASE w = "fbFeed"                                        -> Part
    [] w = "igCarousel"                                    -> AllParts
    [] w \in {"igImage", "igVideo", "pinVideo", "ytVideo", "ttVideo"} -> {Whole}
    [] w \in {"fbVideo", "fbPhoto", "pinImage", "ttPhoto"} -> {}

(* Parts the platform works on after it has taken them, and the ways that  *)
(* wait until it is done.                                                  *)
Processed == {"igImage", "igVideo", "igCarousel", "pinVideo"}

Waited == {"igVideo", "igCarousel", "pinVideo"}

(* The call after the post exists: getMedia, setVideoThumbnail (whose      *)
(* error is only logged), setThumbnail.                                    *)
Following == {"igImage", "igVideo", "igCarousel", "ytVideo", "fbVideo"}

Swallowing == {"fbVideo"}
-----------------------------------------------------------------------------
VARIABLES way,     \* how this post is published
          held,    \* the part at the platform
          part,    \* the part as publishPost knows it
          looks,   \* the times its state was asked for
          posted,  \* whether the post exists
          doing,   \* "prepare", "follow" or "over"
          thrown,  \* the error publishPost rejects with
          sure,    \* the answer of the call that makes the post arrived
          early    \* that call was made before the parts were there
adapterVars == <<way, held, part, looks, posted, doing, thrown, sure, early>>

AdapterTypeOK ==
  /\ way \in Ways
  /\ held \in [AllParts -> {"absent", "processing", "finished", "broken"}]
  /\ part \in [AllParts -> {"absent", "waiting", "ready", "failed"}]
  /\ looks \in [AllParts -> 0 .. MaxLooks]
  /\ posted \in BOOLEAN /\ sure \in BOOLEAN /\ early \in BOOLEAN
  /\ doing \in {"prepare", "follow", "over"}
  /\ thrown \in Thrown
  /\ (doing = "prepare") => (thrown = NoError)

AdapterInit ==
  /\ way \in Ways
  /\ held = [p \in AllParts |-> "absent"]
  /\ part = [p \in AllParts |-> "absent"]
  /\ looks = [p \in AllParts |-> 0]
  /\ posted = FALSE /\ doing = "prepare" /\ thrown = NoError
  /\ sure = TRUE /\ early = FALSE
-----------------------------------------------------------------------------
\* Mutant of RejectWith: the error is kept and the calls go on.
RejectAndGoOn(e) == thrown' = e /\ UNCHANGED doing

(* The parts go up together (Promise.all): the first failure rejects       *)
(* publishPost, the others carry on and nobody hears of them.              *)
RejectWith(e) ==
  /\ doing' = "over"
  /\ thrown' = IF doing = "over" THEN thrown ELSE e

(* createMediaContainer, uploadPagePhoto(published: false), the upload to  *)
(* Pinterest's storage, YouTube's session, TikTok's first chunks.          *)
PutPart(p) ==
  /\ p \in PartsOf(way) /\ part[p] = "absent"
  /\ p = Whole => \A q \in PartsOf(way) \ {Whole} : part[q] = "ready"
  /\ \E o \in Outcomes(PlatformOf(way)) :
       /\ held' = IF o.does
                    THEN [held EXCEPT ![p] = IF way \in Processed THEN "processing"
                                                                  ELSE "finished"]
                    ELSE held
       /\ IF o.error = NoError
            THEN /\ part' = [part EXCEPT ![p] = IF way \in Waited THEN "waiting" ELSE "ready"]
                 /\ UNCHANGED <<doing, thrown>>
            ELSE part' = [part EXCEPT ![p] = "failed"] /\ RejectWith(o.error)
  /\ UNCHANGED <<way, looks, posted, sure, early>>

(* The platform finishes its work on a part, or cannot.                    *)
Process(p) ==
  /\ held[p] = "processing"
  /\ \E s \in {"finished", "broken"} : held' = [held EXCEPT ![p] = s]
  /\ UNCHANGED <<way, part, looks, posted, doing, thrown, sure, early>>

(* waitUntilContainerReady, waitForVideoUpload: one look at the state.     *)
(* Both a broken part and the last look that finds it unfinished (asking   *)
(* to come back later: CONTAINER_NOT_READY) throw a VALIDATION error on    *)
(* Instagram and a plain Error on Pinterest.                               *)
GivingUp(p) ==
  [kind   |-> IF PlatformOf(way) = "PINTEREST" THEN "OTHER" ELSE "VALIDATION",
   status |-> 0,
   meant  |-> IF held[p] = "processing" THEN "later" ELSE "nothing"]

LookAt(p) ==
  /\ part[p] = "waiting"
  /\ looks' = [looks EXCEPT ![p] = @ + 1]
  /\ \/ /\ held[p] = "finished"
        /\ part' = [part EXCEPT ![p] = "ready"]
        /\ UNCHANGED <<doing, thrown>>
     \/ /\ held[p] = "processing" /\ looks'[p] < MaxLooks
        /\ UNCHANGED <<part, doing, thrown>>
     \/ /\ held[p] = "broken" \/ (held[p] = "processing" /\ looks'[p] = MaxLooks)
        /\ part' = [part EXCEPT ![p] = "failed"]
        /\ RejectWith(GivingUp(p))
     \/ \E o \in Outcomes(PlatformOf(way)) :
          /\ o.error # NoError
          /\ part' = [part EXCEPT ![p] = "failed"]
          /\ RejectWith(o.error)
  /\ UNCHANGED <<way, held, posted, sure, early>>

(* The call that makes the post: the feed, photo or video post, the        *)
(* media_publish, the Pin, the bytes, the last chunk, the photo init.  A   *)
(* platform that is still busy with a part refuses.                        *)
MakePost ==
  /\ doing = "prepare"
  /\ \A p \in PartsOf(way) : part[p] = "ready"
  /\ LET there == \A p \in PartsOf(way) : held[p] = "finished"
     IN  \E o \in Outcomes(PlatformOf(way)) :
           /\ o.does => there
           /\ early' = ~there
           /\ posted' = o.does
           /\ sure' = (o.error = NoError \/ o.refused)
           /\ IF o.error = NoError
                THEN /\ doing' = IF way \in Following THEN "follow" ELSE "over"
                     /\ UNCHANGED thrown
                ELSE RejectWith(o.error)
  /\ UNCHANGED <<way, held, part, looks>>

(* The permalink is read, or the thumbnail set, after the post exists.     *)
FollowUp ==
  /\ doing = "follow"
  /\ \E o \in Outcomes(PlatformOf(way)) :
       IF o.error = NoError \/ way \in Swallowing
         THEN doing' = "over" /\ UNCHANGED thrown
         ELSE RejectWith(o.error)
  /\ UNCHANGED <<way, held, part, looks, posted, sure, early>>

AdapterNext ==
  \/ \E p \in AllParts : PutPart(p) \/ Process(p) \/ LookAt(p)
  \/ MakePost \/ FollowUp

AdapterSpec == AdapterInit /\ [][AdapterNext]_adapterVars
-----------------------------------------------------------------------------
(* publishPost asks for the post only when the platform has every part of  *)
(* it, a single Instagram image excepted, whose container it does not wait *)
(* for: the worker would take the refusal for a fault of the post.         *)
NeverAskedTooEarly == early => way = "igImage"

(* The worker repeats a publication that failed, so a failure must mean    *)
(* that there is no post: it does on every way with nothing to do after    *)
(* the post exists, and on Facebook's, which only logs a lost thumbnail,   *)
(* unless the answer that named the post was itself lost.                  *)
FailureMeansNoPost ==
  (thrown # NoError /\ way \notin Following \ {"fbVideo"}) => (sure => ~posted)

(* Two answers that ask to come back later are taken for a fault of the    *)
(* post and never tried again: a rate limit sent with 403 on Facebook,     *)
(* Instagram and TikTok, and an Instagram container that is not ready yet. *)
TakenForAFault(e, platform) ==
  \/ /\ platform \in {"FACEBOOK", "INSTAGRAM", "TIKTOK"}
     /\ e.status = 403 /\ e.kind = "PERMISSION_DENIED"
  \/ /\ platform = "INSTAGRAM"
     /\ e.status = 0 /\ e.kind = "VALIDATION"

(* What the platform says will never work is not tried again, and what it  *)
(* asks to try later is, those two excepted: the kind each client gives to *)
(* a refusal sends the error policy the way the platform meant.            *)
RefusalsAreUnderstood ==
  /\ thrown.meant = "never" => thrown.kind \in NonRetryableKinds
  /\ thrown.meant = "later" =>
       thrown.kind \notin NonRetryableKinds \/ TakenForAFault(thrown, PlatformOf(way))

(* What publishPost throws tells the worker what it may do next.           *)
ErrorsTellTheWorker == NeverAskedTooEarly /\ FailureMeansNoPost /\ RefusalsAreUnderstood
=============================================================================
