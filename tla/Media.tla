-------------------------------- MODULE Media --------------------------------
(***************************************************************************)
(* One media asset: its row, its file in S3, the posts it is attached to,  *)
(* the thumbnail job and the cleanup job.  Requests and jobs read the row, *)
(* work on the file, and write the row later; nothing locks the row.       *)
(***************************************************************************)
EXTENDS Naturals

CONSTANTS Editor,        \* requests of the API under way at a time
          ThumbTries,    \* attempts of generate-thumbnail, 3 in the code
          MaxS3Errors    \* bound on S3 errors and deaths

ASSUME MediaAssumption == ThumbTries \in Nat \ {0} /\ MaxS3Errors \in Nat

VARIABLES
  asset,       \* MediaAsset.status, "none" before and "gone" after its life
  video,       \* the file turned out to be a video
  file,        \* the original is in S3
  post,        \* the post it is attached to: none, draft, published
  editing,     \* what each request is in the middle of
  thumbJob,    \* the generate-thumbnail job in Redis
  thumbTry,
  sweeping,    \* cleanup-unused-media has the asset on its list
  s3Errors,
  quiet        \* no two of them met, none failed, nothing was confirmed twice

mediaVars == <<asset, video, file, post, editing, thumbJob, thumbTry, sweeping, s3Errors, quiet>>

Statuses == {"PENDING_UPLOAD", "PROCESSING", "READY", "FAILED",
             "DELETE_PENDING", "DELETE_FAILED", "ARCHIVED"}
Edits == {"idle", "confirm", "delete", "drop", "archive", "enqueue", "reenqueue"}

MediaTypeOK ==
  /\ asset \in Statuses \cup {"none", "gone"} /\ {video, file, sweeping, quiet} \subseteq BOOLEAN
  /\ post \in {"none", "draft", "published"} /\ editing \in [Editor -> Edits]
  /\ thumbJob \in {"none", "waiting", "read", "stored", "kept"} /\ thumbTry \in 0..ThumbTries
  /\ s3Errors \in 0..MaxS3Errors

MediaInit ==
  /\ asset = "none" /\ video \in BOOLEAN /\ file = FALSE /\ post = "none"
  /\ editing = [e \in Editor |-> "idle"] /\ thumbJob = "none" /\ thumbTry = 0
  /\ sweeping = FALSE /\ s3Errors = 0 /\ quiet = TRUE

There == asset \notin {"none", "gone"}
Idle(e) == editing[e] = "idle"
Edit(e, what) == editing' = [editing EXCEPT ![e] = what]
Busy == \/ \E e \in Editor : ~Idle(e)
        \/ thumbJob \in {"waiting", "read", "stored"} \/ sweeping
Meets == quiet' = (quiet /\ ~Busy)
S3Error == s3Errors < MaxS3Errors /\ s3Errors' = s3Errors + 1 /\ quiet' = FALSE
-----------------------------------------------------------------------------
(* createUpload, createMultipartUpload; the browser's PUT, uploadObject,   *)
(* or the parts of a multipart upload; abortMultipartUpload.               *)
CreateUpload ==
  /\ asset = "none" /\ asset' = "PENDING_UPLOAD"
  /\ UNCHANGED <<video, file, post, editing, thumbJob, thumbTry, sweeping, s3Errors, quiet>>

PutFile ==
  /\ asset = "PENDING_UPLOAD" /\ file' = TRUE
  /\ UNCHANGED <<asset, video, post, editing, thumbJob, thumbTry, sweeping, s3Errors, quiet>>

AbortUpload ==
  /\ asset = "PENDING_UPLOAD" /\ ~file /\ asset' = "gone" /\ Meets
  /\ UNCHANGED <<video, file, post, editing, thumbJob, thumbTry, sweeping, s3Errors>>

(* confirmUpload, whatever the status: the file is probed; a video goes to *)
(* PROCESSING and to the thumbnail job, an image is written back, READY.   *)
ConfirmUpload(e) ==
  /\ There /\ file /\ Idle(e)
  /\ IF video THEN asset' = "PROCESSING" /\ Edit(e, "enqueue")
     ELSE Edit(e, "confirm") /\ UNCHANGED asset
  /\ quiet' = (quiet /\ ~Busy /\ asset = "PENDING_UPLOAD")
  /\ UNCHANGED <<video, file, post, thumbJob, thumbTry, sweeping, s3Errors>>

StoreImage(e) ==
  /\ editing[e] = "confirm" /\ Edit(e, "idle")
  /\ \/ /\ There /\ asset' = "READY" /\ file' = file /\ UNCHANGED <<s3Errors, quiet>>
     \/ /\ ~There /\ UNCHANGED <<asset, s3Errors, quiet>> /\ file' = TRUE
     \/ S3Error /\ UNCHANGED <<asset, file>>
  /\ UNCHANGED <<video, post, thumbJob, thumbTry, sweeping>>

(* enqueueThumbnail: an id that Redis still keeps swallows the job, unless *)
(* it is removed first, which a running job refuses.  What cannot be       *)
(* queued is FAILED after confirmUpload, and left alone when regenerating. *)
EnqueueWith(e, force) ==
  /\ editing[e] \in {"enqueue", "reenqueue"} /\ Edit(e, "idle")
  /\ \/ /\ IF thumbJob = "none" \/ (force /\ editing[e] = "reenqueue" /\ thumbJob \in {"waiting", "kept"})
           THEN thumbJob' = "waiting" /\ thumbTry' = 0
           ELSE UNCHANGED <<thumbJob, thumbTry>>
        /\ UNCHANGED <<asset, s3Errors, quiet>>
     \/ /\ S3Error /\ UNCHANGED <<thumbJob, thumbTry>>
        /\ asset' = IF editing[e] = "enqueue" /\ There THEN "FAILED" ELSE asset
  /\ UNCHANGED <<video, file, post, sweeping>>

\* Mutant of EnqueueThumbnail: the kept job is not removed.
EnqueueUnforced(e) == EnqueueWith(e, FALSE)
EnqueueThumbnail(e) == EnqueueWith(e, TRUE)

RegenerateThumbnail(e) ==
  /\ There /\ video /\ asset # "ARCHIVED" /\ Idle(e)
  /\ asset' = "PROCESSING" /\ Edit(e, "reenqueue")
  /\ quiet' = (quiet /\ ~Busy /\ asset # "PENDING_UPLOAD")
  /\ UNCHANGED <<video, file, post, thumbJob, thumbTry, sweeping, s3Errors>>
-----------------------------------------------------------------------------
(* delete and archive look at the posts, then delete the file, then write  *)
(* the row; deleteUnused only marks the row.                               *)
StartDelete(e) ==
  /\ There /\ post = "none" /\ Idle(e) /\ Edit(e, "delete") /\ Meets
  /\ UNCHANGED <<asset, video, file, post, thumbJob, thumbTry, sweeping, s3Errors>>

StartArchive(e) ==
  /\ There /\ asset # "ARCHIVED" /\ post # "draft" /\ Idle(e) /\ Edit(e, "archive") /\ Meets
  /\ UNCHANGED <<asset, video, file, post, thumbJob, thumbTry, sweeping, s3Errors>>

DeleteFile(e) ==
  /\ editing[e] \in {"delete", "archive"} /\ file' = FALSE
  /\ \/ /\ editing[e] = "delete" /\ Edit(e, "drop") /\ UNCHANGED <<asset, s3Errors, quiet>>
     \/ /\ editing[e] = "archive" /\ Edit(e, "idle") /\ UNCHANGED <<s3Errors, quiet>>
        /\ asset' = IF There THEN "ARCHIVED" ELSE asset
     \/ /\ S3Error /\ Edit(e, "idle") /\ UNCHANGED asset    \* the thumbnail's delete failed
  /\ UNCHANGED <<video, post, thumbJob, thumbTry, sweeping>>

DropRow(e) ==
  /\ editing[e] = "drop" /\ Edit(e, "idle")
  /\ asset' = IF There THEN "gone" ELSE asset
  /\ post' = "none"                                    \* cascades
  /\ UNCHANGED <<video, file, thumbJob, thumbTry, sweeping, s3Errors, quiet>>

DeleteUnused ==
  /\ There /\ post = "none" /\ asset' = "DELETE_PENDING" /\ Meets
  /\ UNCHANGED <<video, file, post, editing, thumbJob, thumbTry, sweeping, s3Errors>>

(* A post takes only what is READY; then it is published, or deleted.      *)
Attach == /\ asset = "READY" /\ post = "none" /\ post' = "draft" /\ Meets
          /\ UNCHANGED <<asset, video, file, editing, thumbJob, thumbTry, sweeping, s3Errors>>

PostMoves == /\ post = "draft" /\ post' \in {"published", "none"} /\ Meets
             /\ UNCHANGED <<asset, video, file, editing, thumbJob, thumbTry, sweeping, s3Errors>>
-----------------------------------------------------------------------------
(* generate-thumbnail: what is gone, READY with a thumbnail, or no video   *)
(* is skipped; a failure makes the asset FAILED, attempts left or not.     *)
ThumbTake ==
  /\ thumbJob = "waiting"
  /\ IF There /\ video /\ asset # "READY"
     THEN /\ asset' = "PROCESSING" /\ thumbTry' = thumbTry + 1
          /\ thumbJob' = "read"
     ELSE thumbJob' = "kept" /\ UNCHANGED <<asset, thumbTry>>
  /\ UNCHANGED <<video, file, post, editing, sweeping, s3Errors, quiet>>

ThumbStore ==
  /\ thumbJob = "read"
  /\ \/ /\ file /\ There /\ asset' = "READY" /\ thumbJob' = "stored"
        /\ UNCHANGED <<s3Errors, quiet>>
     \/ /\ ~file /\ asset' = IF There THEN "FAILED" ELSE asset
        /\ thumbJob' = IF thumbTry = ThumbTries THEN "kept" ELSE "waiting"
        /\ UNCHANGED <<s3Errors, quiet>>
     \/ /\ S3Error /\ asset' = IF There THEN "FAILED" ELSE asset
        /\ thumbJob' = IF thumbTry = ThumbTries THEN "kept" ELSE "waiting"
  /\ UNCHANGED <<video, file, post, editing, thumbTry, sweeping>>

ThumbEnd ==
  /\ thumbJob = "stored" \/ (thumbJob = "read" /\ ~There)
  /\ thumbJob' = "kept"
  /\ UNCHANGED <<asset, video, file, post, editing, thumbTry, sweeping, s3Errors, quiet>>

(* cleanup-unused-media: abandoned uploads are marked too; the listed rows *)
(* lose their files and go, however they have changed since the listing.   *)
Sweep ==
  /\ ~sweeping /\ asset \in {"PENDING_UPLOAD", "DELETE_PENDING", "DELETE_FAILED"}
  /\ asset' = IF asset = "PENDING_UPLOAD" THEN "DELETE_PENDING" ELSE asset
  /\ sweeping' = TRUE /\ Meets
  /\ UNCHANGED <<video, file, post, editing, thumbJob, thumbTry, s3Errors>>

SweepAsset ==
  /\ sweeping /\ sweeping' = FALSE
  /\ \/ /\ file' = FALSE /\ asset' = "gone" /\ post' = "none" /\ UNCHANGED <<s3Errors, quiet>>
     \/ /\ S3Error /\ file' \in {file, FALSE} /\ UNCHANGED post
        /\ asset' = IF There THEN "DELETE_FAILED" ELSE asset
  /\ UNCHANGED <<video, editing, thumbJob, thumbTry>>

MediaNext ==
  \/ CreateUpload \/ PutFile \/ AbortUpload \/ DeleteUnused \/ Attach \/ PostMoves
  \/ \E e \in Editor : \/ ConfirmUpload(e) \/ StoreImage(e) \/ EnqueueThumbnail(e)
                       \/ RegenerateThumbnail(e) \/ StartDelete(e) \/ StartArchive(e)
                       \/ DeleteFile(e) \/ DropRow(e)
  \/ ThumbTake \/ ThumbStore \/ ThumbEnd \/ Sweep \/ SweepAsset

MediaSpec == MediaInit /\ [][MediaNext]_mediaVars
-----------------------------------------------------------------------------
(* Left to itself each operation keeps row and file together: what the     *)
(* library offers as READY, and what a post still has to publish, is there *)
(* (the thumbnail may be being made again).                                *)
ReadyHasFile == quiet /\ asset = "READY" /\ ~Busy => file
DraftKeepsItsMedia == quiet /\ post = "draft" => file /\ asset \in {"READY", "PROCESSING"}

(* Left to itself a video is never PROCESSING with no job to process it.   *)
ProcessingIsProcessed ==
  quiet /\ asset = "PROCESSING" => Busy

(* Rows, files and jobs of the library agree while operations do not meet. *)
LibraryAgrees == ReadyHasFile /\ DraftKeepsItsMedia /\ ProcessingIsProcessed
=============================================================================
