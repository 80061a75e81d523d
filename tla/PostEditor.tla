----------------------------- MODULE PostEditor -----------------------------
(***************************************************************************)
(* Writing a post: the pages posts/new and posts/[id]/edit, the panels of  *)
(* the targets (platform-composer-panels.tsx, platform-composer-options.ts)*)
(* and the server's side of what they save (create and update of           *)
(* posts.service.ts, with the texts that PostsApi leaves out).  One text   *)
(* stands for title, body and link; a target that is not customised says   *)
(* the common text.  One editor works on one post.                         *)
(***************************************************************************)
EXTENDS Naturals, FiniteSets

CONSTANTS EditTarget,    \* social accounts a post can go to
          AlwaysOptions, \* those whose panel always sends some option
          Texts,         \* what can be typed, beside nothing
          Pictures,      \* media assets
          MaxTouches, MaxSaves  \* bounds on what the user does

ASSUME PostEditorAssumption ==
  AlwaysOptions \subseteq EditTarget /\ "" \notin Texts /\ {MaxTouches, MaxSaves} \subseteq Nat

VARIABLES
  article,  \* the contentPost row: status, body, media
  rows,     \* the platformPost row of each target
  live,     \* what the platform shows under each published target
  form,     \* the page that is open: common text, media, chosen targets
  draft,    \* its platformOverrides
  library,  \* of each media asset: none, PROCESSING or READY
  cover,    \* an upload of a cover image that has not answered
  saving,   \* the request being served
  revived,  \* media that a late cover upload seeded again
  touches, saves

editorVars == <<article, rows, live, form, draft, library, cover, saving, revived, touches, saves>>

Blank == ""
NoPicture == "no picture"
CoverImage == "cover image"
Closed == [page |-> "closed", body |-> Blank, media |-> {}, chosen |-> {}]
NoRow == [status |-> "none", text |-> Blank, media |-> {}, options |-> FALSE, thumb |-> NoPicture]
NoUpload == [on |-> FALSE, target |-> CHOOSE t \in EditTarget : TRUE, common |-> [body |-> Blank, media |-> {}]]
NotSaving == [at |-> "none", body |-> Blank, media |-> {}, chosen |-> {}, sent |-> <<>>, todo |-> {}, shown |-> <<>>]
EmptyOverride == [customized |-> FALSE, text |-> Blank, media |-> {}, thumb |-> NoPicture]
Thumbs == Pictures \cup {NoPicture, CoverImage}

EditorTypeOK ==
  /\ article.status \in {"none", "DRAFT", "PUBLISHED"} /\ article.body \in Texts \cup {Blank}
  /\ rows \in [EditTarget -> [status : {"none", "PENDING", "FAILED", "PUBLISHED"}, text : Texts \cup {Blank},
                              media : SUBSET Pictures, options : BOOLEAN, thumb : Thumbs]]
  /\ live \in [EditTarget -> Texts \cup {Blank}]
  /\ draft \in [EditTarget -> [customized : BOOLEAN, text : Texts \cup {Blank}, media : SUBSET Pictures, thumb : Thumbs]]
  /\ form.page \in {"closed", "new", "draft", "published"} /\ form.chosen \subseteq EditTarget
  /\ saving.at \in {"none", "server", "remote"} /\ DOMAIN saving.sent \subseteq saving.chosen
  /\ \A t \in EditTarget : rows[t].status = "PUBLISHED" => article.status = "PUBLISHED"

EditorInit ==
  /\ article = [status |-> "none", body |-> Blank, media |-> {}]
  /\ rows = [t \in EditTarget |-> NoRow] /\ live = [t \in EditTarget |-> Blank]
  /\ form = Closed /\ draft = [t \in EditTarget |-> EmptyOverride]
  /\ library = [p \in Pictures |-> "none"] /\ cover = NoUpload /\ saving = NotSaving
  /\ revived = {} /\ touches = 0 /\ saves = 0
-----------------------------------------------------------------------------
(* platform-composer-options.ts.                                           *)
FromCommon(common) ==
  [EmptyOverride EXCEPT !.customized = TRUE, !.text = common.body, !.media = common.media]

FromOptions(row) ==
  [customized |-> row.text # Blank \/ row.media # {} \/ row.options,
   text |-> row.text, media |-> row.media, thumb |-> row.thumb]

FillMissing(d, common) ==
  IF ~d.customized THEN d
  ELSE [d EXCEPT !.text = IF @ = Blank THEN common.body ELSE @,
                 !.media = IF @ = {} THEN common.media ELSE @]

PlatformOptions(t, d) == d.thumb # NoPicture \/ (d.customized /\ t \in AlwaysOptions)

IsActive(t, d) == PlatformOptions(t, d) \/ (d.customized /\ (d.text # Blank \/ d.media # {}))

Entry(t, d, withMedia) ==
  [text |-> d.text, media |-> IF withMedia THEN d.media ELSE {},
   options |-> PlatformOptions(t, d), thumb |-> d.thumb]

(* buildPlatformOverridePayload, with its filter of empty entries.         *)
OverridePayload(withMedia) ==
  LET Says(t) == IsActive(t, draft[t]) /\ \/ draft[t].text # Blank \/ PlatformOptions(t, draft[t])
                                          \/ withMedia /\ draft[t].media # {}
  IN [t \in {x \in form.chosen : Says(x)} |-> Entry(t, draft[t], withMedia)]

Touch == touches < MaxTouches /\ touches' = touches + 1
server == <<article, rows, live, saving, saves>>
-----------------------------------------------------------------------------
OpenNew ==
  /\ form.page = "closed" /\ article.status = "none" /\ saving.at = "none"
  /\ form' = [Closed EXCEPT !.page = "new"] /\ draft' = [t \in EditTarget |-> EmptyOverride]
  /\ UNCHANGED <<server, library, cover, revived, touches>>

OpenEdit ==
  /\ form.page = "closed" /\ article.status # "none" /\ saving.at = "none" /\ Touch
  /\ form' = [page |-> IF article.status = "DRAFT" THEN "draft" ELSE "published", body |-> article.body,
              media |-> article.media, chosen |-> {t \in EditTarget : rows[t].status # "none"}]
  /\ draft' = [t \in EditTarget |-> FillMissing(FromOptions(rows[t]), article)]
  /\ UNCHANGED <<server, library, cover, revived>>

TypeBody(text) ==
  /\ form.page # "closed" /\ text # form.body /\ Touch /\ form' = [form EXCEPT !.body = text]
  /\ UNCHANGED <<server, draft, library, cover, revived>>

ToggleAccount(t) ==
  /\ form.page \in {"new", "draft"} /\ Touch
  /\ form' = [form EXCEPT !.chosen = IF t \in @ THEN @ \ {t} ELSE @ \cup {t}]
  /\ UNCHANGED <<server, draft, library, cover, revived>>

(* The draft a patch is applied to: the first customising patch starts     *)
(* from the common content.                                                *)
Seeded(t, customizes, common) ==
  IF customizes /\ ~draft[t].customized THEN FromCommon(common) ELSE draft[t]

Reset(t) ==
  /\ form.page # "closed" /\ t \in form.chosen /\ draft[t].customized /\ Touch
  /\ draft' = [draft EXCEPT ![t].customized = FALSE]
  /\ UNCHANGED <<server, form, library, cover, revived>>

Customize(t) ==
  /\ form.page # "closed" /\ t \in form.chosen /\ ~draft[t].customized /\ Touch
  /\ draft' = [draft EXCEPT ![t] = Seeded(t, TRUE, form)]
  /\ UNCHANGED <<server, form, library, cover, revived>>

TypeOverride(t, text) ==
  /\ form.page # "closed" /\ t \in form.chosen /\ draft[t].customized /\ draft[t].text # text /\ Touch
  /\ draft' = [draft EXCEPT ![t].text = text]
  /\ UNCHANGED <<server, form, library, cover, revived>>

SelectMedia(t, p) ==
  /\ form.page \in {"new", "draft"} /\ t \in form.chosen /\ draft[t].customized /\ p \in form.media /\ Touch
  /\ draft' = [draft EXCEPT ![t].media = IF p \in @ THEN @ \ {p} ELSE @ \cup {p}]
  /\ UNCHANGED <<server, form, library, cover, revived>>

SelectCover(t, p) ==
  /\ form.page # "closed" /\ t \in form.chosen /\ draft[t].customized /\ draft[t].thumb # p
  /\ p \in form.media \cup {CoverImage, NoPicture} /\ Touch
  /\ draft' = [draft EXCEPT ![t].thumb = p]
  /\ UNCHANGED <<server, form, library, cover, revived>>

(* The upload answers to the function of the render it was started in,     *)
(* which seeds from the content of that time.                              *)
UploadCover(t) ==
  /\ form.page # "closed" /\ t \in form.chosen /\ draft[t].customized /\ ~cover.on /\ Touch
  /\ cover' = [on |-> TRUE, target |-> t, common |-> [body |-> form.body, media |-> form.media]]
  /\ UNCHANGED <<server, form, draft, library, revived>>

CoverUploaded ==
  LET t == cover.target IN
  /\ cover.on /\ cover' = NoUpload
  /\ IF form.page = "closed" THEN UNCHANGED <<draft, revived>>
     ELSE /\ draft' = [draft EXCEPT ![t] = [Seeded(t, TRUE, cover.common) EXCEPT !.customized = TRUE,
                                                                                 !.thumb = CoverImage]]
          /\ revived' = revived \cup (draft'[t].media \ form.media)
  /\ UNCHANGED <<server, form, library, touches>>

(* uploadMedia of posts/new: images are READY at once, videos after a job. *)
UploadMedia(p) ==
  /\ form.page = "new" /\ library[p] = "none" /\ Touch
  /\ library' \in {[library EXCEPT ![p] = s] : s \in {"PROCESSING", "READY"}}
  /\ form' = [form EXCEPT !.media = @ \cup {p}]
  /\ UNCHANGED <<server, draft, cover, revived>>

ThumbnailDone(p) ==
  /\ library[p] = "PROCESSING" /\ library' = [library EXCEPT ![p] = "READY"]
  /\ UNCHANGED <<server, form, draft, cover, revived, touches>>

AddMedia(p) ==
  /\ \/ form.page = "new" /\ library[p] = "READY"
     \/ form.page = "draft" /\ p \in article.media
  /\ p \notin form.media /\ Touch /\ form' = [form EXCEPT !.media = @ \cup {p}]
  /\ UNCHANGED <<server, draft, library, cover, revived>>

\* Mutant of RemoveMedia: the panels of the targets are forgotten.
RemoveMediaHere(p) ==
  /\ form.page \in {"new", "draft"} /\ p \in form.media /\ Touch
  /\ form' = [form EXCEPT !.media = @ \ {p}]
  /\ UNCHANGED <<server, draft, library, cover, revived>>

RemoveMedia(p) ==
  /\ form.page \in {"new", "draft"} /\ p \in form.media /\ Touch
  /\ form' = [form EXCEPT !.media = @ \ {p}]
  /\ draft' = [t \in EditTarget |-> [draft[t] EXCEPT !.media = @ \ {p},
                                                      !.thumb = IF @ = p THEN NoPicture ELSE @]]
  /\ UNCHANGED <<server, library, cover, revived>>

(* What the page tells the user each chosen target will say; a target set  *)
(* back to the common content that still has a thumbnail is left out, for  *)
(* platformOptions sends its old text with the thumbnail.                  *)
Told(t) == IF draft[t].customized /\ draft[t].text # Blank THEN draft[t].text ELSE form.body

Save ==
  LET published == form.page = "published" IN
  /\ form.page # "closed" /\ saving.at = "none" /\ saves < MaxSaves
  /\ saving' = [at |-> "server", body |-> form.body, media |-> form.media, chosen |-> form.chosen,
                sent |-> OverridePayload(~published), todo |-> {},
                shown |-> [t \in {x \in form.chosen : Told(x) # Blank /\ (draft[x].customized \/ draft[x].thumb = NoPicture)}
                             |-> Told(t)]]
  /\ UNCHANGED <<article, rows, live, form, draft, library, cover, revived, touches, saves>>
-----------------------------------------------------------------------------
(* The server: create, or update of a post that is not published.          *)
SaveRefused ==
  /\ saving.at # "none" /\ saving' = NotSaving
  /\ UNCHANGED <<article, rows, live, form, draft, library, cover, revived, touches, saves>>

Ready == \A p \in saving.media \cup UNION {saving.sent[t].media : t \in DOMAIN saving.sent} : library[p] = "READY"

ReplacedRow(t) ==
  IF t \notin saving.chosen THEN NoRow
  ELSE IF t \in DOMAIN saving.sent
       THEN [status |-> "PENDING", text |-> saving.sent[t].text, media |-> saving.sent[t].media,
             options |-> saving.sent[t].options, thumb |-> saving.sent[t].thumb]
       ELSE [NoRow EXCEPT !.status = "PENDING"]

NewBody == IF saving.body = Blank THEN article.body ELSE saving.body

Write ==
  /\ saving.at = "server" /\ form.page \in {"new", "draft"} /\ article.status \in {"none", "DRAFT"} /\ Ready
  /\ article' = [status |-> "DRAFT", body |-> NewBody, media |-> saving.media]
  /\ rows' = [t \in EditTarget |-> ReplacedRow(t)]
  /\ form' = Closed /\ saving' = NotSaving /\ saves' = saves + 1
  /\ UNCHANGED <<live, draft, library, cover, revived, touches>>

(* update of a published post: the platforms first, then the rows.         *)
BeginRemote ==
  /\ saving.at = "server" /\ form.page = "published" /\ article.status = "PUBLISHED"
  /\ saving' = [saving EXCEPT !.at = "remote", !.todo = {t \in EditTarget : rows[t].status = "PUBLISHED"}]
  /\ UNCHANGED <<article, rows, live, form, draft, library, cover, revived, touches, saves>>

RemoteText(t) ==
  IF t \in DOMAIN saving.sent /\ saving.sent[t].text # Blank THEN saving.sent[t].text
  ELSE IF saving.body # Blank THEN saving.body
  ELSE IF rows[t].text # Blank THEN rows[t].text ELSE article.body

\* Mutant of EditRemote: the platform gets the text that was stored.
EditRemoteStored(t) ==
  /\ saving.at = "remote" /\ t \in saving.todo /\ saving' = [saving EXCEPT !.todo = @ \ {t}]
  /\ live' = [live EXCEPT ![t] = IF rows[t].text # Blank THEN rows[t].text ELSE RemoteText(t)]
  /\ UNCHANGED <<article, rows, form, draft, library, cover, revived, touches, saves>>

EditRemote(t) ==
  /\ saving.at = "remote" /\ t \in saving.todo /\ saving' = [saving EXCEPT !.todo = @ \ {t}]
  /\ live' = [live EXCEPT ![t] = RemoteText(t)]
  /\ UNCHANGED <<article, rows, form, draft, library, cover, revived, touches, saves>>

WriteOverrides ==
  /\ saving.at = "remote" /\ saving.todo = {}
  /\ article' = [article EXCEPT !.body = NewBody]
  /\ rows' = [t \in EditTarget |->
       IF t \notin DOMAIN saving.sent \/ rows[t].status # "PUBLISHED" THEN rows[t]
       ELSE LET o == saving.sent[t] IN
            [rows[t] EXCEPT !.text = IF o.text = Blank THEN @ ELSE o.text, !.options = @ \/ o.options,
                            !.thumb = IF o.options THEN o.thumb ELSE @]]
  /\ form' = Closed /\ saving' = NotSaving /\ saves' = saves + 1
  /\ UNCHANGED <<live, draft, library, cover, revived, touches>>

(* publishPlatformPost sends the target's own text, or the common one.     *)
Publish ==
  /\ article.status = "DRAFT" /\ saving.at = "none"
  /\ \E done \in SUBSET {t \in EditTarget : rows[t].status = "PENDING"} :
       /\ done # {} /\ article' = [article EXCEPT !.status = "PUBLISHED"]
       /\ rows' = [t \in EditTarget |-> IF rows[t].status # "PENDING" THEN rows[t]
                     ELSE [rows[t] EXCEPT !.status = IF t \in done THEN "PUBLISHED" ELSE "FAILED"]]
       /\ live' = [t \in EditTarget |-> IF t \notin done THEN live[t]
                     ELSE IF rows[t].text # Blank THEN rows[t].text ELSE article.body]
  /\ UNCHANGED <<form, draft, library, cover, saving, revived, touches, saves>>

EditorNext ==
  \/ OpenNew \/ OpenEdit \/ CoverUploaded \/ Save \/ SaveRefused \/ Write \/ BeginRemote
  \/ WriteOverrides \/ Publish
  \/ \E text \in Texts \cup {Blank} : TypeBody(text) \/ \E t \in EditTarget : TypeOverride(t, text)
  \/ \E t \in EditTarget : \/ ToggleAccount(t) \/ Reset(t) \/ Customize(t) \/ UploadCover(t) \/ EditRemote(t)
                           \/ \E p \in Pictures : SelectMedia(t, p)
                           \/ \E p \in Thumbs : SelectCover(t, p)
  \/ \E p \in Pictures : UploadMedia(p) \/ ThumbnailDone(p) \/ AddMedia(p) \/ RemoveMedia(p)

EditorSpec == EditorInit /\ [][EditorNext]_editorVars
-----------------------------------------------------------------------------
(* A target's own media are media of the post, through removals, uploads   *)
(* and saves; a cover upload that answers after the target was set back to *)
(* the common content may bring a removed one back (posts/new/page.tsx     *)
(* 153: the answer is applied by the render that started it).              *)
DraftsAreCoherent ==
  \A t \in EditTarget : /\ form.page # "closed" => draft[t].media \subseteq form.media \cup revived
                        /\ rows[t].media \subseteq article.media \cup revived

(* What the page told the user a target would say is what is stored for it *)
(* or, of a published post, what the platform has been told, once the save *)
(* has succeeded (edit/page.tsx: "Các target sẽ kế thừa phần này nếu không *)
(* bật tùy chỉnh riêng").                                                  *)
SavesSayWhatWasShown ==
  [][saves' > saves =>
       \A t \in DOMAIN saving.shown :
         IF article.status = "PUBLISHED" THEN rows[t].status = "PUBLISHED" => live'[t] = saving.shown[t]
         ELSE saving.shown[t] = IF rows'[t].text # Blank THEN rows'[t].text ELSE article'.body]_editorVars
=============================================================================
