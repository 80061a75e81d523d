------------------------------ MODULE Composer ------------------------------
(***************************************************************************)
(* What a user chooses in the panel of one target, and what becomes of it: *)
(* the form's check, the options that are stored, the adapter's validator  *)
(* and the request to the platform.  A choice is a value other than the    *)
(* panel's default.  The texts and the media are those the target          *)
(* resolves to, its own or the post's.                                     *)
(***************************************************************************)
EXTENDS Naturals, FiniteSets

CONSTANT MaxPanelTouches  \* bound on what the user changes
ASSUME ComposerAssumption == MaxPanelTouches \in Nat

VARIABLES
  network,  \* the target's platform
  style,    \* Instagram's placement, TikTok's mode
  chosen,   \* the options the user set
  material, \* the media: images, videos, of WebP or WebM, at a public URL, READY; and
            \* the cover the thumbnail mode asks for: there, missing, a frame not taken yet
  words,    \* the texts: title, text, a text that is too long, a link, a link that is
            \* not a URL, a URL that is neither http nor https
  creator,  \* TikTok: what the creator's settings allow
  stage,    \* panel, stored, valid, sent, failed
  passed,   \* the options in the request to the platform
  panelTouches

composerVars == <<network, style, chosen, material, words, creator, stage, passed, panelTouches>>
-----------------------------------------------------------------------------
FacebookFields  == {"postType", "placeId", "photoAltText", "videoTitle", "thumbnail"}
InstagramFields == {"shareToFeed", "locationId", "altText", "collaborators", "userTags", "thumbnail"}
PinterestFields == {"boardId", "boardSectionId", "altText", "aiDisclosures", "isStandard", "adAccountId",
                    "productTags", "thumbnail"}
YouTubeFields   == {"privacyStatus", "categoryId", "tags", "notifySubscribers", "license", "embeddable",
                    "publicStatsViewable", "defaultLanguage", "defaultAudioLanguage", "recordingDate",
                    "recordingPlace", "selfDeclaredMadeForKids", "containsSyntheticMedia", "thumbnail"}
Allowances      == {"allowComment", "allowDuet", "allowStitch"}
DirectFields    == {"privacyLevel", "selfOnly", "cover", "autoAddMusic", "consent", "commercial", "brandContent",
                    "brandOrganic", "isAiGenerated"}
TikTokFields    == {"photoTitle", "photoDescription"} \cup Allowances \cup DirectFields
FieldsOf == [FACEBOOK |-> FacebookFields, INSTAGRAM |-> InstagramFields, PINTEREST |-> PinterestFields,
             YOUTUBE |-> YouTubeFields, TIKTOK |-> TikTokFields]

Styles(p) == CASE p = "INSTAGRAM" -> {"FEED", "CAROUSEL", "REELS", "STORY"}
               [] p = "TIKTOK"    -> {"MEDIA_UPLOAD", "DIRECT_POST"}
               [] OTHER           -> {"plain"}

images == material.images
videos == material.videos

(* Which fields the panel lets the user change, with this placement or     *)
(* mode, these media and these creator settings.                           *)
InstagramOffers(f) ==
  CASE f \in {"shareToFeed", "thumbnail"} -> style = "REELS"
    [] f \in {"locationId", "altText"}    -> style \in {"FEED", "CAROUSEL"}
    [] f = "userTags"                     -> style # "REELS"
    [] OTHER                              -> TRUE

TikTokOffers(f) ==
  CASE f \in {"photoTitle", "photoDescription"} -> images > 0
    [] f \in {"allowDuet", "allowStitch"}       -> style = "DIRECT_POST" /\ images = 0 /\ f \in creator
    [] f \in {"privacyLevel", "allowComment"}   -> style = "DIRECT_POST" /\ f \in creator
    [] f = "selfOnly"                           -> "privacyLevel" \in chosen
    [] f = "autoAddMusic"                       -> style = "DIRECT_POST" /\ images > 0
    [] f \in {"brandContent", "brandOrganic"}   -> "commercial" \in chosen
    [] OTHER                                    -> style = "DIRECT_POST"

Offers(f) ==
  /\ f \in FieldsOf[network]
  /\ network = "INSTAGRAM" => InstagramOffers(f)
  /\ network = "TIKTOK" => TikTokOffers(f)
  /\ f = "boardSectionId" => "boardId" \in chosen
  /\ f = "thumbnail" => videos > 0
-----------------------------------------------------------------------------
(* platformOptions: what is stored of the choices.                         *)
StoredOptions ==
  CASE network = "INSTAGRAM" -> {f \in chosen : /\ f = "shareToFeed" => style = "REELS"
                                                /\ f \in {"locationId", "altText"} => style \in {"FEED", "CAROUSEL"}}
    [] network = "TIKTOK" -> {f \in chosen : /\ f \in Allowances \cup DirectFields => style = "DIRECT_POST"
                                             /\ f \in {"brandContent", "brandOrganic"} => "commercial" \in chosen}
    [] OTHER -> chosen

(* validatePostComposer.                                                   *)
TikTokForm ==
  /\ (videos = 1 /\ images = 0) \/ (videos = 0 /\ images > 0 /\ material.hosted)
  /\ style = "DIRECT_POST" =>
       /\ {"privacyLevel", "consent"} \subseteq chosen
       /\ "commercial" \in chosen => {"brandContent", "brandOrganic"} \cap chosen # {}
       /\ ~({"brandContent", "selfOnly"} \subseteq chosen)

OnePin == (images = 1 /\ videos = 0) \/ (videos = 1 /\ images <= 1)

FormAcceptsWith(pin) ==
  /\ words \cap {"noLink", "otherLink"} = {} /\ material.ready
  /\ words # {} \/ images + videos > 0
  /\ "thumbnail" \in chosen => material.cover # "missing"
  /\ CASE network = "FACEBOOK"  -> videos <= 1 /\ (videos = 0 \/ images = 0)
       [] network = "INSTAGRAM" -> images + videos > 0
       [] network = "PINTEREST" -> pin
       [] network = "YOUTUBE"   -> "title" \in words /\ videos = 1 /\ images = 0
       [] OTHER                 -> TikTokForm

\* Mutant of FormAccepts: Pinterest may have any number of images.
FormAcceptsAnyPin == FormAcceptsWith(images + videos > 0)
FormAccepts == FormAcceptsWith(OnePin)

(* What the API checks again before it stores anything.                    *)
ApiAccepts == material.ready /\ "noLink" \notin words

(* validate...Post of the adapters.                                        *)
FacebookValid  == videos <= 1 /\ (videos = 0 \/ images = 0) /\ (words # {"title"} \/ images + videos > 0)
                    /\ (words # {} \/ images + videos > 0)
InstagramValid == images + videos > 0 /\ material.hosted /\ "long" \notin words
PinterestValid == /\ OnePin /\ ~material.web
                  /\ videos = 1 => "thumbnail" \in chosen \/ images = 1
                  /\ words \cap {"long", "noLink", "otherLink"} = {}
YouTubeValid   == videos = 1 /\ images = 0 /\ "title" \in words
TikTokValid    == TikTokForm /\ "long" \notin words
PlatformValid == CASE network = "FACEBOOK"  -> FacebookValid
                   [] network = "INSTAGRAM" -> InstagramValid
                   [] network = "PINTEREST" -> PinterestValid
                   [] network = "YOUTUBE"   -> YouTubeValid
                   [] OTHER                 -> TikTokValid

(* The worker first looks for the cover, then asks the adapter.            *)
CoverFound == "thumbnail" \in chosen => material.cover = "there"
Valid == CoverFound /\ PlatformValid
-----------------------------------------------------------------------------
(* The options each adapter puts into its request.                         *)
FacebookSends ==
  {"placeId"} \cup IF videos = 1 THEN {"videoTitle", "thumbnail"} ELSE {"photoAltText"}

InstagramSends ==
  IF images + videos > 1 THEN {"locationId", "collaborators"}
  ELSE {"collaborators"} \cup (IF style = "REELS" THEN {"shareToFeed"} ELSE {"userTags"})
         \cup (IF style = "REELS" /\ videos = 1 THEN {"thumbnail"} ELSE {})
         \cup (IF style \in {"FEED", "CAROUSEL"} THEN {"locationId", "altText"} ELSE {})

PinterestSends ==
  {"boardId", "boardSectionId", "aiDisclosures"} \cup IF videos = 1 THEN {"thumbnail"} ELSE {"altText"}

YouTubeSends == {"privacyStatus", "categoryId", "selfDeclaredMadeForKids", "containsSyntheticMedia", "thumbnail"}

TikTokSends ==
  IF style = "MEDIA_UPLOAD" THEN {}
  ELSE {"privacyLevel", "selfOnly", "cover", "brandContent", "brandOrganic", "isAiGenerated"}
         \cup IF videos = 1 THEN Allowances \cap creator ELSE {"autoAddMusic"} \cup ({"allowComment"} \cap creator)

\* Mutant of Sends: Facebook's place goes with feed posts alone.
SendsPlaceInFeed ==
  CASE network = "FACEBOOK"  -> FacebookSends \ (IF images + videos > 0 THEN {"placeId"} ELSE {})
    [] network = "INSTAGRAM" -> InstagramSends
    [] network = "PINTEREST" -> PinterestSends
    [] network = "YOUTUBE"   -> YouTubeSends
    [] OTHER                 -> TikTokSends

Sends == CASE network = "FACEBOOK"  -> FacebookSends
           [] network = "INSTAGRAM" -> InstagramSends
           [] network = "PINTEREST" -> PinterestSends
           [] network = "YOUTUBE"   -> YouTubeSends
           [] OTHER                 -> TikTokSends
-----------------------------------------------------------------------------
ComposerInit ==
  /\ network \in DOMAIN FieldsOf
  /\ \/ style \in Styles(network) \ {"DIRECT_POST"} /\ chosen = {}
     \/ network = "TIKTOK" /\ style = "DIRECT_POST" /\ chosen = {"privacyLevel", "consent"}
  /\ material \in [images : 0..2, videos : 0..2, web : BOOLEAN, hosted : BOOLEAN, ready : BOOLEAN,
                   cover : {"there", "missing", "noFrame"}]
  /\ material.web => network = "PINTEREST" /\ images + videos > 0
  /\ ~material.hosted => network \in {"INSTAGRAM", "TIKTOK"}
  /\ ~material.ready => images + videos > 0 /\ material.hosted /\ ~material.web
  /\ material.cover # "there" => network # "TIKTOK" /\ videos > 0 /\ material.ready
  /\ words \in {{}, {"title"}, {"text"}, {"title", "text"}, {"title", "text", "long"}, {"link"},
                {"title", "noLink"}, {"title", "otherLink"}}
  /\ creator = (IF network = "TIKTOK" THEN {"privacyLevel"} \cup Allowances ELSE {})
  /\ stage = "panel" /\ passed = {} /\ panelTouches = 0

ComposerTypeOK ==
  /\ network \in DOMAIN FieldsOf /\ style \in Styles(network) /\ chosen \subseteq FieldsOf[network]
  /\ creator \subseteq {"privacyLevel"} \cup Allowances /\ panelTouches \in 0..MaxPanelTouches
  /\ stage \in {"panel", "stored", "valid", "sent", "failed"} /\ (stage # "sent" => passed = {})
  /\ {"brandContent", "brandOrganic"} \cap chosen # {} => "commercial" \in chosen
  /\ "boardSectionId" \in chosen => "boardId" \in chosen

Change == stage = "panel" /\ panelTouches < MaxPanelTouches /\ panelTouches' = panelTouches + 1

(* Taking a choice back takes with it what hung on it.                     *)
Without(f) == chosen \ CASE f = "commercial"   -> {f, "brandContent", "brandOrganic"}
                         [] f = "boardId"      -> {f, "boardSectionId"}
                         [] f = "privacyLevel" -> {f, "selfOnly"}
                         [] OTHER              -> {f}

Choose(f) ==
  /\ Change /\ Offers(f)
  /\ chosen' = IF f \in chosen THEN Without(f) ELSE chosen \cup {f}
  /\ UNCHANGED <<network, style, material, words, creator, stage, passed>>

(* TikTok's panel forgets the direct post's settings, not the allowances.  *)
SetStyle(s) ==
  /\ Change /\ style' = s /\ s # style
  /\ chosen' = IF s = "MEDIA_UPLOAD" THEN chosen \ DirectFields ELSE chosen
  /\ UNCHANGED <<network, material, words, creator, stage, passed>>

CreatorChanges ==
  /\ network = "TIKTOK" /\ stage # "sent" /\ creator' \in {creator \ {x} : x \in creator}
  /\ UNCHANGED <<network, style, chosen, material, words, stage, passed, panelTouches>>

Submit ==
  /\ stage = "panel" /\ FormAccepts /\ ApiAccepts
  /\ stage' = "stored" /\ chosen' = StoredOptions
  /\ UNCHANGED <<network, style, material, words, creator, passed, panelTouches>>

Validate ==
  /\ stage = "stored" /\ stage' = (IF Valid THEN "valid" ELSE "failed")
  /\ UNCHANGED <<network, style, chosen, material, words, creator, passed, panelTouches>>

(* TikTok is asked for the creator's settings again.                       *)
Transmit ==
  /\ stage = "valid"
  /\ IF network = "TIKTOK" /\ style = "DIRECT_POST" /\ "privacyLevel" \notin creator
     THEN stage' = "failed" /\ UNCHANGED passed
     ELSE stage' = "sent" /\ passed' = chosen \cap Sends
  /\ UNCHANGED <<network, style, chosen, material, words, creator, panelTouches>>

ComposerNext ==
  \/ \E f \in FieldsOf[network] : Choose(f)
  \/ \E s \in Styles(network) : SetStyle(s)
  \/ CreatorChanges \/ Submit \/ Validate \/ Transmit

ComposerSpec == ComposerInit /\ [][ComposerNext]_composerVars
-----------------------------------------------------------------------------
(* Options no adapter ever sends, though the panel offers them.            *)
Ignored ==
  [FACEBOOK |-> {"postType"}, INSTAGRAM |-> {}, PINTEREST |-> {"isStandard", "adAccountId", "productTags"},
   YOUTUBE |-> {"tags", "notifySubscribers", "license", "embeddable", "publicStatsViewable", "defaultLanguage",
                "defaultAudioLanguage", "recordingDate", "recordingPlace"},
   TIKTOK |-> {"photoTitle", "photoDescription", "consent", "commercial"}]

(* Options that mean nothing for these media: texts for images and videos  *)
(* of which there are none, and what a carousel, which several media make  *)
(* whatever placement was chosen, has no place for.                        *)
Pointless(f) ==
  \/ f \in {"photoAltText", "altText"} /\ network # "INSTAGRAM" /\ videos = 1
  \/ f \in {"videoTitle", "thumbnail"} /\ videos # 1
  \/ network = "INSTAGRAM" /\ images + videos > 1 /\ f \in {"shareToFeed", "altText", "userTags", "thumbnail"}
  \/ f \in Allowances /\ f \notin creator
  \/ f \in {"allowDuet", "allowStitch"} /\ images > 0
  \/ f = "autoAddMusic" /\ videos = 1

(* Every choice of a post that went out, as far as the panel still offered *)
(* it when the post was submitted, is in the platform's request, apart     *)
(* from those no adapter sends and those without a meaning for the media.  *)
ChoicesArrive ==
  stage = "sent" => \A f \in chosen : Offers(f) => f \in passed \cup Ignored[network] \/ Pointless(f)

(* What the worker refuses the form has refused, but for what the form     *)
(* does not look at: a Facebook post with nothing but a title, texts that  *)
(* are too long, WebP and WebM and a missing cover on Pinterest, Instagram *)
(* media without a public address, and a cover that is to be a frame of    *)
(* the video which nobody has taken.  And what the API and the worker      *)
(* would both take the form refuses only for a link that is a URL of       *)
(* another scheme.                                                         *)
FormForesees ==
  /\ FormAccepts /\ ~Valid =>
       \/ network = "FACEBOOK" /\ words = {"title"} /\ images + videos = 0
       \/ "long" \in words
       \/ network = "PINTEREST" /\ (material.web \/ videos = 1)
       \/ network = "INSTAGRAM" /\ ~material.hosted
       \/ "thumbnail" \in chosen /\ material.cover = "noFrame"
  /\ ApiAccepts /\ Valid => FormAccepts \/ "otherLink" \in words

(* From the panel to the platform.                                         *)
ComposerKeepsFaith == ChoicesArrive /\ FormForesees
=============================================================================
