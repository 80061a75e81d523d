--------------------------- MODULE PlatformReads ---------------------------
(***************************************************************************)
(* getPostMetrics and getAccountMetrics of the five adapters: a request    *)
(* that must succeed, insight requests any of which may fail or give       *)
(* nothing, and the numbers made of the answers.  An item is one number in *)
(* an answer.  Watch times, completion and clicks that are in no sum are   *)
(* read as views are.                                                      *)
(***************************************************************************)
EXTENDS MetricValues, Sequences

CONSTANTS MaxAnswer, \* bound on the numbers a platform answers
          Varied     \* items that may be any of them; the others are MaxAnswer or missing

ASSUME PlatformReadsAssumption == MaxAnswer \in Nat

VARIABLES
  reader,     \* which read of which platform
  readAt, \* how far it is: ask, insights, done, failed
  heard    \* the items answered so far

readVars == <<reader, readAt, heard>>
-----------------------------------------------------------------------------
(* Of each read: the items of the request that must succeed and of the     *)
(* others, and for each number the items it is taken from, best first.     *)
FacebookPost ==
  [base |-> {"reactions", "comments", "shares"},
   insights |-> {"media_view", "video_views", "media_view_unique", "impressions", "engaged_users", "reactions_by_type"},
   prefers |-> [likes |-> <<"reactions", "reactions_by_type">>, comments |-> <<"comments">>, shares |-> <<"shares">>,
                views |-> <<"media_view", "video_views">>, reach |-> <<"media_view_unique">>,
                impressions |-> <<"impressions", "media_view">>],
   total |-> <<"engaged_users">>, sumOf |-> {<<"reactions">>, <<"comments">>, <<"shares">>}, blank |-> "UNSUPPORTED"]

InstagramPost ==
  LET likes == <<"like_count", "likes">>
      comments == <<"comments_count", "comments">> IN
  [base |-> {"like_count", "comments_count"},
   insights |-> {"likes", "comments", "shares", "saved", "views", "reach", "impressions", "total_interactions"},
   prefers |-> [likes |-> likes, comments |-> comments, shares |-> <<"shares">>, saves |-> <<"saved">>,
                views |-> <<"views">>, reach |-> <<"reach">>, impressions |-> <<"impressions">>],
   total |-> <<"total_interactions">>, sumOf |-> {likes, comments, <<"shares">>, <<"saved">>}, blank |-> "UNSUPPORTED"]

YouTubePost ==
  LET likes == <<"likes", "likeCount">>
      comments == <<"comments", "commentCount">> IN
  [base |-> {"viewCount", "likeCount", "commentCount"}, insights |-> {"views", "likes", "comments", "shares"},
   prefers |-> [views |-> <<"views", "viewCount">>, likes |-> likes, comments |-> comments, shares |-> <<"shares">>],
   total |-> <<>>, sumOf |-> {likes, comments, <<"shares">>}, blank |-> "UNSUPPORTED"]

(* The Pin is the base; its analytics, here the insights, must succeed as  *)
(* well.  The clicks are shown and summed with the rest.                   *)
PinterestPost ==
  LET saves == <<"SAVE", "save">>
      likes == <<"TOTAL_REACTIONS", "reaction">>
      comments == <<"comment", "comment90d">>
      clicks == <<"PIN_CLICK", "pin_click">>
      linkClicks == <<"OUTBOUND_CLICK", "clickthrough">> IN
  [base |-> {"save", "reaction", "comment", "comment90d", "pin_click", "clickthrough", "impression"},
   insights |-> {"SAVE", "TOTAL_REACTIONS", "PIN_CLICK", "OUTBOUND_CLICK", "IMPRESSION", "VIDEO_MRC_VIEW",
                 "VIDEO_10S_VIEW", "ENGAGEMENT"},
   prefers |-> [saves |-> saves, likes |-> likes, comments |-> comments, clicks |-> clicks, linkClicks |-> linkClicks,
                views |-> <<"VIDEO_MRC_VIEW", "VIDEO_10S_VIEW">>, impressions |-> <<"IMPRESSION", "impression">>],
   total |-> <<"ENGAGEMENT">>, sumOf |-> {saves, likes, comments, clicks, linkClicks}, blank |-> "UNSUPPORTED"]

TikTokPost ==
  [base |-> {"view_count", "like_count", "comment_count", "share_count"}, insights |-> {},
   prefers |-> [views |-> <<"view_count">>, likes |-> <<"like_count">>, comments |-> <<"comment_count">>,
                shares |-> <<"share_count">>],
   total |-> <<>>, sumOf |-> {<<"like_count">>, <<"comment_count">>, <<"share_count">>}, blank |-> "UNSUPPORTED"]

Account(base, insights, prefers, blank) ==
  [base |-> base, insights |-> insights, prefers |-> prefers, total |-> <<>>, sumOf |-> {}, blank |-> blank]

FacebookAccount ==
  Account({"fan_count"}, {"page_media_view", "page_impressions", "page_media_view_unique", "page_views_total",
                          "page_follows", "page_fan_removes"},
          [followers |-> <<"fan_count">>, impressions |-> <<"page_media_view", "page_impressions">>,
           reach |-> <<"page_media_view_unique">>, profileViews |-> <<"page_views_total">>], "UNSUPPORTED")

InstagramAccount ==
  Account({"followers_count"}, {"follower_count", "reach", "views", "profile_views", "profile_links_taps"},
          [followers |-> <<"follower_count", "followers_count">>, reach |-> <<"reach">>, impressions |-> <<"views">>,
           profileViews |-> <<"profile_views", "profile_links_taps">>], "NOT_SYNCED")

YouTubeAccount ==
  Account({"subscriberCount"}, {"views", "subscribersGained", "subscribersLost"},
          [followers |-> <<"subscriberCount">>, impressions |-> <<"views">>], "NOT_SYNCED")

TikTokAccount == Account({"follower_count"}, {}, [followers |-> <<"follower_count">>], "NOT_SYNCED")

Reads == [fbPost |-> FacebookPost, igPost |-> InstagramPost, ytPost |-> YouTubePost, pinPost |-> PinterestPost,
          ttPost |-> TikTokPost, fbAccount |-> FacebookAccount, igAccount |-> InstagramAccount,
          ytAccount |-> YouTubeAccount, ttAccount |-> TikTokAccount]
Read == Reads[reader]
Given(item) == item \in DOMAIN heard /\ heard[item] # Unknown
-----------------------------------------------------------------------------
\* Mutant of FirstGiven: a number that is missing is 0, as in TikTok's adapter.
FirstGivenOrZero(items) ==
  LET given == {i \in DOMAIN items : Given(items[i])} IN
  IF given = {} THEN IF items = <<>> THEN Unknown ELSE 0 ELSE heard[items[Min(given)]]

(* firstNumber, firstInsightNumber and the chains of ??.                   *)
FirstGiven(items) ==
  LET given == {i \in DOMAIN items : Given(items[i])} IN
  IF given = {} THEN Unknown ELSE heard[items[Min(given)]]

TikTokZero(n) == IF n = Unknown /\ reader = "ttPost" /\ heard # <<>> THEN 0 ELSE n

Number(field) ==
  LET n == IF field \in DOMAIN Read.prefers THEN TikTokZero(FirstGiven(Read.prefers[field])) ELSE Unknown IN
  IF n # Unknown THEN FromApi(n)
  ELSE Blank(IF reader = "ttPost" /\ heard = <<>> THEN "NOT_SYNCED" ELSE Read.blank)

Engagement ==
  LET parts == {items \in Read.sumOf : TikTokZero(FirstGiven(items)) # Unknown}
      total == FirstGiven(Read.total)
  IN IF total # Unknown THEN FromApi(total)
     ELSE IF parts = {} THEN Blank(Number("likes").source)
     ELSE FromApi(SumFunctionOnSet([items \in Read.sumOf |-> TikTokZero(FirstGiven(items))], parts))

Rate == EngagementRate(<<Number("likes"), Number("comments"), Number("shares"), Number("saves")>>,
                       Number("reach"), Number("impressions"))

Difference(gained, lost) == (IF gained = Unknown THEN 0 ELSE gained) - (IF lost = Unknown THEN 0 ELSE lost)

(* Followers gained: Facebook needs both numbers for a difference, YouTube *)
(* takes one that is missing for 0.                                        *)
FollowersGained ==
  LET f(item) == IF Given(item) THEN heard[item] ELSE Unknown IN
  CASE reader = "fbAccount" /\ Given("page_follows") ->
         IF Given("page_fan_removes") THEN Derived(Difference(f("page_follows"), f("page_fan_removes")))
         ELSE FromApi(f("page_follows"))
    [] reader = "ytAccount" /\ (Given("subscribersGained") \/ Given("subscribersLost")) ->
         FromApi(Difference(f("subscribersGained"), f("subscribersLost")))
    [] OTHER -> Blank(Read.blank)

(* The table of raw numbers beside the metrics: what must be answered is   *)
(* listed even when it is missing.                                         *)
InTable == IF reader = "pinPost" THEN {i \in DOMAIN heard : Given(i)}
          ELSE DOMAIN heard \cap (Read.base \cup {i \in Read.insights : Given(i)})
Raw(item) == IF Given(item) THEN FromApi(heard[item]) ELSE Blank("NOT_SYNCED")
-----------------------------------------------------------------------------
ReadInit == reader \in DOMAIN Reads /\ readAt = "ask" /\ heard = <<>>

Answers(items) ==
  {h \in [items -> {Unknown} \cup 0..MaxAnswer] : \A i \in items \ Varied : h[i] \in {Unknown, MaxAnswer}}

(* TikTok may answer that there is no such video; any other error, of any  *)
(* platform, is the caller's.                                              *)
AskBase ==
  /\ readAt = "ask" /\ UNCHANGED reader
  /\ \/ readAt' = "failed" /\ UNCHANGED heard
     \/ readAt' = (IF Read.insights = {} THEN "done" ELSE "insights") /\ heard' \in Answers(Read.base)
     \/ reader = "ttPost" /\ readAt' = "done" /\ UNCHANGED heard

(* Requests that fail are logged and give nothing: Facebook and Instagram  *)
(* ask for each item alone, YouTube for the report.  Pinterest's failure is*)
(* the caller's.                                                           *)
AskInsights ==
  /\ readAt = "insights" /\ UNCHANGED reader
  /\ \/ reader = "pinPost" /\ readAt' = "failed" /\ UNCHANGED heard
     \/ /\ readAt' = "done"
        /\ \E got \in Answers(Read.insights) :
             heard' = [i \in Read.base \cup Read.insights |-> IF i \in Read.insights THEN got[i] ELSE heard[i]]

ReadNext == AskBase \/ AskInsights

ReadSpec == ReadInit /\ [][ReadNext]_readVars

ReadTypeOK ==
  /\ reader \in DOMAIN Reads /\ readAt \in {"ask", "insights", "done", "failed"}
  /\ DOMAIN heard \subseteq Read.base \cup Read.insights /\ \A i \in DOMAIN heard : heard[i] \in -1..MaxAnswer
  /\ DOMAIN Read.prefers \subseteq {"likes", "comments", "shares", "saves", "views", "reach", "impressions",
                                    "followers", "profileViews", "clicks", "linkClicks"}
-----------------------------------------------------------------------------
(* shared/metrics.ts 3-11: no number is shown that the platform did not    *)
(* give, and none it gave is lost because another request failed.  The     *)
(* adapter of TikTok breaks it (tiktok.adapter.ts 248-254): what is missing*)
(* is reported as 0, while the raw table says NOT_SYNCED.                  *)
NumbersAreGiven ==
  readAt = "done" =>
    \A field \in DOMAIN Read.prefers :
      LET from == {i \in DOMAIN Read.prefers[field] : Given(Read.prefers[field][i])} IN
      IF Usable(Number(field))
      THEN \/ \E i \in from : Number(field) = Raw(Read.prefers[field][i]) /\ Read.prefers[field][i] \in InTable
           \/ reader = "ttPost" /\ from = {} /\ Number(field).value = 0
      ELSE from = {}

(* The numbers beside the engagement that it sums: on Pinterest the clicks *)
(* are among them, which the rate does not count.                          *)
Rated == {"likes", "comments", "shares", "saves"}
Summed == IF reader = "pinPost" THEN Rated \cup {"clicks", "linkClicks"} ELSE Rated
SumOfShown(fields) == SumFunction([f \in {g \in fields : Usable(Number(g))} |-> Number(f).value])

(* The engagement is what the platform says, or the sum of the parts shown *)
(* beside it (except on Facebook, where likes known only by their types are*)
(* shown and not added); the rate never divides by 0 nor by what is        *)
(* unknown, and it counts no part twice.                                   *)
TotalsAddUp ==
  readAt = "done" /\ Read.sumOf # {} =>
    LET shown == {f \in Summed : Usable(Number(f))}
        byType == reader = "fbPost" /\ ~Given("reactions") /\ Given("reactions_by_type")
    IN /\ FirstGiven(Read.total) = Unknown =>
            IF shown = {} THEN ~Usable(Engagement) ELSE byType \/ Engagement = FromApi(SumOfShown(Summed))
       /\ Rate # <<>> => Rate[1] = SumOfShown(Rated) /\ Rate[2] > 0

ReadsAreHonest == NumbersAreGiven /\ TotalsAddUp
=============================================================================
