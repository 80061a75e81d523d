------------------------------ MODULE InboxPage ------------------------------
(***************************************************************************)
(* The inbox page: lists loaded under filters, reloaded by hand, by every  *)
(* action and by timers; a thread on display with a text being typed; and  *)
(* the two kinds of selection for messages in bulk.  A thread has at most  *)
(* one comment of the platform and one the page shows before it is there.  *)
(***************************************************************************)
EXTENDS Naturals, Sequences, SequencesExt

CONSTANTS
  Thread,     \* published posts
  Nowhere,    \* the empty post id of a comment made up for a thread without comments
  Load,       \* slots for requests under way
  MaxClicks,  \* bound on what the user does
  MaxNews     \* bound on what happens at the server

ASSUME InboxPageAssumption == IsFiniteSet(Thread) /\ Nowhere \notin Thread /\ MaxClicks \in Nat /\ MaxNews \in Nat

VARIABLES
  remark,      \* server: thread -> none, OPEN, RESOLVED: its comment's status
  recency,     \* server: the threads, latest activity first
  filter,      \* all, or OPEN comments
  shown,       \* the lists on display and the filter they answer
  loads,       \* slot -> the list on its way
  timers,      \* filters of the closures that scheduled reloads hold
  activeThreadId, selectedId, selectionMode, selectedPosts, selectedComments,
  typed,       \* under which thread the text was typed
  sent,        \* the last message
  inOrder,     \* no older answer came in over a newer one
  clicks, news

lists == <<shown, loads, inOrder>>
choices == <<activeThreadId, selectedId, selectionMode, selectedPosts, selectedComments>>
inboxPageVars == <<remark, recency, filter, lists, timers, choices, typed, sent, clicks, news>>

Real(t) == <<t, "real">>
Fake(t) == <<t, "fake">>
NoLoad == [filter |-> "none", order |-> <<>>, comments |-> {}]
NoComment == <<"none", "none">>
NoMessageSent == [to |-> "none", typed |-> "none", chosen |-> "none", listed |-> {}]

(* The API's two lists for a filter.                                       *)
Listing(f) ==
  [filter |-> f, order |-> recency,
   comments |-> {Real(t) : t \in {u \in Thread : IF f = "all" THEN remark[u] # "none" ELSE remark[u] = f}}]

(* buildPostThreads: the posts, and what only a comment names; with a      *)
(* filter on comments those without comments are left out.                 *)
RootsOf(t) == {c \in shown.comments : c[1] = t}
Threads == IF RootsOf(Nowhere) # {} THEN <<Nowhere>> \o shown.order ELSE shown.order
Listed == {t \in ToSet(Threads) : filter = "all" \/ RootsOf(t) # {}}
FirstListed ==
  IF Listed = {} THEN "none" ELSE Threads[Min({i \in DOMAIN Threads : Threads[i] \in Listed})]

\* Mutant of ActiveThread: the open comment comes before the chosen thread.
SelectedThreadFirst ==
  LET open == IF selectedId \in shown.comments THEN selectedId[1] ELSE "none"
  IN CASE open \in Listed -> open
       [] open \notin Listed /\ activeThreadId \in Listed -> activeThreadId
       [] OTHER -> FirstListed

ActiveThread ==
  LET open == IF selectedId \in shown.comments THEN selectedId[1] ELSE "none"
  IN CASE activeThreadId \in Listed -> activeThreadId
       [] activeThreadId \notin Listed /\ open \in Listed -> open
       [] OTHER -> FirstListed
-----------------------------------------------------------------------------
InboxPageInit ==
  /\ remark \in [Thread -> {"none", "OPEN"}] /\ recency \in SetToSeqs(Thread)
  /\ filter = "all" /\ shown = NoLoad /\ timers = {}
  /\ \E first \in Load : loads = [l \in Load |-> IF l = first THEN Listing("all") ELSE NoLoad]
  /\ activeThreadId = "none" /\ selectedId = NoComment /\ selectionMode = "none"
  /\ selectedPosts = {} /\ selectedComments = {} /\ typed = "none" /\ sent = NoMessageSent
  /\ inOrder = TRUE /\ clicks = 0 /\ news = 0

InboxPageTypeOK ==
  LET Threaded == Thread \cup {Nowhere}
      Comment == {Real(t) : t \in Thread} \cup {Fake(t) : t \in Threaded}
  IN /\ remark \in [Thread -> {"none", "OPEN", "RESOLVED"}] /\ recency \in SetToSeqs(Thread)
     /\ filter \in {"all", "OPEN"} /\ shown.comments \subseteq Comment /\ timers \subseteq {"all", "OPEN"}
     /\ activeThreadId \in Threaded \cup {"none"} /\ selectedId \in Comment \cup {NoComment}
     /\ selectionMode \in {"none", "posts", "comments"}
     /\ selectedPosts \subseteq Threaded /\ selectedComments \subseteq Comment

Click == clicks < MaxClicks /\ clicks' = clicks + 1 /\ UNCHANGED news
News == news < MaxNews /\ news' = news + 1 /\ UNCHANGED clicks

(* A comment comes in, or is dealt with by a colleague.                    *)
CommentArrives(t) ==
  /\ News /\ remark' = [remark EXCEPT ![t] = "OPEN"]
  /\ recency' = [i \in DOMAIN recency |-> CASE i = 1 -> t
                                            [] i # 1 /\ (\E j \in 1..(i - 1) : recency[j] = t) -> recency[i]
                                            [] OTHER -> recency[i - 1]]
  /\ UNCHANGED <<filter, lists, timers, choices, typed, sent>>

CommentResolved(t) ==
  /\ News /\ remark[t] = "OPEN" /\ remark' = [remark EXCEPT ![t] = "RESOLVED"]
  /\ UNCHANGED <<recency, filter, lists, timers, choices, typed, sent>>

(* loadComments with the filters of the closure that calls it.             *)
Ask(f, others) == \E l \in Load : loads[l] = NoLoad /\ loads' = [loads EXCEPT ![l] = Listing(f)]
                                  /\ UNCHANGED others

(* An answer fills the lists whatever was asked for since; the comment in  *)
(* the drawer is dropped when it is not in the list, the selections stay.  *)
Answer(l) ==
  /\ loads[l] # NoLoad /\ shown' = loads[l] /\ loads' = [loads EXCEPT ![l] = NoLoad]
  /\ selectedId' = IF selectedId \in loads[l].comments THEN selectedId ELSE NoComment
  /\ inOrder' = (inOrder /\ loads[l].filter = filter)
  /\ UNCHANGED <<remark, recency, filter, timers, activeThreadId, selectionMode, selectedPosts,
                 selectedComments, typed, sent, clicks, news>>

AnswerFails(l) ==
  /\ News /\ loads[l] # NoLoad /\ loads' = [loads EXCEPT ![l] = NoLoad] /\ inOrder' = FALSE
  /\ UNCHANGED <<remark, recency, filter, shown, timers, choices, typed, sent>>

(* The effect on `filters' loads, at the first render too.                 *)
SetFilterAlone(f) ==
  /\ Click /\ filter # f /\ filter' = f /\ UNCHANGED <<loads, inOrder>>
  /\ UNCHANGED <<remark, recency, shown, timers, choices, typed, sent>>

SetFilter(f) ==
  /\ Click /\ filter # f /\ filter' = f /\ Ask(f, <<shown>>)
  /\ inOrder' = TRUE
  /\ UNCHANGED <<remark, recency, timers, choices, typed, sent>>

(* scheduleCommentReloads: three times, with the filters of the render     *)
(* that scheduled them.                                                    *)
TimerFires(f) ==
  /\ f \in timers /\ News /\ timers' \in {timers, timers \ {f}} /\ Ask(f, <<shown, inOrder>>)
  /\ UNCHANGED <<remark, recency, filter, choices, typed, sent>>
-----------------------------------------------------------------------------
OpenThread(t) ==
  /\ Click /\ activeThreadId' = t
  /\ IF RootsOf(t) = {} THEN UNCHANGED <<selectedId, selectionMode, selectedPosts, selectedComments>>
     ELSE /\ selectedId' \in RootsOf(t)
          /\ selectionMode' = "none" /\ selectedPosts' = {} /\ selectedComments' = {}
  /\ UNCHANGED <<remark, recency, filter, lists, timers, typed, sent>>

(* A row of the table opens the drawer and keeps the selection.            *)
OpenRow(c) ==
  /\ Click /\ selectedId' = c
  /\ UNCHANGED <<remark, recency, filter, lists, timers, activeThreadId, selectionMode, selectedPosts,
                 selectedComments, typed, sent>>

Toggled(S, x) == IF x \in S THEN S \ {x} ELSE S \cup {x}

TogglePost(t) ==
  /\ Click /\ selectedId' = NoComment /\ selectedPosts' = Toggled(selectedPosts, t)
  /\ selectedComments' = (IF selectionMode = "comments" THEN {} ELSE selectedComments)
  /\ selectionMode' = IF selectedPosts' = {} THEN "none" ELSE "posts"
  /\ UNCHANGED <<remark, recency, filter, lists, timers, activeThreadId, typed, sent>>

ToggleCommentOnly(c) ==
  /\ Click /\ selectedId' = NoComment /\ selectedComments' = Toggled(selectedComments, c)
  /\ selectionMode' = (IF selectedComments' = {} THEN "none" ELSE "comments")
  /\ UNCHANGED <<remark, recency, filter, lists, timers, activeThreadId, selectedPosts, typed, sent>>

ToggleComment(c) ==
  /\ Click /\ selectedId' = NoComment /\ selectedComments' = Toggled(selectedComments, c)
  /\ selectedPosts' = (IF selectionMode = "posts" THEN {} ELSE selectedPosts)
  /\ selectionMode' = IF selectedComments' = {} THEN "none" ELSE "comments"
  /\ UNCHANGED <<remark, recency, filter, lists, timers, activeThreadId, typed, sent>>

Type ==
  /\ Click /\ ActiveThread # "none" /\ typed = "none" /\ typed' = ActiveThread
  /\ UNCHANGED <<remark, recency, filter, lists, timers, choices, sent>>

(* createPublicCommentForActiveThread: the API takes what names a post;    *)
(* the page shows the comment at once, under the post its thread's first   *)
(* comment names, and reloads.                                             *)
SendToThread ==
  /\ Click /\ typed # "none" /\ ActiveThread # "none"
  /\ sent' = [to |-> ActiveThread, typed |-> typed, chosen |-> activeThreadId, listed |-> Listed]
  /\ IF ActiveThread = Nowhere THEN UNCHANGED <<loads, shown, timers, typed>>
     ELSE /\ shown' = [shown EXCEPT !.comments = @ \cup
                         {Fake(IF RootsOf(ActiveThread) = {} THEN Nowhere ELSE ActiveThread)}]
          /\ typed' = "none" /\ timers' = timers \cup {filter} /\ Ask(filter, <<>>)
  /\ UNCHANGED <<remark, recency, filter, choices, inOrder>>

(* bulkCreatePublicComments clears the posts and leaves the mode,          *)
(* bulkReplySelectedComments clears everything; a refusal clears nothing.  *)
SendInBulk ==
  /\ Click /\ selectedPosts # {} /\ selectedPosts' = {}
  /\ timers' = timers \cup {filter} /\ Ask(filter, <<shown, inOrder>>)
  /\ UNCHANGED <<remark, recency, filter, activeThreadId, selectedId, selectionMode, selectedComments, typed, sent>>

ReplyInBulk ==
  /\ Click /\ selectedComments # {}
  /\ selectedComments' = {} /\ selectedPosts' = {} /\ selectionMode' = "none"
  /\ timers' = timers \cup {filter} /\ Ask(filter, <<shown, inOrder>>)
  /\ UNCHANGED <<remark, recency, filter, activeThreadId, selectedId, typed, sent>>

ClearSelection ==
  /\ Click /\ selectionMode # "none"
  /\ selectionMode' = "none" /\ selectedPosts' = {} /\ selectedComments' = {}
  /\ UNCHANGED <<remark, recency, filter, lists, timers, activeThreadId, selectedId, typed, sent>>

InboxPageNext ==
  \/ \E t \in Thread : CommentArrives(t) \/ CommentResolved(t)
  \/ \E l \in Load : Answer(l) \/ AnswerFails(l)
  \/ \E f \in {"all", "OPEN"} : SetFilter(f) \/ TimerFires(f)
  \/ \E t \in Listed : OpenThread(t) \/ TogglePost(t)
  \/ \E c \in shown.comments : OpenRow(c) \/ ToggleComment(c)
  \/ Type \/ SendToThread \/ SendInBulk \/ ReplyInBulk \/ ClearSelection

InboxPageSpec == InboxPageInit /\ [][InboxPageNext]_inboxPageVars
-----------------------------------------------------------------------------
(* Posts and comments are never selected together: a text written for the  *)
(* one kind does not go to the other.                                      *)
SelectionsAreOfOneKind ==
  /\ selectedPosts = {} \/ selectedComments = {}
  /\ selectionMode = "none" => selectedPosts = {} /\ selectedComments = {}
  /\ selectionMode = "posts" => selectedComments = {}
  /\ selectionMode = "comments" => selectedPosts = {}

(* A text typed under a thread the user has opened goes to it, whatever    *)
(* rows are opened and lists come in meanwhile, as long as it is listed.   *)
TextsReachTheirThread ==
  sent.chosen = sent.typed /\ sent.chosen \in sent.listed => sent.to = sent.typed

(* At rest the lists fit the filter, if no answer to another filter came   *)
(* in after the one to this.                                               *)
ListsFitTheFilter ==
  inOrder /\ (\A l \in Load : loads[l] = NoLoad) => shown.filter = filter

InboxPageHolds == SelectionsAreOfOneKind /\ TextsReachTheirThread /\ ListsFitTheFilter
=============================================================================
