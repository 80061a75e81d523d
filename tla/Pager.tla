-------------------------------- MODULE Pager --------------------------------
(***************************************************************************)
(* The pages that list posts and media with cursors: a stack of the        *)
(* cursors walked so far, filters, requests that may answer late, actions  *)
(* that reload with the cursor of the render they were started from, and   *)
(* selections for deletes in bulk.  Items are numbered by age: the newest  *)
(* has the largest number and comes first; 0 is no cursor.                 *)
(***************************************************************************)
EXTENDS Naturals, Sequences, SequencesExt

CONSTANTS
  FirstItems, \* items there at the start
  Limit,     \* items of a page
  Reply,     \* slots for requests under way
  MaxSteps,  \* bound on what the user does
  MaxTurns   \* bound on what others do

ASSUME PagerAssumption == {FirstItems, MaxSteps, MaxTurns} \subseteq Nat /\ Limit \in Nat \ {0}

VARIABLES
  kind,      \* "posts": cursor by value; "settings": by the id of a row
  rows,      \* server: items there
  narrow,    \* server: those a filter on status lets through
  filter,    \* all, narrow
  page,      \* the items on display and nextCursor
  cursorStack, loads, loading, selected,
  pending,   \* an action that will reload, with the closure of its render
  walk,      \* history: the pages shown since the first page was
  steps, turns

server == <<rows, narrow>>
view == <<filter, cursorStack, selected>>
pagerVars == <<kind, server, page, view, loads, loading, pending, walk, steps, turns>>

NoReply == [filter |-> "none", cursor |-> 0, items |-> <<>>, next |-> 0, matching |-> {}]
NoAction == [filter |-> "none", cursor |-> 0, todo |-> <<>>, failed |-> {}, bulk |-> FALSE]
NotWalking == [filter |-> "none", since |-> {}, seen |-> {}, given |-> {}]

Matching(f) == IF f = "all" THEN rows ELSE rows \cap narrow
NewestFirst(set) ==
  [i \in 1 .. Cardinality(set) |-> CHOOSE n \in set : Cardinality({m \in set : m > n}) = i - 1]

(* The rows from the cursor on: posts compare values; Prisma starts at the *)
(* cursor's row, matching or not, skips one, and finds nothing without it. *)
FromCursor(f, c) ==
  LET upTo == {n \in Matching(f) : n <= c}
  IN CASE c = 0 -> NewestFirst(Matching(f))
       [] c # 0 /\ kind = "posts" -> NewestFirst(upTo \ {c})
       [] OTHER -> IF c \in rows /\ upTo # {} THEN Tail(NewestFirst(upTo)) ELSE <<>>

\* Mutant of List: the cursor is taken from the extra row that was read.
ListPastTheExtra(f, c) ==
  LET found == FromCursor(f, c)
      items == SubSeq(found, 1, IF Len(found) < Limit THEN Len(found) ELSE Limit)
  IN [filter |-> f, cursor |-> c, items |-> items,
      next |-> IF Len(found) > Limit THEN found[Limit + 1] ELSE 0, matching |-> Matching(f)]

(* list: one more row than the page tells whether there is a next cursor.  *)
List(f, c) ==
  LET found == FromCursor(f, c)
      items == SubSeq(found, 1, IF Len(found) < Limit THEN Len(found) ELSE Limit)
  IN [filter |-> f, cursor |-> c, items |-> items,
      next |-> IF Len(found) > Limit THEN Last(items) ELSE 0, matching |-> Matching(f)]

Top(stack) == IF stack = <<>> THEN 0 ELSE Last(stack)
-----------------------------------------------------------------------------
PagerInit ==
  /\ kind \in {"posts", "settings"} /\ rows = 1 .. FirstItems /\ narrow \in SUBSET (1 .. FirstItems)
  /\ filter = "all" /\ page = NoReply /\ cursorStack = <<>> /\ loading = TRUE
  /\ \E first \in Reply : loads = [l \in Reply |-> IF l = first THEN List("all", 0) ELSE NoReply]
  /\ selected = {} /\ pending = NoAction /\ walk = NotWalking /\ steps = 0 /\ turns = 0

PagerTypeOK ==
  LET Item == 1 .. FirstItems + MaxTurns IN
  /\ rows \subseteq Item /\ narrow \subseteq Item /\ filter \in {"all", "narrow"}
  /\ ToSet(page.items) \subseteq Item /\ Len(page.items) <= Limit /\ cursorStack \in Seq(Item)
  /\ loading \in BOOLEAN /\ selected \subseteq Item /\ ToSet(pending.todo) \subseteq Item
  /\ walk.seen \cup walk.given \subseteq Item

(* A dialog covers the list of posts while it deletes; a page of media     *)
(* keeps its filters and pager usable.                                     *)
PageStep ==
  /\ steps < MaxSteps /\ steps' = steps + 1
  /\ kind = "posts" => pending.todo = <<>> /\ ~pending.bulk
  /\ UNCHANGED <<kind, server, page, walk, turns>>
PageTurn == turns < MaxTurns /\ turns' = turns + 1 /\ UNCHANGED <<kind, steps>>

RequestPage(f, c) ==
  /\ loading' = TRUE
  /\ \E l \in Reply : loads[l] = NoReply /\ loads' = [loads EXCEPT ![l] = List(f, c)]

(* Others: an item is created, is deleted, or leaves the filter.           *)
ItemCreated ==
  /\ PageTurn
  /\ LET new == FirstItems + turns + 1
     IN rows' = rows \cup {new} /\ narrow' \in {narrow, narrow \cup {new}}
  /\ UNCHANGED <<page, view, loads, loading, pending, walk>>

ItemGone ==
  /\ PageTurn /\ \E n \in rows : rows' \in {rows, rows \ {n}} /\ narrow' = narrow \ {n}
  /\ UNCHANGED <<page, view, loads, loading, pending, walk>>

(* The effect on the filters loads the first page; only the list of posts  *)
(* empties its stack.                                                      *)
SetFilter(f) ==
  /\ PageStep /\ f # filter /\ filter' = f /\ RequestPage(f, 0)
  /\ cursorStack' = IF kind = "posts" THEN <<>> ELSE cursorStack
  /\ UNCHANGED <<selected, pending>>

(* The reload button: posts stay on their page, media go to the first.     *)
Refresh ==
  /\ PageStep /\ ~loading /\ cursorStack' = IF kind = "posts" THEN cursorStack ELSE <<>>
  /\ RequestPage(filter, Top(cursorStack')) /\ UNCHANGED <<filter, selected, pending>>

PreviousPage ==
  /\ PageStep /\ ~loading /\ cursorStack # <<>>
  /\ cursorStack' = Front(cursorStack) /\ RequestPage(filter, Top(cursorStack'))
  /\ UNCHANGED <<filter, selected, pending>>

NextPage ==
  /\ PageStep /\ ~loading /\ page.next # 0
  /\ cursorStack' = Append(cursorStack, page.next) /\ RequestPage(filter, page.next)
  /\ UNCHANGED <<filter, selected, pending>>

Toggle ==
  /\ PageStep /\ \E n \in ToSet(page.items) : selected' = SymDiff(selected, {n})
  /\ UNCHANGED <<filter, cursorStack, loads, loading, pending>>

ToggleAll ==
  /\ PageStep
  /\ selected' = IF ToSet(page.items) \subseteq selected THEN selected \ ToSet(page.items)
                 ELSE selected \cup ToSet(page.items)
  /\ UNCHANGED <<filter, cursorStack, loads, loading, pending>>

(* Delete one, or the selected; or retry, duplicate, draw a thumbnail.     *)
Begin(todo, bulk) ==
  /\ PageStep /\ pending = NoAction
  /\ pending' = [filter |-> filter, cursor |-> Top(cursorStack), todo |-> todo, failed |-> {}, bulk |-> bulk]
  /\ UNCHANGED <<view, loads, loading>>

DeleteOne == \E n \in ToSet(page.items) : Begin(<<n>>, FALSE)
DeleteSelected == selected # {} /\ Begin(NewestFirst(selected), TRUE)
ActAndReload == Begin(<<>>, FALSE)

Delete ==
  /\ pending.todo # <<>>
  /\ LET n == Head(pending.todo) IN rows' = rows \ {n} /\ narrow' = narrow \ {n}
  /\ pending' = [pending EXCEPT !.todo = Tail(@)]
  /\ UNCHANGED <<kind, page, view, loads, loading, walk, steps, turns>>

(* A delete of posts in bulk goes on with the next; the others give up,    *)
(* without a reload.                                                       *)
DeleteFails ==
  /\ PageTurn /\ pending.todo # <<>>
  /\ pending' = IF kind = "posts" /\ pending.bulk
                THEN [pending EXCEPT !.todo = Tail(@), !.failed = @ \cup {Head(pending.todo)}]
                ELSE NoAction
  /\ UNCHANGED <<server, page, view, loads, loading, walk>>

Reload ==
  /\ pending # NoAction /\ pending.todo = <<>> /\ pending' = NoAction
  /\ RequestPage(pending.filter, pending.cursor)
  /\ selected' = CASE ~pending.bulk                    -> selected
                   [] pending.bulk /\ kind = "posts" -> selected \cap pending.failed
                   [] OTHER                          -> {}
  /\ UNCHANGED <<kind, server, page, filter, cursorStack, walk, steps, turns>>

(* The walk goes on while every page on display was asked for with a       *)
(* cursor it gave, for the filter on display, and, where the cursor is a   *)
(* row, with the row still in the list.                                    *)
Walked(reply) ==
  LET items == ToSet(reply.items)
      given == {reply.next} \ {0}
  IN CASE reply.filter = filter /\ reply.cursor = 0 ->
            [filter |-> filter, since |-> reply.matching, seen |-> items, given |-> given]
       [] /\ reply.filter = filter /\ filter = walk.filter /\ reply.cursor \in walk.given \ {0}
          /\ kind = "settings" => reply.cursor \in reply.matching ->
            [walk EXCEPT !.seen = @ \cup items, !.given = @ \cup given]
       [] OTHER -> NotWalking

\* Mutant of Answer: the selection outlives the page it was made on.
AnswerOnly(l) ==
  /\ loads[l] # NoReply /\ page' = loads[l]
  /\ loads' = [loads EXCEPT ![l] = NoReply] /\ loading' = FALSE
  /\ walk' = Walked(loads[l]) /\ UNCHANGED <<kind, server, view, pending, steps, turns>>

Answer(l) ==
  /\ loads[l] # NoReply /\ page' = loads[l]
  /\ loads' = [loads EXCEPT ![l] = NoReply] /\ loading' = FALSE
  /\ selected' = IF kind = "posts" THEN selected \cap ToSet(loads[l].items) ELSE {}
  /\ walk' = Walked(loads[l])
  /\ UNCHANGED <<kind, server, filter, cursorStack, pending, steps, turns>>

AnswerFails(l) ==
  /\ PageTurn /\ loads[l] # NoReply /\ loads' = [loads EXCEPT ![l] = NoReply] /\ loading' = FALSE
  /\ UNCHANGED <<server, page, view, pending, walk>>

PagerNext ==
  \/ ItemCreated \/ ItemGone \/ \E f \in {"all", "narrow"} : SetFilter(f)
  \/ Refresh \/ PreviousPage \/ NextPage \/ Toggle \/ ToggleAll
  \/ DeleteOne \/ DeleteSelected \/ ActAndReload \/ Delete \/ DeleteFails \/ Reload
  \/ \E l \in Reply : Answer(l) \/ AnswerFails(l)

PagerSpec == PagerInit /\ [][PagerNext]_pagerVars
-----------------------------------------------------------------------------
(* Walking the pages in order, forth and back, whatever is created and     *)
(* deleted on the way, every item that was there when the walk began and   *)
(* still is has been shown, up to the end of the page on display.          *)
NothingIsSkipped ==
  \A n \in (walk.since \cap Matching(walk.filter)) \ walk.seen : n < page.next

(* What a delete in bulk would take is on display.                         *)
SelectionIsShown == selected \subseteq ToSet(page.items)

ListsAreWhole == NothingIsSkipped /\ SelectionIsShown
=============================================================================
