---------------------------- MODULE MCPostStatus ----------------------------
(***************************************************************************)
(* Evaluates PostStatus on every list of children up to MaxChildren, built *)
(* child by child, and on every change of one child.                       *)
(***************************************************************************)
EXTENDS PostStatus, Integers, FiniteSets, Sequences

CONSTANT MaxChildren

VARIABLE children

ParentOf(list) == DeriveContentPostStatus({list[i] : i \in DOMAIN list})

StatusInit == children = <<>>

AddChild ==
  /\ Len(children) < MaxChildren
  /\ \E s \in PlatformPostStatuses : children' = Append(children, s)

ChangeChild ==
  \E i \in DOMAIN children, s \in PlatformPostStatuses :
     children' = [children EXCEPT ![i] = s]

StatusNext == AddChild \/ ChangeChild

StatusSpec == StatusInit /\ [][StatusNext]_children
-----------------------------------------------------------------------------
CountIn(S) == Cardinality({i \in DOMAIN children : children[i] \in S})

(* The documented rule, stated by counting: with the withdrawn children    *)
(* left out, all published is PUBLISHED, all failed is FAILED, a mix of    *)
(* the two is PARTIALLY_PUBLISHED, and anything unfinished is PROCESSING   *)
(* when some child may be at the platform and QUEUED otherwise.            *)
DerivationFollowsTheRule ==
  LET n      == Len(children)
      gone   == CountIn(Withdrawn)
      good   == CountIn({"PUBLISHED"})
      bad    == CountIn({"FAILED"})
      remote == CountIn({"PROCESSING", "REMOTE_RESULT_UNKNOWN"})
      done   == gone + good + bad = n
  IN  /\ ParentOf(children) = "DRAFT"               <=> n = 0
      /\ ParentOf(children) = "CANCELLED"           <=> n > 0 /\ gone = n
      /\ ParentOf(children) = "PUBLISHED"           <=> done /\ good > 0 /\ bad = 0
      /\ ParentOf(children) = "FAILED"              <=> done /\ good = 0 /\ bad > 0
      /\ ParentOf(children) = "PARTIALLY_PUBLISHED" <=> done /\ good > 0 /\ bad > 0
      /\ ParentOf(children) = "PROCESSING"          <=> ~done /\ remote > 0
      /\ ParentOf(children) = "QUEUED"              <=> ~done /\ remote = 0
=============================================================================
