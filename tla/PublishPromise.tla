--------------------------- MODULE PublishPromise ---------------------------
(***************************************************************************)
(* What publishing promises the user, whatever workers, queues and locks   *)
(* do underneath: a post is put on its platform at most once; it is        *)
(* reported published only after that, and for good; it is reported failed *)
(* only while nothing of it is on the platform, and may then be tried      *)
(* again.                                                                  *)
(***************************************************************************)
EXTENDS Naturals

CONSTANT Post

VARIABLES report,   \* what the user is told
          copies    \* what is on the platform

Init == /\ report = [p \in Post |-> "open"]
        /\ copies = [p \in Post |-> 0]

Publish(p) == /\ report[p] = "open" /\ copies[p] = 0
              /\ copies' = [copies EXCEPT ![p] = 1]
              /\ UNCHANGED report

Record(p) == /\ report[p] = "open" /\ copies[p] = 1
             /\ report' = [report EXCEPT ![p] = "published"]
             /\ UNCHANGED copies

Fail(p) == /\ report[p] = "open" /\ copies[p] = 0
           /\ report' = [report EXCEPT ![p] = "failed"]
           /\ UNCHANGED copies

TryAgain(S) == /\ \A p \in S : report[p] = "failed"
               /\ report' = [p \in Post |-> IF p \in S THEN "open" ELSE report[p]]
               /\ UNCHANGED copies

Next == \/ \E p \in Post : Publish(p) \/ Record(p) \/ Fail(p)
        \/ \E S \in SUBSET Post : TryAgain(S)

Spec == Init /\ [][Next]_<<report, copies>>
=============================================================================
