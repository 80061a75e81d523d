--------------------------- MODULE ConfidentMutex ---------------------------
(***************************************************************************)
(* What a job lock promises to the functions that run under it: at any     *)
(* moment at most one of them is entitled to believe that it is the owner  *)
(* of the resource.  An owner may stop believing it for any reason (it is  *)
(* done, it crashed, it could not confirm its lease), and only then can    *)
(* another one start.                                                      *)
(***************************************************************************)
CONSTANTS Client, Nobody

VARIABLE owner

Init == owner = Nobody

Take(c) == owner = Nobody /\ owner' = c

GiveUp == owner # Nobody /\ owner' = Nobody

Next == GiveUp \/ \E c \in Client : Take(c)

Spec == Init /\ [][Next]_owner
=============================================================================
