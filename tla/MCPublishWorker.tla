--------------------------- MODULE MCPublishWorker ---------------------------
(***************************************************************************)
(* PublishWorker for TLC.  The workers of a process pool are alike, and no *)
(* invariant or action property tells them apart.                          *)
(***************************************************************************)
EXTENDS PublishWorker, TLC

WorkerSymmetry == Permutations(Worker)
=============================================================================
