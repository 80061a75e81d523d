-------------------------- MODULE MCReconciliation --------------------------
(***************************************************************************)
(* Reconciliation for TLC: the publish workers are alike.                  *)
(***************************************************************************)
EXTENDS Reconciliation, TLC

WorkerSymmetry == Permutations(Worker)
=============================================================================
