---------------------------- MODULE MCZizqWorker -----------------------------
(* Model-checking instances of ZizqWorker. *)
EXTENDS ZizqWorkerInvariants, TLC

JobSymmetry == Permutations(Jobs)
=============================================================================
