-------------------------- MODULE MCReclaimWorker --------------------------
(* Instances of ReclaimWorker for TLC.                                       *)
EXTENDS ReclaimWorker, TLC

CONSTANTS c1, c2, c3, worker, nobody

Symmetry == Permutations(Client)
=============================================================================
