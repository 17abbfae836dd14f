---------------------------- MODULE MCWorkQueue ----------------------------
(* Instances of WorkQueue for TLC.                                           *)
EXTENDS WorkQueue, TLC

CONSTANTS c1, c2, worker, w1, w2, nowork, nobody

Symmetry == Permutations(Client) \cup Permutations(Work)
=============================================================================
