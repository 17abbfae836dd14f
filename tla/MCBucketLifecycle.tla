------------------------- MODULE MCBucketLifecycle -------------------------
(* Instances of BucketLifecycle for TLC.                                     *)
EXTENDS BucketLifecycle, TLC

CONSTANTS t1, t2, nobody

Symmetry == Permutations(Thread)
=============================================================================
