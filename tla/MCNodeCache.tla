---------------------------- MODULE MCNodeCache ----------------------------
(* An instance of NodeCache: a root and two leaves on disk, five structs,    *)
(* and two hash functions, one of them without any spread.                   *)
EXTENDS NodeCache

MCNode == 1..5

MCKey == 1..7

MCSeeds == {[k \in MCKey |-> 0], [k \in MCKey |-> k]}
=============================================================================
