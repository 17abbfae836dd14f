----------------------------- MODULE MCJournal -----------------------------
(* Leaves and scenarios for model checking.                                  *)
EXTENDS Journal

CONSTANTS n1, n2

(* Commits, direct reclaim and leaf writes that fail beside a bootstrap      *)
(* root; and checkpoints with a record write that fails and a torn record.   *)
MCScenarios ==
    {[txns |-> 3, seq |-> 7, faults |-> 0, leafFaults |-> 1,
      bootstrap |-> {n}, checkpoints |-> FALSE, torn |-> FALSE] : n \in Node}
    \cup {[txns |-> 2, seq |-> 6, faults |-> 1, leafFaults |-> 0,
           bootstrap |-> {}, checkpoints |-> TRUE, torn |-> TRUE]}

(* The leaves are interchangeable, each being the root in some scenario.     *)
Symmetry == Permutations(Node)
=============================================================================
