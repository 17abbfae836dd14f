---------------------------- MODULE MCTreeUpdate ----------------------------
(* TreeUpdate with two workloads: ascending puts up to a tree of three       *)
(* levels, and puts and deletes that split a leaf and merge the halves.      *)
EXTENDS TreeUpdate

put(k, v) == [k |-> k, v |-> v]
del(k) == [k |-> k, v |-> 0]

Puts(from, to) == [i \in 1..(to - from + 1) |-> put(from + i - 1, 1)]

Ascending == Puts(1, 11)
Shrinking == Puts(1, 5) \o <<del(2), del(3), del(4), put(2, 2), del(5)>>

MCWorkloads == {Ascending, Shrinking}
=============================================================================
