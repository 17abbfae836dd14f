----------------------------- MODULE SectorMap -----------------------------
(***************************************************************************)
(* What an extents tree promises: every sector of an inode is a hole, is   *)
(* reserved, or has copies on devices, each of them one sector of one      *)
(* write.  A write takes over its range whatever was there before and      *)
(* nothing else; losing a device takes its copies and moves no other.      *)
(***************************************************************************)
EXTENDS Integers

CONSTANTS Sectors, Devs, Replicas

VARIABLES
  map,    \* sector -> [copies, reserved]
  writes  \* number of the last write

vars == <<map, writes>>

Hole == [copies |-> {}, reserved |-> 0]

Init == map = [s \in Sectors |-> Hole] /\ writes = 0

Ranges == {lo..hi : lo, hi \in Sectors} \ {{}}

First(range) == CHOOSE s \in range : s - 1 \notin range

\* The map m after write w of a range, and after the other operations.
Written(m, w, range, devs) ==
  [s \in Sectors |-> IF s \notin range THEN m[s]
     ELSE [copies |-> {[dev |-> d, write |-> w, rel |-> s - First(range)] : d \in devs},
           reserved |-> 0]]

Reserved(m, range, n) ==
  [s \in Sectors |-> IF s \in range THEN [Hole EXCEPT !.reserved = n] ELSE m[s]]

Lost(m, range, devs) ==
  [s \in Sectors |-> IF s \notin range THEN m[s]
                     ELSE [m[s] EXCEPT !.copies = {c \in @ : c.dev \notin devs}]]

Write == \E m \in {map} :
  /\ writes' = writes + 1
  /\ map' \in {Written(m, writes', r, devs) : r \in Ranges, devs \in SUBSET Devs}

\* A discard reserves nothing.
Reserve == \E m \in {map} :
  /\ UNCHANGED writes
  /\ map' \in {Reserved(m, r, n) : r \in Ranges, n \in Replicas \union {0}}

Lose == \E m \in {map} :
  /\ UNCHANGED writes
  /\ map' \in {Lost(m, r, devs) : r \in Ranges, devs \in SUBSET Devs}

Next == Write \/ Reserve \/ Lose

Spec == Init /\ [][Next]_vars
=============================================================================
