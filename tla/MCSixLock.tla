----------------------------- MODULE MCSixLock -----------------------------
(* Model-checking instance of SixLock: every task waits with the default     *)
(* six_lock_waiter, whose trans_start_time is 0.                             *)
EXTENDS SixLock

CONSTANTS t1, t2, t3

SameTime == [t \in Task |-> 0]
=============================================================================
