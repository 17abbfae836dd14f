--------------------------- MODULE ReclaimWorker ---------------------------
(***************************************************************************)
(* The background journal reclaimer of the engine (engine.rs): one worker  *)
(* thread, the request/completion counters it shares with the callers of   *)
(* request_reclaim and wait_for_reclaim through one mutex and one condition *)
(* variable, and the shutdown when the last handle of the engine is        *)
(* dropped, possibly by the worker itself.                                 *)
(*                                                                         *)
(* A critical section of the control mutex that does not block is one      *)
(* step.  The fs mutex is a variable: metrics() takes the control mutex    *)
(* while holding it.  The journal is reduced to whether it is short of     *)
(* space (`pressure') and how many commits it has taken.                   *)
(***************************************************************************)
EXTENDS Naturals, Sequences, FiniteSets

CONSTANTS
    Client,       \* threads that own a handle of the engine
    Worker,       \* the reclaim thread
    Nobody,
    MaxOps,       \* bound: operations per client
    MaxBumps      \* bound: requests the worker raises itself

ASSUME ReclaimAssumption ==
    /\ Worker \notin Client /\ Nobody \notin Client \cup {Worker}
    /\ IsFiniteSet(Client) /\ MaxOps \in Nat /\ MaxBumps \in Nat

VARIABLES
    fs,        \* owner of the fs mutex
    journal,   \* pressure, commits; tried: the commits an attempt has covered
    ctl,       \* ReclaimState: requested, completed, running, stopping
    waiting,   \* threads blocked on the condition variable
    strong,    \* strong count of the Arc<EngineState>
    freed,     \* EngineState::drop has returned
    pc,        \* of every client and of the worker
    target,    \* client: the request wait_for_reclaim waits for
    run,       \* worker: the request it serves, where it goes on, its bumps
    ops,       \* client: operations begun
    seen       \* history: commits made when a request was raised

vars == <<fs, journal, ctl, waiting, strong, freed, pc, target, run, ops, seen>>

Thread == Client \cup {Worker}

Goto(t, label) == pc' = [pc EXCEPT ![t] = label]

(* Condvar::notify_all and notify_one: a woken thread takes the mutex again. *)
NotifyAll(t, label) ==
    /\ waiting' = {}
    /\ pc' = [u \in Thread |-> IF u = t THEN label
                               ELSE IF u \in waiting THEN "woken" ELSE pc[u]]
NotifyOne(t, label) ==
    \/ /\ waiting = {} /\ UNCHANGED waiting
       /\ Goto(t, label)
    \/ \E w \in waiting :
         /\ waiting' = waiting \ {w}
         /\ pc' = [pc EXCEPT ![w] = "woken", ![t] = label]

(* A new request is one more than the last.                                  *)
Raise == /\ ctl' = [ctl EXCEPT !.requested = @ + 1]
         /\ seen' = Append(seen, journal.commits)

Begin(c) == /\ pc[c] = "idle" /\ ops[c] < MaxOps
            /\ ops' = [ops EXCEPT ![c] = @ + 1]

-----------------------------------------------------------------------------
(* The clients.                                                              *)

(* commit_operations and flush_journal up to the end of their fs section.    *)
Commit(c) ==
    /\ Begin(c) /\ fs = Nobody
    /\ \E p \in {TRUE, journal.pressure} :
         journal' = [journal EXCEPT !.commits = @ + 1, !.pressure = p]
    /\ Goto(c, "sched")
    /\ UNCHANGED <<fs, ctl, waiting, strong, freed, target, run, seen>>

(* schedule_reclaim_if_needed.                                               *)
Schedule(c) ==
    /\ pc[c] = "sched" /\ fs = Nobody
    /\ Goto(c, IF journal.pressure THEN "request" ELSE "idle")
    /\ UNCHANGED <<fs, journal, ctl, waiting, strong, freed, target, run, ops, seen>>

RequestReclaim(c) ==
    /\ Begin(c) /\ Goto(c, "request")
    /\ UNCHANGED <<fs, journal, ctl, waiting, strong, freed, target, run, seen>>

(* request_reclaim_inner.  It refuses when `stopping' is set, which          *)
(* OwnedNotStopping shows no caller can meet.                                *)
Request(c) ==
    /\ pc[c] = "request" /\ ~ctl.stopping
    /\ Raise /\ Goto(c, "notify")
    /\ UNCHANGED <<fs, journal, waiting, strong, freed, target, run, ops>>

Notify(c) ==
    /\ pc[c] = "notify" /\ NotifyOne(c, "idle")
    /\ UNCHANGED <<fs, journal, ctl, strong, freed, target, run, ops, seen>>

(* wait_for_reclaim.                                                         *)
WaitForReclaim(c) ==
    /\ Begin(c)
    /\ target' = [target EXCEPT ![c] = ctl.requested]
    /\ Goto(c, "wait")
    /\ UNCHANGED <<fs, journal, ctl, waiting, strong, freed, run, seen>>

Return(c) == Goto(c, "idle") /\ target' = [target EXCEPT ![c] = 0]

(* The test of the loop: return, give up because the time has elapsed, or    *)
(* wait on the condition variable.                                           *)
WaitCheck(c) ==
    /\ pc[c] \in {"wait", "woken"}
    /\ \/ Return(c) /\ UNCHANGED waiting
       \/ /\ ctl.completed < target[c]
          /\ waiting' = waiting \cup {c} /\ Goto(c, "condvar")
          /\ UNCHANGED target
    /\ UNCHANGED <<fs, journal, ctl, strong, freed, run, ops, seen>>

(* The wait timed out: ReclaimTimeout, or Ok if the work is done after all.  *)
WaitTimedOut(c) ==
    /\ pc[c] = "timedout"
    /\ Return(c)
    /\ UNCHANGED <<fs, journal, ctl, waiting, strong, freed, run, ops, seen>>

(* metrics: reclaim_status is read under the fs mutex.                       *)
Metrics(c) ==
    /\ Begin(c) /\ fs = Nobody
    /\ fs' = c /\ Goto(c, "metrics")
    /\ UNCHANGED <<journal, ctl, waiting, strong, freed, target, run, seen>>

MetricsDone(c) ==
    /\ pc[c] = "metrics"
    /\ fs' = Nobody /\ Goto(c, "idle")
    /\ UNCHANGED <<journal, ctl, waiting, strong, freed, target, run, ops, seen>>

(* Mutant: every client that drops a handle runs the destructor.             *)
DropHandleAny(c) ==
    /\ pc[c] = "idle"
    /\ strong' = strong - 1
    /\ Goto(c, "drop")
    /\ UNCHANGED <<fs, journal, ctl, waiting, freed, target, run, ops, seen>>

(* A client drops its handle; the last one runs EngineState::drop.           *)
DropHandle(c) ==
    /\ pc[c] = "idle"
    /\ strong' = strong - 1
    /\ Goto(c, IF strong = 1 THEN "drop" ELSE "gone")
    /\ UNCHANGED <<fs, journal, ctl, waiting, freed, target, run, ops, seen>>

-----------------------------------------------------------------------------
(* The condition variable returns: its timeout, or no reason at all.         *)

Timeout(t) ==
    /\ t \in waiting
    /\ waiting' = waiting \ {t} /\ Goto(t, "timedout")
    /\ UNCHANGED <<fs, journal, ctl, strong, freed, target, run, ops, seen>>

Spurious(t) ==
    /\ t \in waiting
    /\ waiting' = waiting \ {t} /\ Goto(t, "woken")
    /\ UNCHANGED <<fs, journal, ctl, strong, freed, target, run, ops, seen>>

-----------------------------------------------------------------------------
(* reclaim_worker_loop.                                                      *)

(* The worker has read the control state: leave, serve the newest request,   *)
(* or go on as `otherwise' says.                                             *)
Dispatch(otherwise) ==
    \/ /\ ctl.stopping
       /\ Goto(Worker, "exit") /\ UNCHANGED <<ctl, run, waiting>>
    \/ /\ ~ctl.stopping /\ ctl.requested > ctl.completed
       /\ ctl' = [ctl EXCEPT !.running = TRUE]
       /\ run' = [run EXCEPT !.request = ctl.requested]
       /\ Goto(Worker, "upgrade_run") /\ UNCHANGED waiting
    \/ /\ ~ctl.stopping /\ ctl.requested <= ctl.completed
       /\ otherwise /\ UNCHANGED <<ctl, run>>

Check ==
    /\ pc[Worker] = "check"
    /\ Dispatch(waiting' = waiting \cup {Worker} /\ Goto(Worker, "condvar"))
    /\ UNCHANGED <<fs, journal, strong, freed, target, ops, seen>>

(* The 25 ms wait is over.                                                   *)
Woken ==
    /\ pc[Worker] = "woken"
    /\ Dispatch(Goto(Worker, "check") /\ UNCHANGED waiting)
    /\ UNCHANGED <<fs, journal, strong, freed, target, ops, seen>>

TimedOut ==
    /\ pc[Worker] = "timedout"
    /\ Dispatch(Goto(Worker, "upgrade") /\ UNCHANGED waiting)
    /\ UNCHANGED <<fs, journal, strong, freed, target, ops, seen>>

(* Weak::upgrade.                                                            *)
Upgrade ==
    /\ pc[Worker] \in {"upgrade", "upgrade_run"}
    /\ \/ strong = 0 /\ Goto(Worker, "exit") /\ UNCHANGED strong
       \/ /\ strong # 0 /\ strong' = strong + 1
          /\ Goto(Worker, IF pc[Worker] = "upgrade" THEN "needed" ELSE "run")
    /\ UNCHANGED <<fs, journal, ctl, waiting, freed, target, run, ops, seen>>

(* The worker's reference goes out of scope; it goes on at `next'.           *)
LeaveTo(next) == run' = [run EXCEPT !.next = next] /\ Goto(Worker, "release")

(* background_reclaim_needed.                                                *)
Needed ==
    /\ pc[Worker] = "needed" /\ fs = Nobody
    /\ \/ ~journal.pressure /\ LeaveTo("check")
       \/ /\ journal.pressure /\ run.bumps < MaxBumps
          /\ run' = [run EXCEPT !.bumps = @ + 1]
          /\ Goto(Worker, "bump")
       \/ journal.pressure /\ run.bumps = MaxBumps /\ LeaveTo("check")
    /\ UNCHANGED <<fs, journal, ctl, waiting, strong, freed, target, ops, seen>>

(* The worker raises a request, unless one came in, and notifies.            *)
Bump ==
    /\ pc[Worker] = "bump"
    /\ IF ctl.requested <= ctl.completed THEN Raise ELSE UNCHANGED <<ctl, seen>>
    /\ Goto(Worker, "bump_notify")
    /\ UNCHANGED <<fs, journal, waiting, strong, freed, target, run, ops>>

BumpNotify ==
    /\ pc[Worker] = "bump_notify" /\ NotifyOne(Worker, "release")
    /\ run' = [run EXCEPT !.next = "check"]
    /\ UNCHANGED <<fs, journal, ctl, strong, freed, target, ops, seen>>

(* reclaim_background_once: a checkpoint, which may fail and may leave the   *)
(* journal short of space.                                                   *)
Run ==
    /\ pc[Worker] = "run" /\ fs = Nobody
    /\ \E p \in {FALSE, journal.pressure} :
         journal' = [journal EXCEPT !.tried = journal.commits, !.pressure = p]
    /\ LeaveTo("finish")
    /\ UNCHANGED <<fs, ctl, waiting, strong, freed, target, ops, seen>>

(* Dropping the last reference runs EngineState::drop on the worker.         *)
Release ==
    /\ pc[Worker] = "release"
    /\ strong' = strong - 1
    /\ Goto(Worker, IF strong = 1 THEN "drop" ELSE run.next)
    /\ UNCHANGED <<fs, journal, ctl, waiting, freed, target, run, ops, seen>>

(* Mutant: completion covers the requests that came in meanwhile.            *)
FinishNewest ==
    /\ pc[Worker] = "finish"
    /\ ctl' = [ctl EXCEPT !.running = FALSE, !.completed = ctl.requested]
    /\ run' = [run EXCEPT !.request = 0]
    /\ Goto(Worker, "notify_all")
    /\ UNCHANGED <<fs, journal, waiting, strong, freed, target, ops, seen>>

Finish ==
    /\ pc[Worker] = "finish"
    /\ ctl' = [ctl EXCEPT !.running = FALSE,
                          !.completed = IF @ < run.request THEN run.request
                                        ELSE @]
    /\ run' = [run EXCEPT !.request = 0]
    /\ Goto(Worker, "notify_all")
    /\ UNCHANGED <<fs, journal, waiting, strong, freed, target, ops, seen>>

(* Mutant: nobody is told of the completion.                                 *)
FinishSilent ==
    /\ pc[Worker] = "notify_all" /\ Goto(Worker, "check")
    /\ UNCHANGED <<fs, journal, ctl, waiting, strong, freed, target, run, ops, seen>>

FinishNotify ==
    /\ pc[Worker] = "notify_all" /\ NotifyAll(Worker, "check")
    /\ UNCHANGED <<fs, journal, ctl, strong, freed, target, run, ops, seen>>

-----------------------------------------------------------------------------
(* EngineState::drop, by the thread that dropped the last reference.         *)

DropStop(t) ==
    /\ pc[t] = "drop"
    /\ ctl' = [ctl EXCEPT !.stopping = TRUE]
    /\ Goto(t, "drop_notify")
    /\ UNCHANGED <<fs, journal, waiting, strong, freed, target, run, ops, seen>>

DropNotify(t) ==
    /\ pc[t] = "drop_notify" /\ NotifyAll(t, "join")
    /\ UNCHANGED <<fs, journal, ctl, strong, freed, target, run, ops, seen>>

(* The join, which a worker that drops the engine itself leaves out.         *)
Join(t) ==
    /\ pc[t] = "join"
    /\ t = Worker \/ pc[Worker] = "exit"
    /\ freed' = TRUE
    /\ Goto(t, IF t = Worker THEN run.next ELSE "gone")
    /\ UNCHANGED <<fs, journal, ctl, waiting, strong, target, run, ops, seen>>

-----------------------------------------------------------------------------
Init ==
    /\ fs = Nobody
    /\ journal = [pressure |-> FALSE, commits |-> 0, tried |-> 0]
    /\ ctl = [requested |-> 0, completed |-> 0, running |-> FALSE,
              stopping |-> FALSE]
    /\ waiting = {} /\ strong = Cardinality(Client) /\ freed = FALSE
    /\ pc = [t \in Thread |-> IF t = Worker THEN "check" ELSE "idle"]
    /\ target = [c \in Client |-> 0]
    /\ run = [request |-> 0, next |-> "check", bumps |-> 0]
    /\ ops = [c \in Client |-> 0] /\ seen = <<>>

(* A client in the middle of an operation.                                   *)
ClientStep(c) ==
    \/ Schedule(c) \/ Request(c) \/ Notify(c) \/ WaitCheck(c) \/ WaitTimedOut(c)
    \/ MetricsDone(c) \/ DropStop(c) \/ DropNotify(c) \/ Join(c)

WorkerStep ==
    \/ Check \/ Woken \/ TimedOut \/ Upgrade \/ Needed \/ Bump \/ BumpNotify
    \/ Run \/ Release \/ Finish \/ FinishNotify
    \/ DropStop(Worker) \/ DropNotify(Worker) \/ Join(Worker)

(* Every client is gone and the worker has returned.                         *)
Terminated ==
    /\ \A c \in Client : pc[c] = "gone"
    /\ pc[Worker] = "exit"
    /\ UNCHANGED vars

Next ==
    \/ \E c \in Client :
         \/ Commit(c) \/ RequestReclaim(c) \/ WaitForReclaim(c) \/ Metrics(c)
         \/ DropHandle(c) \/ ClientStep(c)
    \/ \E t \in Thread : Timeout(t) \/ Spurious(t)
    \/ WorkerStep
    \/ Terminated

Spec == Init /\ [][Next]_vars

(* Threads inside a call run on; the worker's wait is at most 25 ms long,    *)
(* while a client may wait for as long as it likes.  The fs mutex is granted *)
(* to a worker that keeps asking.                                            *)
Fairness ==
    /\ WF_vars(WorkerStep) /\ SF_vars(Run) /\ SF_vars(Needed)
    /\ WF_vars(Timeout(Worker))
    /\ \A c \in Client : WF_vars(ClientStep(c))

FairSpec == Spec /\ Fairness

-----------------------------------------------------------------------------
(* Properties.                                                               *)

(* Types, and the two counts the code leaves to the standard library: the    *)
(* threads on the condition variable, and the strong references of the Arc,  *)
(* one for each handle and one for a worker that upgraded its Weak.          *)
TypeOK ==
    /\ fs \in Client \cup {Nobody}
    /\ journal.pressure \in BOOLEAN /\ journal.tried <= journal.commits
    /\ ctl.completed <= ctl.requested /\ ctl.requested = Len(seen)
    /\ waiting = {t \in Thread : pc[t] = "condvar"}
    /\ strong = Cardinality({c \in Client : pc[c] \notin
                               {"gone", "drop", "drop_notify", "join"}})
                + IF pc[Worker] \in {"needed", "bump", "bump_notify", "run",
                                     "release"} THEN 1 ELSE 0

(* A request counts as completed only after a checkpoint that began after    *)
(* the request was raised, so it covers every commit made before: requests   *)
(* that arrive while the worker runs are not coalesced into that run.        *)
CompletedCovers == \A r \in 1 .. ctl.completed : seen[r] <= journal.tried

(* While anybody owns a handle, request_reclaim_inner never finds the worker *)
(* stopping, and the worker has not returned.                                *)
OwnedNotStopping == strong # 0 => ~ctl.stopping /\ pc[Worker] # "exit"

(* EngineState is dropped once, and its destructor never returns while       *)
(* another thread, the worker included, still uses the fs through a          *)
(* reference.                                                                *)
FreedUnused == freed => strong = 0 /\ fs = Nobody /\ ctl.stopping

(* Every request is completed or the engine is shut down, even when          *)
(* notify_one wakes a waiter instead of the worker.                          *)
RequestServed ==
    \A n \in 1 .. MaxOps * Cardinality(Client) + MaxBumps :
        ctl.requested >= n ~> ctl.completed >= n \/ ctl.stopping

(* wait_for_reclaim returns although its timeout never fires.                *)
WaitReturns == \A c \in Client : pc[c] = "wait" ~> pc[c] = "idle"

(* Dropping the last handle ends: the worker returns, the destructor ends.   *)
ShutdownCompletes == strong = 0 ~> freed /\ pc[Worker] = "exit"

(* The engine outlives its users: what a client or the worker holds is never *)
(* an engine that was freed, and the shutdown starts only once no handle is  *)
(* left.                                                                     *)
LifetimeSafe == TypeOK /\ OwnedNotStopping /\ FreedUnused

(* Every request is served, every wait returns and the drop of the last      *)
(* handle ends, although notify_one may wake the wrong thread.               *)
CallsComplete == RequestServed /\ WaitReturns /\ ShutdownCompletes
=============================================================================
