----------------------------- MODULE WorkQueue -----------------------------
(***************************************************************************)
(* A workqueue (util/workqueue.rs): one worker thread that runs the queued *)
(* work items one by one, and the clients that queue, flush, cancel and    *)
(* drain work and destroy the queue.  The worker and every waiting client  *)
(* share one condition variable, `wake'.                                   *)
(*                                                                         *)
(* The mutex `pending_work' protects the list only: the pending bits,      *)
(* current_work and shutdown are atomics that are read under the mutex but *)
(* written outside it, so the mutex is a variable here and a thread that   *)
(* has decided to wait still has to take the step that blocks it.          *)
(***************************************************************************)
EXTENDS Integers, Sequences, FiniteSets

CONSTANTS
    Client,       \* threads that use the queue
    Worker,       \* its worker thread
    Work,         \* work items
    NoWork, Nobody,
    Operations,   \* what the clients do: a set of names of Enter
    MaxOps        \* bound: operations per client

ASSUME WorkQueueAssumption ==
    /\ Worker \notin Client /\ Nobody \notin Client \cup {Worker}
    /\ NoWork \notin Work
    /\ Operations \subseteq {"queue", "flush", "cancel", "drain", "destroy"}
    /\ IsFiniteSet(Client) /\ MaxOps \in Nat

VARIABLES
    pending,   \* the list of queued items
    bit,       \* WORK_PENDING_BIT of every item
    current,   \* current_work
    shutdown,
    mutex,     \* owner of pending_work's mutex
    waiting,   \* threads blocked on the condition variable
    pc,        \* of every client and of the worker
    arg,       \* the item each thread is busy with
    ops,       \* client: operations begun
    ran,       \* history: how often each item has run
    accepted,  \* history: how often queue_work took each item
    cancelled, \* history: how often cancel_work_sync removed it
    due        \* history: runs each client's flush_work has to wait for

queue == <<pending, bit, current, shutdown>>
history == <<ran, accepted, cancelled, due>>
vars == <<queue, mutex, waiting, pc, arg, ops, history>>

Thread == Client \cup {Worker}

Goto(t, label) == pc' = [pc EXCEPT ![t] = label]

(* Condvar::wait: the mutex is released and the thread blocks.               *)
Block(t) ==
    /\ mutex = t /\ mutex' = Nobody
    /\ waiting' = waiting \cup {t} /\ Goto(t, "condvar")

(* A woken thread comes back to the label where it takes the mutex again.    *)
Resume(t) ==
    IF t = Worker THEN "take"
    ELSE CHOOSE l \in {"flush", "cancel", "drain"} : arg[t].op = l

NotifyAll(t, label) ==
    /\ waiting' = {}
    /\ pc' = [u \in Thread |-> IF u = t THEN label
                               ELSE IF u \in waiting THEN Resume(u) ELSE pc[u]]

NotifyOne(t, label) ==
    \/ waiting = {} /\ UNCHANGED waiting /\ Goto(t, label)
    \/ \E u \in waiting :
         /\ waiting' = waiting \ {u}
         /\ pc' = [pc EXCEPT ![u] = Resume(u), ![t] = label]

-----------------------------------------------------------------------------
(* The worker thread.                                                        *)

(* Under the mutex: take the first item, or leave, or decide to wait.        *)
WorkerTake ==
    /\ pc[Worker] = "take" /\ mutex = Nobody /\ pending # << >>
    /\ pending' = Tail(pending)
    /\ arg' = [arg EXCEPT ![Worker].work = Head(pending)]
    /\ Goto(Worker, "current")
    /\ UNCHANGED <<bit, current, shutdown, mutex, waiting, ops, history>>

(* Mutant: the shutdown is tested before the list.                           *)
WorkerExitEarly ==
    /\ pc[Worker] = "take" /\ mutex = Nobody /\ shutdown
    /\ Goto(Worker, "exited")
    /\ UNCHANGED <<queue, mutex, waiting, arg, ops, history>>

WorkerExit ==
    /\ pc[Worker] = "take" /\ mutex = Nobody /\ pending = << >> /\ shutdown
    /\ Goto(Worker, "exited")
    /\ UNCHANGED <<queue, mutex, waiting, arg, ops, history>>

WorkerIdle ==
    /\ pc[Worker] = "take" /\ mutex = Nobody /\ pending = << >> /\ ~shutdown
    /\ mutex' = Worker /\ Goto(Worker, "block")
    /\ UNCHANGED <<queue, waiting, arg, ops, history>>

WorkerBlock ==
    /\ pc[Worker] = "block" /\ Block(Worker)
    /\ UNCHANGED <<queue, arg, ops, history>>

WorkerCurrent ==
    /\ pc[Worker] = "current"
    /\ current' = arg[Worker].work /\ Goto(Worker, "clear")
    /\ UNCHANGED <<pending, bit, shutdown, mutex, waiting, arg, ops, history>>

WorkerClear ==
    /\ pc[Worker] = "clear"
    /\ bit' = [bit EXCEPT ![arg[Worker].work] = FALSE] /\ Goto(Worker, "run")
    /\ UNCHANGED <<pending, current, shutdown, mutex, waiting, arg, ops, history>>

(* func(work).                                                               *)
WorkerRun ==
    /\ pc[Worker] = "run"
    /\ ran' = [ran EXCEPT ![arg[Worker].work] = @ + 1]
    /\ arg' = [arg EXCEPT ![Worker].work = NoWork]
    /\ Goto(Worker, "done")
    /\ UNCHANGED <<queue, mutex, waiting, ops, accepted, cancelled, due>>

WorkerDone ==
    /\ pc[Worker] = "done"
    /\ current' = NoWork /\ Goto(Worker, "notify")
    /\ UNCHANGED <<pending, bit, shutdown, mutex, waiting, arg, ops, history>>

WorkerNotify ==
    /\ pc[Worker] = "notify" /\ NotifyAll(Worker, "take")
    /\ UNCHANGED <<queue, mutex, arg, ops, history>>

-----------------------------------------------------------------------------
(* The clients.                                                              *)

(* A client begins an operation.  Nobody uses the queue while another        *)
(* destroys it: the caller of destroy_workqueue owns it alone.               *)
Enter(c, operation, w) ==
    /\ pc[c] = "idle" /\ ops[c] < MaxOps /\ ~shutdown
    /\ operation \in Operations
    /\ ops' = [ops EXCEPT ![c] = @ + 1]
    /\ arg' = [arg EXCEPT ![c] = [op |-> operation, work |-> w]]

Return(c) == Goto(c, "idle")

(* The scans of the list that flush_work and cancel_work_sync do.            *)
Queued(w) == \E i \in DOMAIN pending : pending[i] = w

(* queue_work: the bit is tested and set, the item pushed, a thread woken.   *)
QueueWork(c, w) ==
    /\ Enter(c, "queue", w)
    /\ Goto(c, IF bit[w] THEN "idle" ELSE "push")
    /\ bit' = [bit EXCEPT ![w] = TRUE]
    /\ UNCHANGED <<pending, current, shutdown, mutex, waiting, history>>

QueuePush(c) ==
    /\ pc[c] = "push" /\ mutex = Nobody
    /\ pending' = Append(pending, arg[c].work)
    /\ accepted' = [accepted EXCEPT ![arg[c].work] = @ + 1]
    /\ Goto(c, "wake")
    /\ UNCHANGED <<bit, current, shutdown, mutex, waiting, arg, ops, ran, cancelled, due>>

QueueWake(c) ==
    /\ pc[c] = "wake" /\ NotifyOne(c, "idle")
    /\ UNCHANGED <<queue, mutex, arg, ops, history>>

(* flush_work.  The mutex is released between the scan and the wait.         *)
FlushWork(c, w) ==
    /\ Enter(c, "flush", w) /\ Goto(c, "flush")
    /\ due' = [due EXCEPT ![c] = accepted[w]]
    /\ UNCHANGED <<queue, mutex, waiting, ran, accepted, cancelled>>

FlushScan(c) ==
    /\ pc[c] = "flush" /\ mutex = Nobody
    /\ Goto(c, IF current = arg[c].work \/ Queued(arg[c].work) THEN "flush_wait" ELSE "idle")
    /\ UNCHANGED <<queue, mutex, waiting, arg, ops, history>>

FlushWait(c) ==
    /\ pc[c] = "flush_wait" /\ mutex = Nobody
    /\ waiting' = waiting \cup {c} /\ Goto(c, "condvar")
    /\ UNCHANGED <<queue, mutex, arg, ops, history>>

(* cancel_work_sync: the item leaves the list and loses its bit; the client  *)
(* keeps the mutex while it looks at current_work and decides to wait.       *)
CancelWork(c, w) ==
    /\ Enter(c, "cancel", w) /\ Goto(c, "remove")
    /\ UNCHANGED <<queue, mutex, waiting, history>>

(* Mutant: the first item is removed in place of the cancelled one.          *)
CancelRemoveFirst(c) ==
    LET w == arg[c].work
    IN  /\ pc[c] = "remove" /\ mutex = Nobody
        /\ mutex' = c /\ Goto(c, "cancel_test")
        /\ IF Queued(w)
           THEN /\ pending' = Tail(pending)
                /\ bit' = [bit EXCEPT ![w] = FALSE]
                /\ cancelled' = [cancelled EXCEPT ![w] = @ + 1]
           ELSE UNCHANGED <<pending, bit, cancelled>>
        /\ UNCHANGED <<current, shutdown, waiting, arg, ops, ran, accepted, due>>

CancelRemove(c) ==
    LET w == arg[c].work
    IN  /\ pc[c] = "remove" /\ mutex = Nobody
        /\ mutex' = c /\ Goto(c, "cancel_test")
        /\ IF Queued(w)
           THEN /\ \E i \in DOMAIN pending :
                     /\ pending[i] = w /\ \A j \in 1..i - 1 : pending[j] # w
                     /\ pending' = SubSeq(pending, 1, i - 1) \o SubSeq(pending, i + 1, Len(pending))
                /\ bit' = [bit EXCEPT ![w] = FALSE]
                /\ cancelled' = [cancelled EXCEPT ![w] = @ + 1]
           ELSE UNCHANGED <<pending, bit, cancelled>>
        /\ UNCHANGED <<current, shutdown, waiting, arg, ops, ran, accepted, due>>

(* A woken client takes the mutex and tests current_work again.              *)
CancelLock(c) ==
    /\ pc[c] = "cancel" /\ mutex = Nobody
    /\ mutex' = c /\ Goto(c, "cancel_test")
    /\ UNCHANGED <<queue, waiting, arg, ops, history>>

CancelTest(c) ==
    /\ pc[c] = "cancel_test"
    /\ IF current = arg[c].work
       THEN Goto(c, "block") /\ UNCHANGED mutex
       ELSE Return(c) /\ mutex' = Nobody
    /\ UNCHANGED <<queue, waiting, arg, ops, history>>

(* drain_workqueue, in the same way.                                         *)
DrainWorkqueue(c) ==
    /\ Enter(c, "drain", NoWork) /\ Goto(c, "drain")
    /\ UNCHANGED <<queue, mutex, waiting, history>>

DrainTest(c) ==
    /\ pc[c] = "drain" /\ mutex = Nobody
    /\ IF pending # << >> \/ current # NoWork
       THEN Goto(c, "block") /\ mutex' = c
       ELSE Return(c) /\ UNCHANGED mutex
    /\ UNCHANGED <<queue, waiting, arg, ops, history>>

ClientBlock(c) ==
    /\ pc[c] = "block" /\ Block(c)
    /\ UNCHANGED <<queue, arg, ops, history>>

(* destroy_workqueue: shutdown is stored and the threads are woken without   *)
(* the mutex; then the worker is joined and the list must be empty.          *)
DestroyWorkqueue(c) ==
    /\ Enter(c, "destroy", NoWork)
    /\ \A d \in Client \ {c} : pc[d] = "idle"
    /\ shutdown' = TRUE /\ Goto(c, "stop")
    /\ UNCHANGED <<pending, bit, current, mutex, waiting, history>>

DestroyNotify(c) ==
    /\ pc[c] = "stop" /\ NotifyAll(c, "join")
    /\ UNCHANGED <<queue, mutex, arg, ops, history>>

DestroyJoin(c) ==
    /\ pc[c] = "join" /\ pc[Worker] = "exited"
    /\ Goto(c, "destroyed")
    /\ UNCHANGED <<queue, mutex, waiting, arg, ops, history>>

-----------------------------------------------------------------------------
Init ==
    /\ pending = << >> /\ bit = [w \in Work |-> FALSE]
    /\ current = NoWork /\ shutdown = FALSE
    /\ mutex = Nobody /\ waiting = {}
    /\ pc = [t \in Thread |-> IF t = Worker THEN "take" ELSE "idle"]
    /\ arg = [t \in Thread |-> [op |-> "none", work |-> NoWork]]
    /\ ops = [c \in Client |-> 0]
    /\ ran = [w \in Work |-> 0] /\ accepted = ran /\ cancelled = ran
    /\ due = [c \in Client |-> 0]

(* Condvar::wait may return without a notification.                          *)
Spurious(t) ==
    /\ t \in waiting /\ waiting' = waiting \ {t}
    /\ Goto(t, Resume(t))
    /\ UNCHANGED <<queue, mutex, arg, ops, history>>

WorkerStep ==
    \/ WorkerTake \/ WorkerExit \/ WorkerIdle \/ WorkerBlock
    \/ WorkerCurrent \/ WorkerClear \/ WorkerRun \/ WorkerDone \/ WorkerNotify

Call(c) ==
    \/ \E w \in Work : QueueWork(c, w) \/ FlushWork(c, w) \/ CancelWork(c, w)
    \/ DrainWorkqueue(c) \/ DestroyWorkqueue(c)

ClientStep(c) ==
    \/ QueuePush(c) \/ QueueWake(c) \/ FlushScan(c) \/ FlushWait(c)
    \/ CancelRemove(c) \/ CancelLock(c) \/ CancelTest(c)
    \/ DrainTest(c) \/ ClientBlock(c)
    \/ DestroyNotify(c) \/ DestroyJoin(c)

Next ==
    \/ WorkerStep
    \/ \E c \in Client : Call(c) \/ ClientStep(c)
    \/ \E t \in Thread : Spurious(t)

Spec == Init /\ [][Next]_vars

(* The threads are scheduled fairly; nothing makes a client call, and        *)
(* nothing makes a condition variable wake up by itself.                     *)
FairSpec ==
    /\ Spec /\ SF_vars(WorkerStep) /\ \A c \in Client : SF_vars(ClientStep(c))

-----------------------------------------------------------------------------
Occurrences(w) == Cardinality({i \in DOMAIN pending : pending[i] = w})
Pushing(w) == Cardinality({c \in Client : pc[c] = "push" /\ arg[c].work = w})
Taken(w, labels) == IF arg[Worker].work = w /\ pc[Worker] \in labels THEN 1 ELSE 0

(* Types, and who holds the mutex (the thread between its decision to wait   *)
(* and the wait itself) or is blocked on the condition variable.             *)
TypeOK ==
    /\ pending \in Seq(Work) /\ bit \in [Work -> BOOLEAN]
    /\ current \in Work \cup {NoWork} /\ shutdown \in BOOLEAN
    /\ arg \in [Thread -> [op : Operations \cup {"none"}, work : Work \cup {NoWork}]]
    /\ ops \in [Client -> 0..MaxOps] /\ due \in [Client -> Nat]
    /\ {ran, accepted, cancelled} \subseteq [Work -> Nat]
    /\ \A t \in Thread : (mutex = t) <=> pc[t] \in {"block", "cancel_test"}
    /\ waiting = {t \in Thread : pc[t] = "condvar"}

(* The pending bit of an item is set exactly while one queue_work is about   *)
(* to push it, or it is in the list, or the worker has taken it and not yet  *)
(* cleared the bit; and it is never in two of these places, nor in the list  *)
(* twice (queue_work's fetch_or, worker_thread's and cancel's fetch_and).    *)
PendingExact ==
    \A w \in Work :
        Pushing(w) + Occurrences(w) + Taken(w, {"current", "clear"}) = IF bit[w] THEN 1 ELSE 0

(* No accepted item is lost or run twice: each accepted queue_work is a run, *)
(* a cancellation, or still in the list or in the worker's hands.            *)
RunsAccounted ==
    \A w \in Work :
        accepted[w] = ran[w] + cancelled[w] + Occurrences(w)
                      + Taken(w, {"current", "clear", "run"})

(* The assertion of destroy_workqueue: the list is empty once the worker has *)
(* been joined.                                                              *)
DestroyedEmpty ==
    \A c \in Client : pc[c] = "destroyed" => pending = << >> /\ current = NoWork

(* flush_work does not return before the items queued when it was called     *)
(* have run: workqueue_runs_pending_work_once_and_flushes reads RUNS next.   *)
FlushedRan ==
    [][\A c \in Client :
         pc[c] = "flush" /\ pc'[c] = "idle" =>
            ran[arg[c].work] + cancelled[arg[c].work] >= due[c]]_vars

(* flush_work returns once the item has run and is not queued again.         *)
FlushReturns == \A c \in Client : arg[c].op = "flush" ~> pc[c] = "idle"

(* destroy_workqueue returns: the worker sees the shutdown and exits.        *)
DestroyReturns == \A c \in Client : pc[c] = "stop" ~> pc[c] = "destroyed"

(* No item is lost or run twice: the pending bit tells whether it is queued, *)
(* and every queueing ends in one run or one cancellation.                   *)
ItemsAccounted == TypeOK /\ PendingExact /\ RunsAccounted
=============================================================================
