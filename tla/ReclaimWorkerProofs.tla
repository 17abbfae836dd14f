------------------------ MODULE ReclaimWorkerProofs ------------------------
(***************************************************************************)
(* Proofs about ReclaimWorker for any finite set of clients and any        *)
(* bounds: a completed request is covered by a checkpoint begun after it,  *)
(* and nobody uses an engine that was freed.                               *)
(***************************************************************************)
EXTENDS ReclaimWorker, FiniteSetTheorems, TLAPS

ClientLabel == {"idle", "sched", "request", "notify", "wait", "woken", "condvar",
                "timedout", "metrics", "drop", "drop_notify", "join", "gone"}
WorkerLabel == {"check", "woken", "condvar", "timedout", "upgrade", "upgrade_run",
                "needed", "bump", "bump_notify", "run", "release", "finish",
                "notify_all", "drop", "drop_notify", "join", "exit"}

Dropping == {"drop", "drop_notify", "join"}
Using == {"needed", "bump", "bump_notify", "run", "release"}

(* The clients that own a handle, and the reference of the worker.           *)
Handles == {c \in Client : pc[c] \notin {"gone", "drop", "drop_notify", "join"}}
Uses == IF pc[Worker] \in {"needed", "bump", "bump_notify", "run", "release"}
        THEN 1 ELSE 0

Types ==
    /\ fs \in Client \cup {Nobody}
    /\ journal \in [pressure : BOOLEAN, commits : Nat, tried : Nat]
    /\ ctl \in [requested : Nat, completed : Nat, running : BOOLEAN,
                stopping : BOOLEAN]
    /\ run \in [request : Nat, next : {"check", "finish"}, bumps : Nat]
    /\ seen \in Seq(Nat) /\ freed \in BOOLEAN
    /\ pc \in [Thread -> ClientLabel \cup WorkerLabel]
    /\ pc[Worker] \in WorkerLabel /\ \A c \in Client : pc[c] \in ClientLabel
    /\ waiting = {t \in Thread : pc[t] = "condvar"}

(* The references are counted, who drops the engine holds none and nobody    *)
(* else does, and a thread that has fs is in metrics().                      *)
Lifetime ==
    /\ strong = Cardinality(Handles) + Uses
    /\ \A t \in Thread : /\ pc[t] \in Dropping => strong = 0
                         /\ pc[t] \in {"drop_notify", "join"} => ctl.stopping
    /\ ctl.stopping \/ pc[Worker] = "exit" => strong = 0
    /\ freed => strong = 0 /\ ctl.stopping
    /\ fs # Nobody => pc[fs] = "metrics"

(* The worker has made the attempt for the request it serves.                *)
Served == \/ pc[Worker] = "finish"
          \/ pc[Worker] \in Dropping \cup {"release"} /\ run.next = "finish"

Coverage ==
    /\ journal.tried <= journal.commits
    /\ ctl.completed <= ctl.requested /\ ctl.requested = Len(seen)
    /\ run.request <= Len(seen)
    /\ \A r \in 1 .. Len(seen) : seen[r] <= journal.commits
    /\ \A r \in 1 .. ctl.completed : seen[r] <= journal.tried
    /\ Served => \A r \in 1 .. run.request : seen[r] <= journal.tried

IInv == Types /\ Lifetime /\ Coverage

-----------------------------------------------------------------------------
\* The strong count is a number; it is zero only without a handle and without
\* a worker that uses the engine.
LEMMA StrongZero ==
    ASSUME Types, strong = Cardinality(Handles) + Uses
    PROVE  /\ IsFiniteSet(Handles) /\ strong \in Nat
           /\ strong = 0 => Handles = {} /\ Uses = 0
<1>1. IsFiniteSet(Handles)
    BY FS_Subset, ReclaimAssumption DEF Handles
<1>2. Cardinality(Handles) \in Nat /\ (Cardinality(Handles) = 0 => Handles = {})
    BY <1>1, FS_CardinalityType, FS_EmptySet
<1>3. Uses \in {0, 1}
    BY DEF Uses
<1> QED
    BY <1>1, <1>2, <1>3

\* Initially every client has a handle and nothing was requested.
LEMMA InitIInv == Init => IInv
<1> SUFFICES ASSUME Init PROVE IInv
    OBVIOUS
<1> USE ReclaimAssumption DEF Init
<1>1. Types
  <2>1. pc \in [Thread -> ClientLabel \cup WorkerLabel] /\ pc[Worker] = "check"
        /\ \A c \in Client : pc[c] = "idle"
    BY DEF Thread, ClientLabel, WorkerLabel
  <2>2. waiting = {t \in Thread : pc[t] = "condvar"}
    BY <2>1 DEF Thread
  <2>3. seen \in Seq(Nat)
    OBVIOUS
  <2> QED
    BY <2>1, <2>2, <2>3 DEF Types, ClientLabel, WorkerLabel
<1>2. Handles = Client /\ Uses = 0
    BY DEF Handles, Uses, Thread
<1>3. Lifetime
    BY <1>2, FS_CardinalityType DEF Lifetime, Thread, Dropping
<1>4. Coverage
    BY DEF Coverage, Served, Dropping, Thread
<1> QED
    BY <1>1, <1>3, <1>4 DEF IInv

(* A thread goes to the label l, the threads of W are woken, and references  *)
(* stay where they are.                                                      *)
Moves(t, l, W) ==
    /\ pc' = [u \in Thread |-> IF u = t THEN l
                               ELSE IF u \in W THEN "woken" ELSE pc[u]]
    /\ waiting' = {u \in waiting : u # t /\ u \notin W}
                  \cup {u \in {t} : l = "condvar"}
    /\ IF t = Worker
       THEN l \in WorkerLabel /\ (l \in Using <=> pc[t] \in Using)
       ELSE /\ l \in ClientLabel
            /\ l \in Dropping \cup {"gone"} <=> pc[t] \in Dropping \cup {"gone"}
    /\ l \in Dropping \cup {"exit"} => strong = 0
    /\ l \in {"drop_notify", "join"} => ctl'.stopping
    /\ ctl.stopping => ctl'.stopping
    /\ ctl'.stopping => ctl.stopping \/ strong = 0
    /\ freed' => freed \/ (strong = 0 /\ ctl'.stopping)
    /\ \/ fs' = fs /\ pc[t] # "metrics"
       \/ fs' = Nobody
       \/ fs' = t /\ l = "metrics" /\ t \in Client
    /\ UNCHANGED strong

\* What such a step does to the labels, the waiting threads and the lifetime.
LEMMA MovesLifetime ==
    ASSUME Types, Lifetime, NEW t \in Thread, NEW l, NEW W \in SUBSET waiting,
           t \notin W, Moves(t, l, W)
    PROVE  /\ pc' \in [Thread -> ClientLabel \cup WorkerLabel]
           /\ pc'[Worker] \in WorkerLabel /\ \A d \in Client : pc'[d] \in ClientLabel
           /\ waiting' = {u \in Thread : pc'[u] = "condvar"}
           /\ pc'[Worker] = (IF t = Worker THEN l
                             ELSE IF Worker \in W THEN "woken" ELSE pc[Worker])
           /\ fs' \in Client \cup {Nobody}
           /\ Lifetime'
<1> USE ReclaimAssumption DEF Moves
<1>1. \A u \in Thread : pc'[u] = IF u = t THEN l ELSE IF u \in W THEN "woken" ELSE pc[u]
    OBVIOUS
<1>2. \A u \in W : u \in Thread /\ pc[u] = "condvar"
    BY DEF Types
<1>3. pc'[Worker] \in WorkerLabel /\ \A d \in Client : pc'[d] \in ClientLabel
    BY <1>1 DEF Types, Thread, ClientLabel, WorkerLabel
<1>4. pc' \in [Thread -> ClientLabel \cup WorkerLabel]
    BY <1>3 DEF Thread
<1>5. waiting' = {u \in Thread : pc'[u] = "condvar"}
    BY <1>1, <1>2 DEF Types
<1>6. Handles' = Handles
    BY <1>1, <1>2 DEF Handles, Thread, Dropping
<1>7. Uses' = Uses
    BY <1>1, <1>2 DEF Uses, Thread, Using
<1>8. fs' \in Client \cup {Nobody} /\ (fs' # Nobody => pc'[fs'] = "metrics")
    BY <1>1, <1>2 DEF Lifetime, Types, Thread
<1>9. \A u \in Thread : /\ pc'[u] \in Dropping => strong = 0
                        /\ pc'[u] \in {"drop_notify", "join"} => ctl'.stopping
    BY <1>1 DEF Lifetime, Dropping
<1>10. ctl'.stopping \/ pc'[Worker] = "exit" => strong = 0
    BY <1>1 DEF Lifetime, Thread
<1>11. Lifetime'
    BY <1>6, <1>7, <1>8, <1>9, <1>10 DEF Lifetime
<1> QED
    BY <1>1, <1>3, <1>4, <1>5, <1>8, <1>11 DEF Thread

\* Going to a label wakes nobody.
LEMMA GotoMoves ==
    ASSUME Types, NEW t \in Thread, NEW l, Goto(t, l)
    PROVE  pc' = [u \in Thread |-> IF u = t THEN l
                                   ELSE IF u \in {} THEN "woken" ELSE pc[u]]
BY DEF Types, Goto

\* notify_one wakes one thread of those that wait, if there is one.
LEMMA NotifyOneMoves ==
    ASSUME Types, NEW t \in Thread, NEW l, t \notin waiting, NotifyOne(t, l)
    PROVE  \E W \in SUBSET waiting :
             /\ pc' = [u \in Thread |-> IF u = t THEN l
                                        ELSE IF u \in W THEN "woken" ELSE pc[u]]
             /\ waiting' = {u \in waiting : u # t /\ u \notin W}
<1>1. CASE waiting = {} /\ UNCHANGED waiting /\ Goto(t, l)
    BY <1>1, GotoMoves
<1>2. ASSUME NEW w \in waiting, waiting' = waiting \ {w},
             pc' = [pc EXCEPT ![w] = "woken", ![t] = l]
      PROVE  /\ pc' = [u \in Thread |-> IF u = t THEN l
                                        ELSE IF u \in {w} THEN "woken" ELSE pc[u]]
             /\ waiting' = {u \in waiting : u # t /\ u \notin {w}}
    BY <1>2 DEF Types
<1>3. CASE \E w \in waiting : /\ waiting' = waiting \ {w}
                              /\ pc' = [pc EXCEPT ![w] = "woken", ![t] = l]
  <2> PICK w \in waiting : /\ waiting' = waiting \ {w}
                          /\ pc' = [pc EXCEPT ![w] = "woken", ![t] = l]
    BY <1>3
  <2> WITNESS {w} \in SUBSET waiting
  <2> QED
    BY <1>2
<1> QED
    BY <1>1, <1>3 DEF NotifyOne

\* The coverage part when no request, checkpoint or completion is counted.
LEMMA CoverageFrame ==
    ASSUME Types, Coverage, UNCHANGED <<seen, journal>>,
           ctl'.requested = ctl.requested, ctl'.completed = ctl.completed,
           run'.request = run.request, Served' => Served
    PROVE  Coverage'
BY DEF Coverage

-----------------------------------------------------------------------------
(* The clients *)

\* A client that moves and leaves the journal and the control state alone.
LEMMA ClientMovesIInv ==
    ASSUME IInv, NEW c \in Client, NEW l, NEW W \in SUBSET waiting, c \notin W,
           Moves(c, l, W), freed' \in BOOLEAN,
           ctl' \in [requested : Nat, completed : Nat, running : BOOLEAN,
                     stopping : BOOLEAN],
           ctl'.requested = ctl.requested, ctl'.completed = ctl.completed,
           UNCHANGED <<journal, run, seen>>
    PROVE  IInv'
<1>1. c \in Thread /\ c # Worker
    BY ReclaimAssumption DEF Thread
<1>2. Types' /\ Lifetime'
    BY <1>1, MovesLifetime DEF IInv, Types
<1>3. pc'[Worker] = IF Worker \in W THEN "woken" ELSE pc[Worker]
    BY <1>1, MovesLifetime DEF IInv
<1>4. Served' => Served
    BY <1>3 DEF Served, Dropping
<1> QED
    BY <1>2, <1>4, CoverageFrame DEF IInv

\* The steps of a client that only move it.
LEMMA ClientGoesIInv ==
    ASSUME IInv, NEW c \in Client,
           \/ Schedule(c) \/ RequestReclaim(c) \/ WaitForReclaim(c)
           \/ WaitCheck(c) \/ WaitTimedOut(c) \/ Metrics(c) \/ MetricsDone(c)
    PROVE  IInv'
<1> DEFINE Frame == ctl' = ctl /\ UNCHANGED <<journal, run, seen, freed, strong>>
<1> USE ReclaimAssumption
<1>1. c \in Thread /\ c # Worker /\ c # Nobody
    BY DEF Thread
<1>2. ASSUME NEW l \in ClientLabel \ (Dropping \cup {"gone"}), Goto(c, l), Frame,
             pc[c] \notin Dropping \cup {"gone", "condvar"},
             waiting' = waiting \cup {u \in {c} : l = "condvar"},
             \/ fs' = fs /\ pc[c] # "metrics"
             \/ fs' = Nobody
             \/ fs' = c /\ l = "metrics"
      PROVE  IInv'
  <2>1. c \notin waiting
    BY <1>2 DEF IInv, Types
  <2>2. Moves(c, l, {})
    <3>1. pc' = [u \in Thread |-> IF u = c THEN l
                                  ELSE IF u \in {} THEN "woken" ELSE pc[u]]
      BY <1>1, <1>2, GotoMoves DEF IInv
    <3>2. waiting' = {u \in waiting : u # c /\ u \notin {}} \cup {u \in {c} : l = "condvar"}
      BY <1>2, <2>1
    <3>3. l \in ClientLabel /\ l \notin Dropping \cup {"gone", "exit", "drop_notify", "join"}
      BY <1>2 DEF Dropping, ClientLabel
    <3>4. /\ ctl.stopping => ctl'.stopping
          /\ ctl'.stopping => ctl.stopping
          /\ freed' => freed
      BY <1>2
    <3>5. \/ fs' = fs /\ pc[c] # "metrics"
          \/ fs' = Nobody
          \/ fs' = c /\ l = "metrics" /\ c \in Client
      BY <1>2
    <3> QED
      BY <1>1, <1>2, <3>1, <3>2, <3>3, <3>4, <3>5 DEF Moves
  <2> QED
    BY <1>2, <2>2, ClientMovesIInv DEF IInv, Types
<1> USE DEF ClientLabel, Dropping
<1>3. CASE Schedule(c)
    BY <1>2, <1>3 DEF Schedule
<1>4. CASE RequestReclaim(c)
    BY <1>2, <1>4 DEF RequestReclaim, Begin
<1>5. CASE WaitForReclaim(c)
    BY <1>2, <1>5 DEF WaitForReclaim, Begin
<1>6. CASE WaitCheck(c)
    BY <1>2, <1>6 DEF WaitCheck, Return
<1>7. CASE WaitTimedOut(c)
    BY <1>2, <1>7 DEF WaitTimedOut, Return
<1>8. CASE Metrics(c)
    BY <1>2, <1>8 DEF Metrics, Begin
<1>9. CASE MetricsDone(c)
    BY <1>2, <1>9 DEF MetricsDone
<1> QED
    BY <1>3, <1>4, <1>5, <1>6, <1>7, <1>8, <1>9

\* A commit, after which the journal may be short of space.
LEMMA CommitIInv ==
    ASSUME IInv, NEW c \in Client, Commit(c)
    PROVE  IInv'
<1> USE ReclaimAssumption
<1>1. c \in Thread /\ c # Worker /\ c \notin waiting /\ pc[c] = "idle"
    BY DEF IInv, Types, Thread, Commit, Begin
<1>2. Moves(c, "sched", {})
  <2>1. waiting' = {u \in waiting : u # c /\ u \notin {}} \cup {u \in {c} : "sched" = "condvar"}
    BY <1>1 DEF Commit
  <2> QED
    BY <1>1, <2>1, GotoMoves DEF IInv, Commit, Moves, Dropping, ClientLabel
<1>3. PICK p \in {TRUE, journal.pressure} :
         journal' = [journal EXCEPT !.commits = @ + 1, !.pressure = p]
    BY DEF Commit
<1>4. /\ journal' \in [pressure : BOOLEAN, commits : Nat, tried : Nat]
      /\ journal'.commits = journal.commits + 1 /\ journal'.tried = journal.tried
  <2>1. journal \in [pressure : BOOLEAN, commits : Nat, tried : Nat] /\ p \in BOOLEAN
    BY DEF IInv, Types
  <2>2. journal' \in [pressure : BOOLEAN, commits : Nat, tried : Nat]
    <3>1. journal.commits + 1 \in Nat
      BY <2>1
    <3>2. ASSUME NEW n \in Nat, NEW q \in BOOLEAN
          PROVE  [journal EXCEPT !.commits = n, !.pressure = q]
                   \in [pressure : BOOLEAN, commits : Nat, tried : Nat]
      BY <2>1
    <3> QED
      BY <1>3, <2>1, <3>1, <3>2
  <2>3. journal'.commits = journal.commits + 1
    BY <1>3, <2>1
  <2>4. journal'.tried = journal.tried
    BY <1>3, <2>1
  <2> QED
    BY <2>2, <2>3, <2>4
<1>5. Types' /\ Lifetime' /\ pc'[Worker] = pc[Worker]
    BY <1>1, <1>2, <1>4, MovesLifetime DEF IInv, Types, Commit
<1>6. Coverage'
  <2>1. UNCHANGED <<seen, ctl, run>> /\ (Served' => Served)
    BY <1>5 DEF Commit, Served
  <2> QED
    BY <1>4, <2>1 DEF IInv, Types, Coverage
<1> QED
    BY <1>5, <1>6 DEF IInv

\* A request is the newest, and no commit comes after it yet.
LEMMA RaiseCoverage ==
    ASSUME Types, Coverage, Raise, UNCHANGED <<journal, run>>, Served' => Served
    PROVE  /\ ctl' \in [requested : Nat, completed : Nat, running : BOOLEAN,
                        stopping : BOOLEAN]
           /\ ctl'.stopping = ctl.stopping /\ seen' \in Seq(Nat)
           /\ Coverage'
<1>1. /\ ctl' \in [requested : Nat, completed : Nat, running : BOOLEAN,
                   stopping : BOOLEAN]
      /\ ctl'.stopping = ctl.stopping /\ ctl'.completed = ctl.completed
      /\ ctl'.requested = ctl.requested + 1
  <2>1. ctl \in [requested : Nat, completed : Nat, running : BOOLEAN, stopping : BOOLEAN]
    BY DEF Types
  <2>2. ctl' = [ctl EXCEPT !.requested = ctl.requested + 1]
    BY DEF Raise
  <2>3. ctl' \in [requested : Nat, completed : Nat, running : BOOLEAN, stopping : BOOLEAN]
    BY <2>1, <2>2
  <2>4. ctl'.stopping = ctl.stopping
    BY <2>1, <2>2
  <2>5. ctl'.completed = ctl.completed
    BY <2>1, <2>2
  <2>6. ctl'.requested = ctl.requested + 1
    BY <2>1, <2>2
  <2> QED
    BY <2>3, <2>4, <2>5, <2>6
<1>2. /\ seen' \in Seq(Nat) /\ Len(seen') = Len(seen) + 1
      /\ \A r \in 1 .. Len(seen) : seen'[r] = seen[r]
      /\ seen'[Len(seen) + 1] = journal.commits
    BY DEF Types, Raise
<1>3. Coverage'
  <2>1. \A r \in 1 .. Len(seen') : seen'[r] <= journal'.commits
    <3> TAKE r \in 1 .. Len(seen')
    <3>1. CASE r = Len(seen) + 1
      BY <1>2, <3>1 DEF Types
    <3>2. CASE r \in 1 .. Len(seen)
      BY <1>2, <3>2 DEF Types, Coverage
    <3> QED
      BY <1>2, <3>1, <3>2 DEF Types
  <2>2. \A r \in 1 .. ctl'.completed : seen'[r] <= journal'.tried
    BY <1>1, <1>2 DEF Types, Coverage
  <2>3. Served' => \A r \in 1 .. run'.request : seen'[r] <= journal'.tried
    BY <1>2 DEF Types, Coverage
  <2>4. /\ journal'.tried <= journal'.commits
        /\ ctl'.completed <= ctl'.requested /\ ctl'.requested = Len(seen')
        /\ run'.request <= Len(seen')
    BY <1>1, <1>2 DEF Types, Coverage
  <2> QED
    BY <2>1, <2>2, <2>3, <2>4 DEF Coverage
<1> QED
    BY <1>1, <1>2, <1>3

\* request_reclaim_inner.
LEMMA RequestIInv ==
    ASSUME IInv, NEW c \in Client, Request(c)
    PROVE  IInv'
<1> USE ReclaimAssumption
<1>1. c \in Thread /\ c # Worker /\ c \notin waiting /\ pc[c] = "request"
    BY DEF IInv, Types, Thread, Request
<1>2. ctl'.stopping = ctl.stopping
    BY DEF Request, Raise, IInv, Types
<1>3. Moves(c, "notify", {})
  <2>1. waiting' = {u \in waiting : u # c /\ u \notin {}} \cup {u \in {c} : "notify" = "condvar"}
    BY <1>1 DEF Request
  <2> QED
    BY <1>1, <1>2, <2>1, GotoMoves DEF IInv, Request, Moves, Dropping, ClientLabel
<1>4. pc'[Worker] = pc[Worker]
    BY <1>1, <1>3, MovesLifetime DEF IInv
<1>5. Served' => Served
    BY <1>4 DEF Served, Request
<1>6. Coverage' /\ seen' \in Seq(Nat)
      /\ ctl' \in [requested : Nat, completed : Nat, running : BOOLEAN, stopping : BOOLEAN]
    BY <1>5, RaiseCoverage DEF IInv, Request
<1>7. Types' /\ Lifetime'
    BY <1>1, <1>3, <1>6, MovesLifetime DEF IInv, Types, Request
<1> QED
    BY <1>6, <1>7 DEF IInv

\* A client notifies one thread, or runs the destructor of the engine.
LEMMA ClientNotifiesIInv ==
    ASSUME IInv, NEW c \in Client,
           Notify(c) \/ DropStop(c) \/ DropNotify(c) \/ Join(c)
    PROVE  IInv'
<1> USE ReclaimAssumption DEF ClientLabel, Dropping
<1>1. c \in Thread /\ c # Worker /\ c \notin waiting
    BY DEF IInv, Types, Thread, Notify, DropStop, DropNotify, Join
<1>2. CASE Notify(c)
  <2>1. PICK W \in SUBSET waiting :
          /\ pc' = [u \in Thread |-> IF u = c THEN "idle"
                                     ELSE IF u \in W THEN "woken" ELSE pc[u]]
          /\ waiting' = {u \in waiting : u # c /\ u \notin W}
    BY <1>1, <1>2, NotifyOneMoves DEF IInv, Notify
  <2>2. Moves(c, "idle", W)
    BY <1>1, <1>2, <2>1 DEF Notify, Moves
  <2> QED
    BY <1>1, <1>2, <2>2, ClientMovesIInv DEF IInv, Types, Notify
<1>3. CASE DropStop(c)
  <2>1. /\ ctl' \in [requested : Nat, completed : Nat, running : BOOLEAN, stopping : BOOLEAN]
        /\ ctl'.requested = ctl.requested /\ ctl'.completed = ctl.completed /\ ctl'.stopping
    BY <1>3 DEF DropStop, IInv, Types
  <2>2. strong = 0 /\ pc[c] = "drop"
    BY <1>1, <1>3 DEF DropStop, IInv, Lifetime
  <2>3. waiting' = {u \in waiting : u # c /\ u \notin {}} \cup {u \in {c} : "drop_notify" = "condvar"}
    BY <1>1, <1>3 DEF DropStop
  <2>4. Moves(c, "drop_notify", {})
    BY <1>1, <1>3, <2>1, <2>2, <2>3, GotoMoves DEF DropStop, Moves, IInv
  <2> QED
    BY <1>1, <1>3, <2>1, <2>4, ClientMovesIInv DEF IInv, Types, DropStop
<1>4. CASE DropNotify(c)
  <2>1. strong = 0 /\ pc[c] = "drop_notify" /\ ctl.stopping
    BY <1>1, <1>4 DEF DropNotify, IInv, Lifetime
  <2>2. waiting' = {u \in waiting : u # c /\ u \notin waiting} \cup {u \in {c} : "join" = "condvar"}
    BY <1>1, <1>4 DEF DropNotify, NotifyAll
  <2>3. Moves(c, "join", waiting)
    BY <1>1, <1>4, <2>1, <2>2 DEF DropNotify, NotifyAll, Moves
  <2> QED
    BY <1>1, <1>4, <2>3, ClientMovesIInv DEF IInv, Types, DropNotify
<1>5. CASE Join(c)
  <2>1. strong = 0 /\ pc[c] = "join" /\ ctl.stopping
    BY <1>1, <1>5 DEF Join, IInv, Lifetime
  <2>2. waiting' = {u \in waiting : u # c /\ u \notin {}} \cup {u \in {c} : "gone" = "condvar"}
    BY <1>1, <1>5 DEF Join
  <2>3. Moves(c, "gone", {})
    BY <1>1, <1>5, <2>1, <2>2, GotoMoves DEF Join, Moves, IInv
  <2> QED
    BY <1>1, <1>5, <2>3, ClientMovesIInv DEF IInv, Types, Join
<1> QED
    BY <1>2, <1>3, <1>4, <1>5

\* A client drops its handle.  If it was the last one nobody uses the engine.
LEMMA DropHandleIInv ==
    ASSUME IInv, NEW c \in Client, DropHandle(c)
    PROVE  IInv'
<1> USE ReclaimAssumption
<1> DEFINE l == IF strong = 1 THEN "drop" ELSE "gone"
<1>1. c \in Thread /\ c # Worker /\ c \in Handles /\ pc[c] = "idle"
    BY DEF Thread, Handles, DropHandle
<1>2. /\ \A u \in Thread : pc'[u] = IF u = c THEN l ELSE pc[u]
      /\ pc' \in [Thread -> ClientLabel \cup WorkerLabel]
    BY <1>1 DEF IInv, Types, DropHandle, Goto, ClientLabel
<1>3. Types'
  <2>1. waiting' = {u \in Thread : pc'[u] = "condvar"}
    BY <1>1, <1>2 DEF IInv, Types, DropHandle
  <2>2. pc'[Worker] \in WorkerLabel /\ \A d \in Client : pc'[d] \in ClientLabel
    BY <1>1, <1>2 DEF IInv, Types, Thread, ClientLabel
  <2> QED
    BY <1>2, <2>1, <2>2 DEF IInv, Types, DropHandle
<1>4. Uses' = Uses
    BY <1>1, <1>2 DEF Uses, Thread
<1>5. Handles' = Handles \ {c}
    BY <1>1, <1>2 DEF Handles, Thread
<1>6. /\ strong \in Nat /\ strong # 0 /\ strong' = strong - 1
      /\ strong' = Cardinality(Handles') + Uses'
  <2>1. IsFiniteSet(Handles) /\ strong \in Nat /\ strong # 0
    BY <1>1, StrongZero DEF IInv, Lifetime
  <2>2. Cardinality(Handles \ {c}) = Cardinality(Handles) - 1
    BY <1>1, <2>1, FS_RemoveElement
  <2>3. Uses \in {0, 1} /\ Cardinality(Handles) \in Nat
    BY <2>1, FS_CardinalityType DEF Uses
  <2> QED
    BY <1>4, <1>5, <2>1, <2>2, <2>3 DEF DropHandle, IInv, Lifetime
<1>7. /\ \A t \in Thread : pc[t] \notin Dropping
      /\ ~ctl.stopping /\ pc[Worker] # "exit" /\ ~freed
    BY <1>6 DEF IInv, Lifetime
<1>8. Lifetime'
  <2>1. \A t \in Thread : /\ pc'[t] \in Dropping => strong' = 0
                          /\ pc'[t] \in {"drop_notify", "join"} => ctl'.stopping
    BY <1>2, <1>6, <1>7 DEF Dropping
  <2>2. ~ctl'.stopping /\ pc'[Worker] # "exit" /\ ~freed'
    BY <1>1, <1>2, <1>7 DEF DropHandle, Thread
  <2>3. fs' # Nobody => pc'[fs'] = "metrics"
    BY <1>1, <1>2 DEF IInv, Types, Lifetime, DropHandle, Thread
  <2> QED
    BY <1>6, <2>1, <2>2, <2>3 DEF Lifetime
<1>9. Coverage'
  <2>1. Served' => Served
    BY <1>1, <1>2 DEF Served, DropHandle, Thread
  <2> QED
    BY <2>1, CoverageFrame DEF IInv, DropHandle
<1> QED
    BY <1>3, <1>8, <1>9 DEF IInv

-----------------------------------------------------------------------------
(* The condition variable and the worker *)

\* A thread leaves the condition variable.
LEMMA ReturnIInv ==
    ASSUME IInv, NEW t \in Thread, Timeout(t) \/ Spurious(t)
    PROVE  IInv'
<1> USE ReclaimAssumption DEF Timeout, Spurious
<1>1. pc[t] = "condvar" /\ t # Nobody
    BY DEF IInv, Types, Thread
<1>2. PICK l \in {"timedout", "woken"} : Goto(t, l)
    OBVIOUS
<1>3. Moves(t, l, {})
  <2>1. waiting' = {u \in waiting : u # t /\ u \notin {}} \cup {u \in {t} : l = "condvar"}
    BY <1>2
  <2>2. pc' = [u \in Thread |-> IF u = t THEN l ELSE IF u \in {} THEN "woken" ELSE pc[u]]
    BY <1>2, GotoMoves DEF IInv
  <2>3. /\ l \in WorkerLabel \cap ClientLabel /\ l \notin Using /\ pc[t] \notin Using
        /\ l \notin Dropping \cup {"gone", "exit"} /\ pc[t] \notin Dropping \cup {"gone"}
        /\ pc[t] # "metrics"
    BY <1>1 DEF Dropping, Using, ClientLabel, WorkerLabel
  <2>4. UNCHANGED <<ctl, freed, fs, strong>> /\ l \notin {"drop_notify", "join"}
    OBVIOUS
  <2> HIDE DEF Timeout, Spurious
  <2> QED
    BY <2>1, <2>2, <2>3, <2>4 DEF Moves
<1>4. Types' /\ Lifetime' /\ pc'[Worker] = IF t = Worker THEN l ELSE pc[Worker]
  <2>1. /\ pc' \in [Thread -> ClientLabel \cup WorkerLabel]
        /\ pc'[Worker] \in WorkerLabel /\ \A d \in Client : pc'[d] \in ClientLabel
        /\ waiting' = {u \in Thread : pc'[u] = "condvar"}
        /\ pc'[Worker] = IF t = Worker THEN l ELSE pc[Worker]
        /\ fs' \in Client \cup {Nobody} /\ Lifetime'
    <3> HIDE DEF Timeout, Spurious
    <3>1. Types /\ Lifetime /\ {} \in SUBSET waiting
      BY DEF IInv
    <3> QED
      BY <1>3, <3>1, MovesLifetime
  <2>2. UNCHANGED <<journal, ctl, run, seen, freed>>
    OBVIOUS
  <2> HIDE DEF Timeout, Spurious
  <2> QED
    BY <2>1, <2>2 DEF IInv, Types
<1>5. Served' => Served
    BY <1>4 DEF Served, Dropping
<1> QED
    BY <1>4, <1>5, CoverageFrame DEF IInv

\* The worker moves on, wakes the threads of W, and keeps its reference or has
\* none.
LEMMA WorkerMoves ==
    ASSUME IInv, NEW l \in WorkerLabel, NEW W \in SUBSET waiting,
           pc[Worker] # "condvar", l \in Using <=> pc[Worker] \in Using,
           l \in Dropping \cup {"exit"} => strong = 0,
           l \in {"drop_notify", "join"} => ctl'.stopping,
           ctl.stopping => ctl'.stopping,
           ctl'.stopping => ctl.stopping \/ strong = 0,
           freed' => freed \/ (strong = 0 /\ ctl'.stopping),
           pc' = [u \in Thread |-> IF u = Worker THEN l
                                   ELSE IF u \in W THEN "woken" ELSE pc[u]],
           waiting' = {u \in waiting : u \notin W} \cup {u \in {Worker} : l = "condvar"},
           UNCHANGED <<fs, strong>>
    PROVE  /\ pc' \in [Thread -> ClientLabel \cup WorkerLabel]
           /\ pc'[Worker] \in WorkerLabel /\ \A d \in Client : pc'[d] \in ClientLabel
           /\ waiting' = {u \in Thread : pc'[u] = "condvar"}
           /\ pc'[Worker] = l /\ fs' \in Client \cup {Nobody} /\ Lifetime'
<1>1. Worker \in Thread /\ Worker \notin waiting /\ pc[Worker] # "metrics"
    BY DEF IInv, Types, Thread, WorkerLabel
<1>2. waiting' = {u \in waiting : u # Worker /\ u \notin W} \cup {u \in {Worker} : l = "condvar"}
    BY <1>1
<1>3. Moves(Worker, l, W)
    BY <1>1, <1>2 DEF Moves
<1> QED
    BY <1>1, <1>3, MovesLifetime DEF IInv

\* The worker goes to a label and wakes nobody.
LEMMA WorkerGoes ==
    ASSUME IInv, NEW l \in WorkerLabel, Goto(Worker, l),
           pc[Worker] # "condvar", l \in Using <=> pc[Worker] \in Using,
           l \in Dropping \cup {"exit"} => strong = 0,
           l \in {"drop_notify", "join"} => ctl'.stopping,
           ctl.stopping => ctl'.stopping,
           ctl'.stopping => ctl.stopping \/ strong = 0,
           freed' => freed \/ (strong = 0 /\ ctl'.stopping),
           waiting' = waiting \cup {u \in {Worker} : l = "condvar"},
           UNCHANGED <<fs, strong>>
    PROVE  /\ pc' \in [Thread -> ClientLabel \cup WorkerLabel]
           /\ pc'[Worker] \in WorkerLabel /\ \A d \in Client : pc'[d] \in ClientLabel
           /\ waiting' = {u \in Thread : pc'[u] = "condvar"}
           /\ pc'[Worker] = l /\ fs' \in Client \cup {Nobody} /\ Lifetime'
<1>1. Worker \in Thread
    BY DEF Thread
<1>2. pc' = [u \in Thread |-> IF u = Worker THEN l ELSE IF u \in {} THEN "woken" ELSE pc[u]]
    BY <1>1, GotoMoves DEF IInv
<1>3. waiting' = {u \in waiting : u \notin {}} \cup {u \in {Worker} : l = "condvar"}
    OBVIOUS
<1>4. {} \in SUBSET waiting
    OBVIOUS
<1> QED
    BY <1>2, <1>3, <1>4, WorkerMoves

\* The worker reads the control state: it leaves, serves the newest request,
\* waits, or looks whether the journal needs it.
LEMMA DispatchIInv ==
    ASSUME IInv, Check \/ Woken \/ TimedOut
    PROVE  IInv'
<1> USE DEF Check, Woken, TimedOut
<1>1. /\ pc[Worker] \in {"check", "woken", "timedout"}
      /\ UNCHANGED <<fs, journal, strong, freed, seen>>
    OBVIOUS
<1>2. PICK l \in {"exit", "upgrade_run", "condvar", "check", "upgrade"} :
        /\ Goto(Worker, l) /\ (l = "exit" => ctl.stopping)
        /\ waiting' = waiting \cup {u \in {Worker} : l = "condvar"}
  <2>1. waiting = waiting \cup {u \in {Worker} : FALSE}
    OBVIOUS
  <2>2. waiting \cup {Worker} = waiting \cup {u \in {Worker} : TRUE}
    OBVIOUS
  <2> QED
    BY <2>1, <2>2 DEF Dispatch
<1>3. \/ UNCHANGED <<ctl, run>>
      \/ /\ ctl' = [ctl EXCEPT !.running = TRUE]
         /\ run' = [run EXCEPT !.request = ctl.requested]
    BY DEF Dispatch
<1>4. /\ ctl' \in [requested : Nat, completed : Nat, running : BOOLEAN, stopping : BOOLEAN]
      /\ ctl'.requested = ctl.requested /\ ctl'.completed = ctl.completed
      /\ ctl'.stopping = ctl.stopping
    BY <1>3 DEF IInv, Types
<1>5. /\ run' \in [request : Nat, next : {"check", "finish"}, bumps : Nat]
      /\ run'.request \in {run.request, ctl.requested}
    BY <1>3 DEF IInv, Types
<1>6. /\ pc' \in [Thread -> ClientLabel \cup WorkerLabel]
      /\ pc'[Worker] \in WorkerLabel /\ \A d \in Client : pc'[d] \in ClientLabel
      /\ waiting' = {u \in Thread : pc'[u] = "condvar"}
      /\ pc'[Worker] = l /\ fs' \in Client \cup {Nobody} /\ Lifetime'
  <2>1. /\ l \in WorkerLabel /\ pc[Worker] # "condvar"
        /\ l \in Using <=> pc[Worker] \in Using
        /\ l \notin Dropping /\ l \notin {"drop_notify", "join"}
    BY <1>1 DEF WorkerLabel, Using, Dropping
  <2>2. l = "exit" => strong = 0
    BY <1>2 DEF IInv, Lifetime
  <2> QED
    BY <1>1, <1>2, <1>4, <2>1, <2>2, WorkerGoes
<1>7. Types'
    BY <1>1, <1>4, <1>5, <1>6 DEF IInv, Types
<1>8. Coverage'
  <2>1. ~Served'
    BY <1>6 DEF Served, Dropping
  <2>2. run'.request <= Len(seen)
    BY <1>5 DEF IInv, Coverage
  <2> QED
    BY <1>1, <1>4, <2>1, <2>2 DEF IInv, Coverage
<1> QED
    BY <1>6, <1>7, <1>8 DEF IInv

\* Weak::upgrade counts the worker as one more user, or finds nobody left.
LEMMA UpgradeIInv ==
    ASSUME IInv, Upgrade
    PROVE  IInv'
<1> USE ReclaimAssumption
<1>1. CASE strong = 0 /\ Goto(Worker, "exit") /\ UNCHANGED strong
  <2>1. waiting' = waiting \cup {u \in {Worker} : "exit" = "condvar"}
    BY DEF Upgrade
  <2>2. /\ "exit" \in WorkerLabel /\ pc[Worker] # "condvar"
        /\ "exit" \in Using <=> pc[Worker] \in Using
        /\ "exit" \notin Dropping
    BY DEF WorkerLabel, Using, Dropping, Upgrade
  <2>3. Types' /\ Lifetime' /\ pc'[Worker] = "exit"
    BY <1>1, <2>1, <2>2, WorkerGoes DEF IInv, Types, Upgrade
  <2>4. ~Served'
    BY <2>3 DEF Served, Dropping
  <2> QED
    BY <2>3, <2>4, CoverageFrame DEF IInv, Upgrade
<1>2. CASE strong # 0 /\ strong' = strong + 1
           /\ Goto(Worker, IF pc[Worker] = "upgrade" THEN "needed" ELSE "run")
  <2>1. PICK l \in {"needed", "run"} : Goto(Worker, l)
    BY <1>2
  <2>2. /\ \A u \in Thread : pc'[u] = IF u = Worker THEN l ELSE pc[u]
        /\ pc' \in [Thread -> ClientLabel \cup WorkerLabel]
    BY <2>1 DEF IInv, Types, Goto, WorkerLabel, Thread
  <2>3. Types'
    <3>1. waiting' = {u \in Thread : pc'[u] = "condvar"}
      BY <2>2 DEF IInv, Types, Upgrade
    <3>2. pc'[Worker] \in WorkerLabel /\ \A d \in Client : pc'[d] \in ClientLabel
      BY <2>2 DEF IInv, Types, Thread, WorkerLabel
    <3> QED
      BY <2>2, <3>1, <3>2 DEF IInv, Types, Upgrade
  <2>4. Uses = 0 /\ Uses' = 1 /\ Handles' = Handles
    BY <2>2 DEF Uses, Handles, Thread, Upgrade
  <2>5. strong \in Nat /\ strong' = Cardinality(Handles') + Uses' /\ strong' # 0
    <3>1. IsFiniteSet(Handles) /\ strong \in Nat
      BY StrongZero DEF IInv, Lifetime
    <3>2. Cardinality(Handles) \in Nat
      BY <3>1, FS_CardinalityType
    <3> QED
      BY <1>2, <2>4, <3>1, <3>2 DEF IInv, Lifetime
  <2>6. /\ \A t \in Thread : pc[t] \notin Dropping
        /\ ~ctl.stopping /\ ~freed
    BY <1>2 DEF IInv, Lifetime
  <2>7. Lifetime'
    <3>1. \A t \in Thread : pc'[t] \notin Dropping
      BY <2>2, <2>6 DEF Dropping
    <3>2. ~ctl'.stopping /\ pc'[Worker] # "exit" /\ ~freed'
      BY <2>2, <2>6 DEF Upgrade, Thread
    <3>3. fs' # Nobody => pc'[fs'] = "metrics"
      BY <2>2 DEF IInv, Types, Lifetime, Upgrade, Thread
    <3> QED
      BY <2>5, <3>1, <3>2, <3>3 DEF Lifetime, Dropping
  <2>8. ~Served'
    BY <2>2 DEF Served, Dropping, Thread
  <2> QED
    BY <2>3, <2>7, <2>8, CoverageFrame DEF IInv, Upgrade
<1> QED
    BY <1>1, <1>2 DEF Upgrade

\* The worker lets go of its reference; with the last one it runs the
\* destructor, which keeps what the checkpoint has covered.
LEMMA ReleaseIInv ==
    ASSUME IInv, Release
    PROVE  IInv'
<1> USE ReclaimAssumption
<1>1. PICK l \in {"drop", "check", "finish"} :
        /\ Goto(Worker, l) /\ (l = "drop" <=> strong = 1)
        /\ l = "finish" => run.next = "finish"
    BY DEF Release, IInv, Types
<1>2. /\ \A u \in Thread : pc'[u] = IF u = Worker THEN l ELSE pc[u]
      /\ pc' \in [Thread -> ClientLabel \cup WorkerLabel]
    BY <1>1 DEF IInv, Types, Goto, WorkerLabel, Thread
<1>3. Types'
  <2>1. waiting' = {u \in Thread : pc'[u] = "condvar"}
    BY <1>2 DEF IInv, Types, Release
  <2>2. pc'[Worker] \in WorkerLabel /\ \A d \in Client : pc'[d] \in ClientLabel
    BY <1>2 DEF IInv, Types, Thread, WorkerLabel
  <2> QED
    BY <1>2, <2>1, <2>2 DEF IInv, Types, Release
<1>4. Uses = 1 /\ Uses' = 0 /\ Handles' = Handles
    BY <1>2 DEF Uses, Handles, Thread, Release
<1>5. strong \in Nat /\ strong # 0 /\ strong' = strong - 1
      /\ strong' = Cardinality(Handles') + Uses'
  <2>1. IsFiniteSet(Handles) /\ strong \in Nat
    BY StrongZero DEF IInv, Lifetime
  <2>2. Cardinality(Handles) \in Nat
    BY <2>1, FS_CardinalityType
  <2> QED
    BY <1>4, <2>1, <2>2 DEF IInv, Lifetime, Release
<1>6. /\ \A t \in Thread : pc[t] \notin Dropping
      /\ ~ctl.stopping /\ ~freed
    BY <1>5 DEF IInv, Lifetime
<1>7. Lifetime'
  <2>1. \A t \in Thread : /\ pc'[t] \in Dropping => strong' = 0
                          /\ pc'[t] \notin {"drop_notify", "join"}
    BY <1>1, <1>2, <1>5, <1>6 DEF Dropping
  <2>2. ~ctl'.stopping /\ pc'[Worker] # "exit" /\ ~freed'
    BY <1>2, <1>6 DEF Release, Thread
  <2>3. fs' # Nobody => pc'[fs'] = "metrics"
    BY <1>2 DEF IInv, Types, Lifetime, Release, Thread
  <2> QED
    BY <1>5, <2>1, <2>2, <2>3 DEF Lifetime
<1>8. Served' => Served
    BY <1>1, <1>2 DEF Served, Dropping, Thread, Release
<1> QED
    BY <1>3, <1>7, <1>8, CoverageFrame DEF IInv, Release

\* background_reclaim_needed, and the request the worker raises itself.
LEMMA NeededIInv ==
    ASSUME IInv, Needed \/ Bump \/ BumpNotify
    PROVE  IInv'
<1> USE DEF Using, Dropping, WorkerLabel
<1>1. CASE Needed
  <2>1. PICK l \in {"bump", "release"} :
          /\ Goto(Worker, l)
          /\ l = "release" => run'.next = "check"
    BY <1>1 DEF Needed, LeaveTo, IInv, Types
  <2>2. /\ run' \in [request : Nat, next : {"check", "finish"}, bumps : Nat]
        /\ run'.request = run.request
    <3>1. run.bumps + 1 \in Nat
      BY DEF IInv, Types
    <3> QED
      BY <1>1, <3>1 DEF Needed, LeaveTo, IInv, Types
  <2>3. waiting' = waiting \cup {u \in {Worker} : l = "condvar"}
    BY <1>1 DEF Needed
  <2>4. Types' /\ Lifetime' /\ pc'[Worker] = l
    BY <1>1, <2>1, <2>2, <2>3, WorkerGoes DEF IInv, Types, Needed
  <2>5. ~Served'
    BY <2>1, <2>4 DEF Served
  <2> QED
    BY <1>1, <2>2, <2>4, <2>5, CoverageFrame DEF IInv, Needed
<1>2. CASE Bump
  <2>1. ctl'.stopping = ctl.stopping
    BY <1>2 DEF Bump, Raise, IInv, Types
  <2>2. waiting' = waiting \cup {u \in {Worker} : "bump_notify" = "condvar"}
    BY <1>2 DEF Bump
  <2>3. /\ pc' \in [Thread -> ClientLabel \cup WorkerLabel]
        /\ pc'[Worker] \in WorkerLabel /\ \A d \in Client : pc'[d] \in ClientLabel
        /\ waiting' = {u \in Thread : pc'[u] = "condvar"}
        /\ pc'[Worker] = "bump_notify" /\ fs' \in Client \cup {Nobody} /\ Lifetime'
    BY <1>2, <2>1, <2>2, WorkerGoes DEF Bump
  <2>4. ~Served'
    BY <2>3 DEF Served
  <2>5. /\ Coverage' /\ seen' \in Seq(Nat)
        /\ ctl' \in [requested : Nat, completed : Nat, running : BOOLEAN, stopping : BOOLEAN]
    <3>1. CASE Raise
      BY <1>2, <2>4, <3>1, RaiseCoverage DEF IInv, Bump
    <3>2. CASE UNCHANGED <<ctl, seen>>
      BY <1>2, <2>4, <3>2, CoverageFrame DEF IInv, Types, Bump
    <3> QED
      BY <1>2, <3>1, <3>2 DEF Bump
  <2>6. Types'
    BY <1>2, <2>3, <2>5 DEF IInv, Types, Bump
  <2> QED
    BY <2>3, <2>5, <2>6 DEF IInv
<1>3. CASE BumpNotify
  <2>1. Worker \in Thread /\ Worker \notin waiting
    BY <1>3 DEF BumpNotify, IInv, Types, Thread
  <2>2. PICK W \in SUBSET waiting :
          /\ pc' = [u \in Thread |-> IF u = Worker THEN "release"
                                     ELSE IF u \in W THEN "woken" ELSE pc[u]]
          /\ waiting' = {u \in waiting : u # Worker /\ u \notin W}
    BY <1>3, <2>1, NotifyOneMoves DEF IInv, BumpNotify
  <2>3. waiting' = {u \in waiting : u \notin W} \cup {u \in {Worker} : "release" = "condvar"}
    BY <2>1, <2>2
  <2>4. /\ run' \in [request : Nat, next : {"check", "finish"}, bumps : Nat]
        /\ run'.request = run.request /\ run'.next = "check"
    BY <1>3 DEF BumpNotify, IInv, Types
  <2>5. Types' /\ Lifetime' /\ pc'[Worker] = "release"
    <3>1. UNCHANGED <<fs, journal, ctl, strong, freed, seen>> /\ pc[Worker] = "bump_notify"
      BY <1>3 DEF BumpNotify
    <3>2. /\ "release" \in WorkerLabel /\ ("release" \in Using <=> pc[Worker] \in Using)
          /\ "release" \notin Dropping \cup {"exit", "drop_notify", "join"}
      BY <3>1 DEF WorkerLabel, Using, Dropping
    <3>3. /\ pc' \in [Thread -> ClientLabel \cup WorkerLabel]
          /\ pc'[Worker] \in WorkerLabel /\ \A d \in Client : pc'[d] \in ClientLabel
          /\ waiting' = {u \in Thread : pc'[u] = "condvar"}
          /\ pc'[Worker] = "release" /\ fs' \in Client \cup {Nobody} /\ Lifetime'
      BY <2>2, <2>3, <3>1, <3>2, WorkerMoves
    <3> QED
      BY <2>4, <3>1, <3>3 DEF IInv, Types
  <2>6. ~Served'
    BY <2>4, <2>5 DEF Served
  <2> QED
    BY <1>3, <2>4, <2>5, <2>6, CoverageFrame DEF IInv, BumpNotify
<1> QED
    BY <1>1, <1>2, <1>3

\* reclaim_background_once covers every commit made so far, so every request.
LEMMA RunIInv ==
    ASSUME IInv, Run
    PROVE  IInv'
<1> USE DEF Using, Dropping, WorkerLabel
<1>1. waiting' = waiting \cup {u \in {Worker} : "release" = "condvar"}
    BY DEF Run
<1>2. PICK p \in {FALSE, journal.pressure} :
         journal' = [journal EXCEPT !.tried = journal.commits, !.pressure = p]
    BY DEF Run
<1>3. /\ journal' \in [pressure : BOOLEAN, commits : Nat, tried : Nat]
      /\ journal'.commits = journal.commits /\ journal'.tried = journal.commits
    BY <1>2 DEF IInv, Types
<1>4. /\ run' \in [request : Nat, next : {"check", "finish"}, bumps : Nat]
      /\ run'.request = run.request
    BY DEF Run, LeaveTo, IInv, Types
<1>5. Types' /\ Lifetime'
    BY <1>1, <1>3, <1>4, WorkerGoes DEF IInv, Types, Run, LeaveTo
<1>6. Coverage'
  <2>1. UNCHANGED <<seen, ctl>>
    BY DEF Run
  <2>2. \A r \in 1 .. Len(seen) : seen[r] <= journal'.tried
    BY <1>3 DEF IInv, Coverage
  <2>3. ctl.completed <= Len(seen) /\ run'.request <= Len(seen)
    BY <1>4 DEF IInv, Coverage
  <2>4. Len(seen) \in Nat /\ ctl.completed \in Nat /\ run'.request \in Nat
    BY <1>4 DEF IInv, Types
  <2>5. /\ \A r \in 1 .. ctl.completed : seen[r] <= journal'.tried
        /\ \A r \in 1 .. run'.request : seen[r] <= journal'.tried
    BY <2>2, <2>3, <2>4
  <2>6. journal'.tried <= journal'.commits
    BY <1>3 DEF IInv, Types
  <2> QED
    BY <1>3, <2>1, <2>2, <2>3, <2>5, <2>6 DEF IInv, Coverage
<1> QED
    BY <1>5, <1>6 DEF IInv

\* The worker completes the request it has served, and nothing newer.
LEMMA FinishIInv ==
    ASSUME IInv, Finish
    PROVE  IInv'
<1> USE DEF Using, Dropping, WorkerLabel
<1>1. waiting' = waiting \cup {u \in {Worker} : "notify_all" = "condvar"}
    BY DEF Finish
<1>2. PICK n \in {ctl.completed, run.request} :
        ctl' = [ctl EXCEPT !.running = FALSE, !.completed = n]
    BY DEF Finish, IInv, Types
<1>3. n \in Nat
    BY DEF IInv, Types
<1>4. /\ ctl' \in [requested : Nat, completed : Nat, running : BOOLEAN, stopping : BOOLEAN]
      /\ ctl'.requested = ctl.requested /\ ctl'.completed = n
      /\ ctl'.stopping = ctl.stopping
    BY <1>2, <1>3 DEF IInv, Types
<1>5. /\ run' \in [request : Nat, next : {"check", "finish"}, bumps : Nat]
      /\ run'.request = 0
    BY DEF Finish, IInv, Types
<1>6. Types' /\ Lifetime' /\ pc'[Worker] = "notify_all"
    BY <1>1, <1>4, <1>5, WorkerGoes DEF IInv, Types, Finish
<1>7. Coverage'
  <2>1. \A r \in 1 .. n : seen[r] <= journal.tried
    BY DEF IInv, Coverage, Served, Finish
  <2>2. n <= ctl.requested
    BY DEF IInv, Coverage
  <2>3. ~Served'
    BY <1>6 DEF Served
  <2>4. UNCHANGED <<seen, journal>> /\ run'.request <= Len(seen)
    BY <1>5 DEF Finish, IInv, Types
  <2> QED
    BY <1>4, <2>1, <2>2, <2>3, <2>4 DEF IInv, Coverage
<1> QED
    BY <1>6, <1>7 DEF IInv

\* The worker tells every thread of the completion, or runs the destructor.
LEMMA WorkerNotifiesIInv ==
    ASSUME IInv,
           FinishNotify \/ DropStop(Worker) \/ DropNotify(Worker) \/ Join(Worker)
    PROVE  IInv'
<1> USE DEF Using, Dropping, WorkerLabel
<1>1. Worker \in Thread /\ pc[Worker] # "condvar"
    BY DEF Thread, FinishNotify, DropStop, DropNotify, Join
<1>2. ASSUME NEW l \in {"check", "join"}, NotifyAll(Worker, l),
             pc[Worker] \in {"notify_all", "drop_notify"},
             l = "join" => pc[Worker] = "drop_notify",
             UNCHANGED <<fs, journal, ctl, strong, freed, target, run, ops, seen>>
      PROVE  IInv'
  <2>1. waiting' = {u \in waiting : u \notin waiting} \cup {u \in {Worker} : l = "condvar"}
    BY <1>2 DEF NotifyAll
  <2>2. l = "join" => strong = 0 /\ ctl.stopping
    BY <1>1, <1>2 DEF IInv, Lifetime
  <2>3. /\ pc' \in [Thread -> ClientLabel \cup WorkerLabel]
        /\ pc'[Worker] \in WorkerLabel /\ \A d \in Client : pc'[d] \in ClientLabel
        /\ waiting' = {u \in Thread : pc'[u] = "condvar"}
        /\ pc'[Worker] = l /\ fs' \in Client \cup {Nobody} /\ Lifetime'
    <3>1. /\ pc' = [u \in Thread |-> IF u = Worker THEN l
                                     ELSE IF u \in waiting THEN "woken" ELSE pc[u]]
          /\ waiting \in SUBSET waiting
      BY <1>2 DEF NotifyAll
    <3>2. /\ l \in WorkerLabel /\ (l \in Using <=> pc[Worker] \in Using)
          /\ l \notin {"drop", "drop_notify", "exit"}
      BY <1>2
    <3> QED
      BY <1>1, <1>2, <2>1, <2>2, <3>1, <3>2, WorkerMoves
  <2>4. Served' => Served
    BY <1>2, <2>3 DEF Served
  <2> QED
    BY <1>2, <2>3, <2>4, CoverageFrame DEF IInv, Types
<1>3. CASE FinishNotify
    BY <1>2, <1>3 DEF FinishNotify
<1>4. CASE DropNotify(Worker)
    BY <1>2, <1>4 DEF DropNotify
<1>5. CASE DropStop(Worker)
  <2>1. /\ ctl' \in [requested : Nat, completed : Nat, running : BOOLEAN, stopping : BOOLEAN]
        /\ ctl'.requested = ctl.requested /\ ctl'.completed = ctl.completed /\ ctl'.stopping
    BY <1>5 DEF DropStop, IInv, Types
  <2>2. strong = 0
    BY <1>1, <1>5 DEF DropStop, IInv, Lifetime
  <2>3. waiting' = waiting \cup {u \in {Worker} : "drop_notify" = "condvar"}
    BY <1>5 DEF DropStop
  <2>4. Types' /\ Lifetime' /\ pc'[Worker] = "drop_notify"
    BY <1>1, <1>5, <2>1, <2>2, <2>3, WorkerGoes DEF DropStop, IInv, Types
  <2>5. Served' => Served
    BY <1>5, <2>4 DEF Served, DropStop
  <2> QED
    BY <1>5, <2>1, <2>4, <2>5, CoverageFrame DEF IInv, DropStop
<1>6. CASE Join(Worker)
  <2>1. strong = 0 /\ ctl.stopping /\ run.next \in {"check", "finish"}
    BY <1>1, <1>6 DEF Join, IInv, Lifetime, Types
  <2>2. waiting' = waiting \cup {u \in {Worker} : run.next = "condvar"}
    BY <1>6, <2>1 DEF Join
  <2>3. Types' /\ Lifetime' /\ pc'[Worker] = run.next
    <3>1. /\ UNCHANGED <<fs, journal, ctl, strong, run, seen>> /\ freed' = TRUE
          /\ pc[Worker] = "join" /\ Goto(Worker, run.next)
      BY <1>6 DEF Join
    <3>2. /\ run.next \in WorkerLabel /\ (run.next \in Using <=> pc[Worker] \in Using)
          /\ run.next \notin Dropping \cup {"exit", "drop_notify", "join"}
      BY <2>1, <3>1 DEF WorkerLabel, Using, Dropping
    <3>3. /\ pc' \in [Thread -> ClientLabel \cup WorkerLabel]
          /\ pc'[Worker] \in WorkerLabel /\ \A d \in Client : pc'[d] \in ClientLabel
          /\ waiting' = {u \in Thread : pc'[u] = "condvar"}
          /\ pc'[Worker] = run.next /\ fs' \in Client \cup {Nobody} /\ Lifetime'
      BY <2>1, <2>2, <3>1, <3>2, WorkerGoes
    <3> QED
      BY <3>1, <3>3 DEF IInv, Types
  <2>4. Served' => Served
    BY <1>6, <2>1, <2>3 DEF Served, Join
  <2> QED
    BY <1>6, <2>3, <2>4, CoverageFrame DEF IInv, Join
<1> QED
    BY <1>3, <1>4, <1>5, <1>6

-----------------------------------------------------------------------------
\* Every step, of any client, of the worker and of the condition variable,
\* keeps the inductive invariant.
LEMMA StepIInv == IInv /\ [Next]_vars => IInv'
<1> SUFFICES ASSUME IInv, [Next]_vars PROVE IInv'
    OBVIOUS
<1>1. CASE UNCHANGED vars
    BY <1>1 DEF vars, IInv, Types, Lifetime, Handles, Uses, Coverage, Served
<1>2. ASSUME NEW c \in Client,
             \/ Commit(c) \/ RequestReclaim(c) \/ WaitForReclaim(c) \/ Metrics(c)
             \/ DropHandle(c) \/ ClientStep(c)
      PROVE  IInv'
    BY <1>2, ClientGoesIInv, CommitIInv, RequestIInv, ClientNotifiesIInv, DropHandleIInv
       DEF ClientStep
<1>3. ASSUME NEW t \in Thread, Timeout(t) \/ Spurious(t)
      PROVE  IInv'
    BY <1>3, ReturnIInv
<1>4. CASE WorkerStep
    BY <1>4, DispatchIInv, UpgradeIInv, NeededIInv, RunIInv, ReleaseIInv, FinishIInv,
       WorkerNotifiesIInv DEF WorkerStep
<1> QED
    BY <1>1, <1>2, <1>3, <1>4 DEF Next, Terminated

\* A completed request is covered by a checkpoint begun after it was raised:
\* what reclaim_worker_loop stores in `completed', for any number of clients.
THEOREM CompletedCoversAlways == Spec => []CompletedCovers
<1>1. IInv => CompletedCovers
    BY DEF IInv, Coverage, CompletedCovers
<1> QED
    BY <1>1, InitIInv, StepIInv, PTL DEF Spec

\* The engine outlives its users: the counts of Arc and Condvar are right, no
\* caller finds the worker stopping, and EngineState::drop returns only when
\* nobody holds a reference or the fs mutex.
THEOREM LifetimeSafeAlways == Spec => []LifetimeSafe
<1>1. IInv => LifetimeSafe
  <2> SUFFICES ASSUME IInv PROVE LifetimeSafe
    OBVIOUS
  <2>1. TypeOK
    BY DEF TypeOK, IInv, Types, Lifetime, Coverage, Handles, Uses
  <2>2. OwnedNotStopping
    BY DEF OwnedNotStopping, IInv, Lifetime
  <2>3. freed => fs = Nobody
    <3> SUFFICES ASSUME freed, fs # Nobody PROVE FALSE
      OBVIOUS
    <3>1. fs \in Handles
      BY DEF IInv, Types, Lifetime, Handles
    <3> QED
      BY <3>1, StrongZero DEF IInv, Lifetime
  <2>4. FreedUnused
    BY <2>3 DEF FreedUnused, IInv, Lifetime
  <2> QED
    BY <2>1, <2>2, <2>4 DEF LifetimeSafe
<1> QED
    BY <1>1, InitIInv, StepIInv, PTL DEF Spec
=============================================================================
