-------------------------- MODULE BucketWorkProofs --------------------------
(***************************************************************************)
(* The operations of the open engine keep CountInv of DerivedStateProofs   *)
(* and the bookkeeping of the calls, for any number of threads, buckets,   *)
(* slots, operations and crashes, whatever pointers the callers bring      *)
(* along: where every call stands (Control), the types of the claims       *)
(* (Claims) and the buckets in flight (InflightExact).  WorkAccounted      *)
(* follows.                                                                *)
(***************************************************************************)
EXTENDS BucketLifecycle, DerivedStateProofs

(* The steps of a call that has a bucket, those in which only a worker is,   *)
(* and those in which the fs mutex is held.                                  *)
Busy == {"discard", "reclaim", "commit", "defer", "done", "abort"}
Handed == {"defer", "done", "abort"}
Mutex == {"alloc", "commit"}
Label == Busy \cup Mutex \cup {"idle", "discover", "round", "pop"}

Job == [bucket : Bucket \cup {0}, scan : SUBSET Bucket, round : Int,
        deferred : BOOLEAN, worker : BOOLEAN, once : BOOLEAN, checked : BOOLEAN]

Placed(l, j) == /\ j.worker => l \in Busy
                /\ l \in Handed => j.worker
                /\ l \in Busy => j.bucket \in Bucket

Control ==
    /\ pc \in [Thread -> Label] /\ job \in [Thread -> Job]
    /\ fs \in Thread \cup {Nobody}
    /\ \A t \in Thread : Placed(pc[t], job[t])
    /\ \A t \in Thread : pc[t] \in Mutex <=> fs = t
    /\ ~Up => \A t \in Thread : pc[t] = "idle"

Claims ==
    /\ open \subseteq Bucket /\ rw \in BOOLEAN
    /\ queue \in Seq(Bucket) /\ inflight \subseteq Bucket
    /\ mine \in [Thread -> SUBSET (Bucket \X (0 .. 255))]

WorkInv == CountInv /\ Control /\ Claims /\ InflightExact

-----------------------------------------------------------------------------
(* Control: a call moves to another label with another job.                  *)
Moves(t, l, j) == pc' = [pc EXCEPT ![t] = l] /\ job' = [job EXCEPT ![t] = j]

(* The fs mutex is kept, taken or released.                                  *)
Locks(t, l) ==
    \/ fs' = fs /\ (l \in Mutex <=> pc[t] \in Mutex)
    \/ fs = Nobody /\ fs' = t /\ l \in Mutex
    \/ fs' = Nobody /\ pc[t] \in Mutex /\ l \notin Mutex

\* A thread that moves to a label, with a job of the shape that label asks for
\* and the mutex it needs, keeps the control invariant.
LEMMA ControlStep ==
    ASSUME Control, NEW t \in Thread, NEW l \in Label, NEW j \in Job,
           Moves(t, l, j), Placed(l, j), Locks(t, l), Up'
    PROVE  Control'
  <1>1. /\ pc' \in [Thread -> Label] /\ pc'[t] = l
        /\ \A u \in Thread \ {t} : pc'[u] = pc[u]
    BY DEF Control, Moves
  <1>2. /\ job' \in [Thread -> Job] /\ job'[t] = j
        /\ \A u \in Thread \ {t} : job'[u] = job[u]
    BY DEF Control, Moves
  <1>3. \A u \in Thread : Placed(pc'[u], job'[u])
    BY <1>1, <1>2 DEF Control
  <1>4. fs' \in Thread \cup {Nobody} /\ \A u \in Thread : pc'[u] \in Mutex <=> fs' = u
    BY <1>1, LifecycleAssumption DEF Control, Locks
  <1> QED
    BY <1>1, <1>2, <1>3, <1>4 DEF Control, Placed

(* A call that leaves the discards alone.                                    *)
Keeps(t) ==
    \E l \in Label, j \in Job :
      /\ Moves(t, l, j) /\ Placed(l, j) /\ Locks(t, l)
      /\ j.worker = job[t].worker /\ (j.worker => j.bucket = job[t].bucket)

\* A step of a thread that keeps its claim on a bucket disturbs neither the
\* control nor the inflight set.
LEMMA KeepsStep ==
    ASSUME Control, InflightExact, NEW t \in Thread, Keeps(t), Up',
           UNCHANGED <<queue, inflight>>
    PROVE  Control' /\ InflightExact'
  <1>1. PICK l \in Label, j \in Job :
          /\ Moves(t, l, j) /\ Placed(l, j) /\ Locks(t, l)
          /\ j.worker = job[t].worker /\ (j.worker => j.bucket = job[t].bucket)
    BY DEF Keeps
  <1>2. Control'
    BY <1>1, ControlStep
  <1>3. \A u \in Thread : /\ job'[u].worker = job[u].worker
                          /\ job[u].worker => job'[u].bucket = job[u].bucket
    BY <1>1 DEF Control, Moves
  <1>4. InflightExact'
    BY <1>3 DEF InflightExact, Queued
  <1> QED
    BY <1>2, <1>4

-----------------------------------------------------------------------------
(* The calls that leave the discards alone.                                  *)
LEMMA IdleJob ==
    /\ Idle \in Job /\ Idle.worker = FALSE
    /\ \A l \in Label \ Busy : Placed(l, Idle)
  BY DEF Idle, Job, Placed, Handed, Busy

\* The job of a thread has the shape its label asks for.
LEMMA JobOf ==
    ASSUME Control, NEW t \in Thread
    PROVE  job[t] \in Job /\ pc[t] \in Label /\ Placed(pc[t], job[t])
  BY DEF Control

\* Return of a call drops no claim of the worker.
LEMMA KeepsReturn ==
    ASSUME Control, NEW t \in Thread, ~job[t].worker, Return(t), Locks(t, "idle")
    PROVE  Keeps(t)
  <1>1. Moves(t, "idle", Idle)
    BY DEF Return, Goto, Moves
  <1>2. "idle" \in Label \ Busy
    BY DEF Label, Busy
  <1>3. Idle.worker = job[t].worker
    BY JobOf, IdleJob DEF Job
  <1> QED
    BY <1>1, <1>2, <1>3, IdleJob DEF Keeps

\* Finish ends a call and keeps the claim of a worker that has one.
LEMMA KeepsFinish ==
    ASSUME Control, NEW t \in Thread, NEW r, Finish(t, r), pc[t] \in Busy,
           \A l \in Label \ Mutex : Locks(t, l)
    PROVE  Keeps(t)
  <1>1. CASE ~job[t].worker
    <2>1. Locks(t, "idle")
      BY DEF Label, Mutex
    <2> QED
      BY <1>1, <2>1, KeepsReturn DEF Finish
  <1>2. CASE job[t].worker
    <2> DEFINE j == [job[t] EXCEPT !.checked = FALSE]
    <2>1. PICK l \in Handed : Goto(t, l) /\ job' = [job EXCEPT ![t].checked = FALSE]
      BY <1>2 DEF Finish, Handed
    <2>2. j \in Job /\ j.worker = job[t].worker /\ j.bucket = job[t].bucket
      BY JobOf, ZenonT(40) DEF Job
    <2>3. Moves(t, l, j)
      BY <2>1 DEF Goto, Moves
    <2>4. l \in Label /\ Locks(t, l) /\ l \in Busy
      BY <2>1 DEF Label, Handed, Busy, Mutex
    <2>5. Placed(l, j)
      <3> HIDE DEF j
      <3> QED
        BY <1>2, <2>2, <2>4, JobOf DEF Placed
    <2> HIDE DEF j
    <2> QED
      BY <2>2, <2>3, <2>4, <2>5 DEF Keeps
  <1> QED
    BY <1>1, <1>2

(* A call begins: nothing is in the hands of the thread.                     *)
LEMMA KeepsCall ==
    ASSUME Control, NEW t \in Thread,
           \/ Allocate(t) \/ Reclaim(t) \/ Discard(t) \/ Discover(t)
           \/ RunWorker(t) \/ RunWorkerOnce(t),
           tr.needDiscard \subseteq Bucket
    PROVE  Keeps(t)
  <1>1. pc[t] = "idle" /\ ~job[t].worker /\ job[t] \in Job
    BY JobOf DEF Allocate, Reclaim, Discard, Discover, RunWorker, RunWorkerOnce, Begin,
                 Placed, Busy
  <1>2. CASE Allocate(t)
    <2>1. Moves(t, "alloc", job[t])
      BY <1>1, <1>2 DEF Allocate, Goto, Moves, Control
    <2>2. "alloc" \in Label /\ Placed("alloc", job[t]) /\ Locks(t, "alloc")
      BY <1>1, <1>2 DEF Allocate, Label, Placed, Handed, Busy, Locks, Mutex
    <2> QED
      BY <1>1, <2>1, <2>2 DEF Keeps
  <1>3. ASSUME NEW b \in Bucket, NEW l \in {"reclaim", "discard"}, Work(t, b, l), fs' = fs
        PROVE  Keeps(t)
    <2> DEFINE j == [job[t] EXCEPT !.bucket = b]
    <2>1. Moves(t, l, j)
      BY <1>3 DEF Work, Goto, Moves
    <2>2. j \in Job /\ j.worker = job[t].worker /\ j.bucket = b
      BY <1>1 DEF Job
    <2> HIDE DEF j
    <2>3. l \in Label /\ Placed(l, j) /\ Locks(t, l)
      BY <1>1, <1>3, <2>2 DEF Label, Placed, Handed, Busy, Locks, Mutex
    <2> QED
      BY <1>1, <2>1, <2>2, <2>3 DEF Keeps
  <1>4. CASE Reclaim(t) \/ Discard(t)
    BY <1>3, <1>4 DEF Reclaim, Discard
  <1>5. CASE Discover(t)
    <2> DEFINE j == [job[t] EXCEPT !.scan = tr.needDiscard]
    <2>1. Moves(t, "discover", j)
      BY <1>5 DEF Discover, Goto, Moves
    <2>2. j \in Job /\ j.worker = job[t].worker
      BY <1>1 DEF Job
    <2> HIDE DEF j
    <2>3. "discover" \in Label /\ Placed("discover", j) /\ Locks(t, "discover")
      BY <1>1, <1>5, <2>2 DEF Discover, Label, Placed, Handed, Busy, Locks, Mutex
    <2> QED
      BY <1>1, <2>1, <2>2, <2>3 DEF Keeps
  <1>6. CASE RunWorker(t)
    <2>1. Moves(t, "round", job[t])
      BY <1>1, <1>6 DEF RunWorker, Goto, Moves, Control
    <2>2. "round" \in Label /\ Placed("round", job[t]) /\ Locks(t, "round")
      BY <1>1, <1>6 DEF RunWorker, Label, Placed, Handed, Busy, Locks, Mutex
    <2> QED
      BY <1>1, <2>1, <2>2 DEF Keeps
  <1>7. CASE RunWorkerOnce(t)
    <2> DEFINE j == [Idle EXCEPT !.round = 1, !.once = TRUE]
    <2>1. Moves(t, "pop", j)
      BY <1>7 DEF RunWorkerOnce, Goto, Moves
    <2>0. job[t].worker = FALSE
      BY <1>1 DEF Job
    <2>2. j \in Job /\ j.worker = FALSE
      <3> DEFINE i == [Idle EXCEPT !.round = 1]
      <3>1. i \in Job /\ i.worker = FALSE
        BY IdleJob DEF Job
      <3>2. j = [i EXCEPT !.once = TRUE]
        OBVIOUS
      <3> HIDE DEF i, j
      <3> QED
        BY <3>1, <3>2, Zenon DEF Job
    <2> HIDE DEF j
    <2>3. "pop" \in Label /\ Placed("pop", j) /\ Locks(t, "pop")
      BY <1>1, <1>7, <2>2 DEF RunWorkerOnce, Label, Placed, Handed, Busy, Locks, Mutex
    <2> QED
      BY <2>0, <2>1, <2>2, <2>3, Zenon DEF Keeps
  <1> QED
    BY <1>2, <1>4, <1>5, <1>6, <1>7

(* The steps of a call that keep the bucket in the hands of the thread.      *)
LEMMA KeepsAllocateCommit ==
    ASSUME Control, NEW t \in Thread, AllocateCommit(t)
    PROVE  Keeps(t)
  <1>1. pc[t] = "alloc" /\ fs' = Nobody /\ Return(t)
    BY DEF AllocateCommit
  <1>2. ~job[t].worker
    BY <1>1, JobOf DEF Placed, Busy
  <1>3. Locks(t, "idle")
    BY <1>1 DEF Locks, Mutex
  <1> QED
    BY <1>1, <1>2, <1>3, KeepsReturn

\* ReclaimCheck keeps the claim of its thread.
LEMMA KeepsReclaimCheck ==
    ASSUME Control, NEW t \in Thread, ReclaimCheck(t)
    PROVE  Keeps(t)
  <1>1. pc[t] = "reclaim" /\ fs = Nobody /\ pc[t] \in Busy
    BY DEF ReclaimCheck, Busy
  <1>2. CASE Finish(t, -16) /\ fs' = fs
    <2>1. \A l \in Label \ Mutex : Locks(t, l)
      BY <1>1, <1>2 DEF Locks, Mutex
    <2> QED
      BY <1>1, <1>2, <2>1, KeepsFinish
  <1>3. CASE fs' = t /\ Goto(t, "commit") /\ job' = job
    <2>1. Moves(t, "commit", job[t])
      BY <1>3 DEF Goto, Moves, Control
    <2>2. "commit" \in Label /\ Placed("commit", job[t]) /\ Locks(t, "commit")
      BY <1>1, <1>3, JobOf DEF Label, Placed, Handed, Busy, Locks, Mutex
    <2> QED
      BY <2>1, <2>2, JobOf DEF Keeps
  <1> QED
    BY <1>2, <1>3 DEF ReclaimCheck

\* ReclaimCommit keeps the claim of its thread.
LEMMA KeepsReclaimCommit ==
    ASSUME Control, NEW t \in Thread, ReclaimCommit(t)
    PROVE  Keeps(t)
  <1>1. pc[t] = "commit" /\ fs' = Nobody /\ pc[t] \in Busy
        /\ \E r : Finish(t, r)
    BY DEF ReclaimCommit, Busy
  <1>2. \A l \in Label \ Mutex : Locks(t, l)
    BY <1>1 DEF Locks, Mutex
  <1> QED
    BY <1>1, <1>2, KeepsFinish

\* DiscardCheck keeps the claim of its thread.
LEMMA KeepsDiscardCheck ==
    ASSUME Control, NEW t \in Thread, DiscardCheck(t)
    PROVE  Keeps(t)
  <1>1. pc[t] = "discard" /\ fs' = fs /\ pc[t] \in Busy
    BY DEF DiscardCheck, Busy
  <1>2. CASE \E r : Finish(t, r)
    <2>1. \A l \in Label \ Mutex : Locks(t, l)
      BY <1>1 DEF Locks, Mutex
    <2> QED
      BY <1>1, <1>2, <2>1, KeepsFinish
  <1>3. CASE job' = [job EXCEPT ![t].checked = TRUE] /\ Goto(t, "reclaim")
    <2> DEFINE j == [job[t] EXCEPT !.checked = TRUE]
    <2>1. Moves(t, "reclaim", j)
      BY <1>3 DEF Goto, Moves
    <2>2. j \in Job /\ j.worker = job[t].worker /\ j.bucket = job[t].bucket
      BY JobOf, ZenonT(40) DEF Job
    <2> HIDE DEF j
    <2>3. "reclaim" \in Label /\ Placed("reclaim", j) /\ Locks(t, "reclaim")
      BY <1>1, <2>2, JobOf DEF Label, Placed, Handed, Busy, Locks, Mutex
    <2> QED
      BY <2>1, <2>2, <2>3 DEF Keeps
  <1>4. \/ \E r : Finish(t, r)
        \/ job' = [job EXCEPT ![t].checked = TRUE] /\ Goto(t, "reclaim")
    BY DEF DiscardCheck
  <1> QED
    BY <1>2, <1>3, <1>4

(* The end of a round, and of a pass.                                        *)
EndOfRound(t) ==
    /\ pc[t] \in {"round", "pop"} /\ fs' = fs /\ UNCHANGED queue
    /\ \/ Return(t)
       \/ Goto(t, "round") /\ job' = [job EXCEPT ![t] = Idle]
       \/ Goto(t, "pop") /\ job' = [job EXCEPT ![t] = [Idle EXCEPT !.round = Len(queue)]]

\* The end of a round is reached without a claim.
LEMMA KeepsRound ==
    ASSUME Control, Claims, NEW t \in Thread, EndOfRound(t)
    PROVE  Keeps(t)
  <1>1. pc[t] \in {"round", "pop"} /\ fs' = fs /\ job[t].worker = FALSE
    BY JobOf DEF EndOfRound, Placed, Busy, Job
  <1>2. CASE Return(t)
    <2>1. Locks(t, "idle")
      BY <1>1 DEF Locks, Mutex
    <2> QED
      BY <1>1, <1>2, <2>1, KeepsReturn
  <1>3. ASSUME NEW l \in {"round", "pop"}, NEW j \in Job, Moves(t, l, j), j.worker = FALSE
        PROVE  Keeps(t)
    <2>1. l \in Label /\ Placed(l, j) /\ Locks(t, l)
      BY <1>1, <1>3 DEF Label, Placed, Handed, Busy, Locks, Mutex
    <2> QED
      BY <1>1, <1>3, <2>1, Zenon DEF Keeps
  <1>4. Idle \in Job /\ Idle.worker = FALSE
    BY IdleJob DEF Job
  <1>5. CASE Goto(t, "round") /\ job' = [job EXCEPT ![t] = Idle]
    BY <1>3, <1>4, <1>5, Zenon DEF Goto, Moves
  <1>6. CASE Goto(t, "pop") /\ job' = [job EXCEPT ![t] = [Idle EXCEPT !.round = Len(queue)]]
    <2> DEFINE j == [Idle EXCEPT !.round = Len(queue)]
    <2>1. Len(queue) \in Int
      BY DEF Claims
    <2>2. j \in Job /\ j.worker = FALSE
      BY <1>4, <2>1 DEF Job
    <2>3. Moves(t, "pop", j)
      BY <1>6 DEF Goto, Moves
    <2> HIDE DEF j
    <2> QED
      BY <1>3, <2>2, <2>3, Zenon
  <1> QED
    BY <1>2, <1>5, <1>6 DEF EndOfRound

-----------------------------------------------------------------------------
(* The discard queue.                                                        *)
Elems(s) == {s[i] : i \in DOMAIN s}
Once(s) == \A i, j \in DOMAIN s : s[i] = s[j] => i = j

\* The buckets of a queue with one more at its end.
LEMMA AppendFacts ==
    ASSUME NEW q \in Seq(Bucket), NEW b \in Bucket, NEW s, s = Append(q, b)
    PROVE  /\ s \in Seq(Bucket) /\ Elems(s) = Elems(q) \cup {b}
           /\ Once(q) /\ b \notin Elems(q) => Once(s)
  <1>1. s \in Seq(Bucket) /\ Len(q) \in Nat /\ Len(s) = Len(q) + 1
        /\ DOMAIN q = 1 .. Len(q) /\ DOMAIN s = 1 .. Len(q) + 1
    OBVIOUS
  <1>2. s[Len(q) + 1] = b
    OBVIOUS
  <1>3. \A i \in 1 .. Len(q) : s[i] = q[i]
    OBVIOUS
  <1>4. \A i \in 1 .. Len(q) + 1 : i \in 1 .. Len(q) \/ i = Len(q) + 1
    BY <1>1
  <1>5. 1 .. Len(q) \subseteq 1 .. Len(q) + 1 /\ Len(q) + 1 \in 1 .. Len(q) + 1
    BY <1>1
  <1>6. Elems(s) = Elems(q) \cup {b}
    BY <1>1, <1>2, <1>3, <1>4, <1>5, ZenonT(40) DEF Elems
  <1>7. ASSUME Once(q), b \notin Elems(q)
        PROVE  Once(s)
    <2>1. SUFFICES ASSUME NEW i \in 1 .. Len(q) + 1, NEW j \in 1 .. Len(q) + 1, s[i] = s[j]
                   PROVE  i = j
      BY <1>1 DEF Once
    <2>2. \A k \in 1 .. Len(q) : s[k] \in Elems(q)
      BY <1>1, <1>3 DEF Elems
    <2>3. \A x, y \in 1 .. Len(q) : q[x] = q[y] => x = y
      BY <1>1, <1>7 DEF Once
    <2> QED
      BY <1>2, <1>3, <1>4, <1>7, <2>1, <2>2, <2>3
  <1> QED
    BY <1>1, <1>6, <1>7

\* The buckets of a queue without its head.
LEMMA TailFacts ==
    ASSUME NEW q \in Seq(Bucket), q # <<>>, Once(q), NEW s, s = Tail(q)
    PROVE  /\ Head(q) \in Bucket /\ s \in Seq(Bucket) /\ Once(s)
           /\ Head(q) \in Elems(q) /\ Elems(s) = Elems(q) \ {Head(q)}
  <1>1. /\ Len(q) \in Nat /\ 1 \in 1 .. Len(q) /\ DOMAIN q = 1 .. Len(q)
        /\ Head(q) = q[1] /\ Head(q) \in Bucket
    OBVIOUS
  <1>2. s \in Seq(Bucket) /\ Len(s) = Len(q) - 1 /\ DOMAIN s = 1 .. Len(q) - 1
    OBVIOUS
  <1>3. \A i \in 1 .. Len(q) - 1 : s[i] = q[i + 1]
    OBVIOUS
  <1>4. /\ \A i \in 1 .. Len(q) - 1 : i + 1 \in 1 .. Len(q) /\ i + 1 # 1
        /\ \A i \in 1 .. Len(q) : i # 1 => i - 1 \in 1 .. Len(q) - 1 /\ (i - 1) + 1 = i
        /\ \A i, j \in 1 .. Len(q) - 1 : i + 1 = j + 1 => i = j
    BY <1>1
  <1>5. Once(s)
    BY <1>1, <1>2, <1>3, <1>4 DEF Once
  <1>6. ASSUME NEW x \in Elems(s)
        PROVE  x \in Elems(q) \ {Head(q)}
    <2>1. PICK i \in 1 .. Len(q) - 1 : x = s[i]
      BY <1>2 DEF Elems
    <2>2. x = q[i + 1] /\ i + 1 \in 1 .. Len(q) /\ i + 1 # 1
      BY <1>3, <1>4, <2>1
    <2> QED
      BY <1>1, <2>2, ZenonT(40) DEF Elems, Once
  <1>7. ASSUME NEW x \in Elems(q), x # Head(q)
        PROVE  x \in Elems(s)
    <2>1. PICK i \in 1 .. Len(q) : x = q[i]
      BY <1>1 DEF Elems
    <2>2. i # 1
      BY <1>1, <1>7, <2>1
    <2>3. i - 1 \in 1 .. Len(q) - 1 /\ x = s[i - 1]
      BY <1>3, <1>4, <2>1, <2>2
    <2> QED
      BY <1>2, <2>3, Zenon DEF Elems
  <1> QED
    BY <1>1, <1>2, <1>5, <1>6, <1>7, Zenon DEF Elems

\* The buckets of two queues joined.
LEMMA ConcatFacts ==
    ASSUME NEW q \in Seq(Bucket), NEW r \in Seq(Bucket), NEW s, s = q \o r
    PROVE  /\ s \in Seq(Bucket) /\ Elems(s) = Elems(q) \cup Elems(r)
           /\ Once(q) /\ Once(r) /\ Elems(q) \cap Elems(r) = {} => Once(s)
  <1>1. s \in Seq(Bucket) /\ Len(q) \in Nat /\ Len(r) \in Nat
        /\ DOMAIN q = 1 .. Len(q) /\ DOMAIN r = 1 .. Len(r)
    OBVIOUS
  <1>2. Len(s) = Len(q) + Len(r)
    OBVIOUS
  <1>3. DOMAIN s = 1 .. Len(q) + Len(r)
    BY <1>1, <1>2
  <1>4. \A i \in 1 .. Len(q) + Len(r) : s[i] = IF i <= Len(q) THEN q[i] ELSE r[i - Len(q)]
    OBVIOUS
  <1>5. \A i \in 1 .. Len(q) : i \in 1 .. Len(q) + Len(r) /\ s[i] = q[i]
    BY <1>1, <1>4
  <1>6. \A i \in 1 .. Len(r) : i + Len(q) \in 1 .. Len(q) + Len(r) /\ s[i + Len(q)] = r[i]
    BY <1>1, <1>4
  <1>7. \A i \in 1 .. Len(q) + Len(r) :
          \/ i \in 1 .. Len(q) /\ s[i] = q[i]
          \/ i - Len(q) \in 1 .. Len(r) /\ s[i] = r[i - Len(q)]
    BY <1>1, <1>4
  <1>8. Elems(s) = Elems(q) \cup Elems(r)
    <2>1. ASSUME NEW x \in Elems(s) PROVE x \in Elems(q) \cup Elems(r)
      BY <1>1, <1>3, <1>7 DEF Elems
    <2>2. ASSUME NEW x \in Elems(q) PROVE x \in Elems(s)
      BY <1>1, <1>3, <1>5 DEF Elems
    <2>3. ASSUME NEW x \in Elems(r) PROVE x \in Elems(s)
      BY <1>1, <1>3, <1>6, Zenon DEF Elems
    <2> QED
      BY <2>1, <2>2, <2>3
  <1>9. ASSUME Once(q), Once(r), Elems(q) \cap Elems(r) = {}
        PROVE  Once(s)
    <2>1. SUFFICES ASSUME NEW i \in 1 .. Len(q) + Len(r), NEW j \in 1 .. Len(q) + Len(r),
                          s[i] = s[j]
                   PROVE  i = j
      BY <1>3 DEF Once
    <2>2. \A x \in 1 .. Len(q), y \in 1 .. Len(r) : q[x] # r[y]
      BY <1>1, <1>9, Zenon DEF Elems
    <2>3. /\ \A x, y \in 1 .. Len(q) : q[x] = q[y] => x = y
          /\ \A x, y \in 1 .. Len(r) : r[x] = r[y] => x = y
      BY <1>1, <1>9, ZenonT(40) DEF Once
    <2>4. i \in 1 .. Len(q) /\ j \in 1 .. Len(q) => i = j
      BY <1>7, <2>1, <2>3, <1>5
    <2>5. i - Len(q) \in 1 .. Len(r) /\ j - Len(q) \in 1 .. Len(r)
            /\ s[i] = r[i - Len(q)] /\ s[j] = r[j - Len(q)] => i - Len(q) = j - Len(q)
      BY <2>1, <2>3, Zenon
    <2>6. i - Len(q) = j - Len(q) => i = j
      BY <1>1
    <2> QED
      BY <1>7, <2>1, <2>2, <2>4, <2>5, <2>6
  <1> QED
    BY <1>1, <1>8, <1>9

(* discover_discard_buckets queues every bucket it found, once.              *)
LEMMA AscendingFacts ==
    ASSUME NEW S \in SUBSET Bucket, NEW s \in Ascending(S)
    PROVE  s \in Seq(Bucket) /\ Elems(s) = S /\ Once(s)
  <1>1. IsFiniteSet(S) /\ Cardinality(S) \in Nat
    <2>1. IsFiniteSet(Bucket)
      BY BucketsAssumption, FS_Interval DEF Bucket
    <2> QED
      BY <2>1, FS_Subset, FS_CardinalityType
  <1>2. /\ s \in [1 .. Cardinality(S) -> S] /\ DOMAIN s = 1 .. Cardinality(S)
        /\ \A i, j \in DOMAIN s : i < j => s[i] < s[j]
        /\ \A b \in S : \E i \in DOMAIN s : s[i] = b
    BY DEF Ascending
  <1>3. s \in Seq(Bucket)
    BY <1>1, <1>2
  <1>4. Elems(s) = S
    BY <1>2, Zenon DEF Elems
  <1>5. Once(s)
    <2>1. SUFFICES ASSUME NEW i \in DOMAIN s, NEW j \in DOMAIN s, s[i] = s[j], i # j
                   PROVE  FALSE
      BY DEF Once
    <2>2. s[i] \in Int /\ s[j] \in Int /\ i \in Int /\ j \in Int
      <3>1. s[i] \in Bucket /\ s[j] \in Bucket
        BY <1>2
      <3>2. i \in Int /\ j \in Int
        BY <1>1, <1>2
      <3> QED
        BY <3>1, <3>2, BucketsAssumption DEF Bucket
    <2>3. i < j \/ j < i
      BY <2>1, <2>2
    <2>4. s[i] < s[j] \/ s[j] < s[i]
      BY <1>2, <2>3
    <2> QED
      BY <2>1, <2>2, <2>4
  <1> QED
    BY <1>3, <1>4, <1>5

-----------------------------------------------------------------------------
(* The steps that change the discards in flight.  A job as it is changed by  *)
(* the worker.                                                               *)
LEMMA JobTaken ==
    ASSUME NEW k \in Job, NEW b \in Bucket, NEW r \in Int
    PROVE  LET j == [k EXCEPT !.bucket = b, !.worker = TRUE, !.round = r]
           IN  j \in Job /\ j.worker = TRUE /\ j.bucket = b
  <1> DEFINE a == [k EXCEPT !.bucket = b]
             c == [a EXCEPT !.worker = TRUE]
             j == [c EXCEPT !.round = r]
  <1>1. a \in Job /\ a.bucket = b
    BY DEF Job
  <1>2. j = [k EXCEPT !.bucket = b, !.worker = TRUE, !.round = r]
    BY DEF Job
  <1> HIDE DEF a
  <1>3. c \in Job /\ c.worker = TRUE /\ c.bucket = b
    BY <1>1, Zenon DEF Job
  <1> HIDE DEF c
  <1>4. j \in Job /\ j.worker = TRUE /\ j.bucket = b
    BY <1>3 DEF Job
  <1> HIDE DEF j
  <1> QED
    BY <1>2, <1>4

\* A job whose claim is dropped.
LEMMA JobDropped ==
    ASSUME NEW k \in Job, NEW j,
           \/ j = [k EXCEPT !.bucket = 0, !.worker = FALSE, !.deferred = TRUE]
           \/ j = [k EXCEPT !.bucket = 0, !.worker = FALSE]
    PROVE  j \in Job /\ j.worker = FALSE
  <1> DEFINE a == [k EXCEPT !.bucket = 0]
             c == [a EXCEPT !.worker = FALSE]
  <1>1. a \in Job
    BY DEF Job
  <1>2. j = [c EXCEPT !.deferred = TRUE] \/ j = c
    OBVIOUS
  <1> HIDE DEF a
  <1>3. c \in Job /\ c.worker = FALSE
    BY <1>1, ZenonT(40) DEF Job
  <1> HIDE DEF c
  <1> QED
    BY <1>2, <1>3, Zenon DEF Job

(* InflightExact of a queue q, a set f and the jobs k.                       *)
Accounted(q, f, k) ==
    /\ Once(q)
    /\ \A t \in Thread : k[t].worker => k[t].bucket \notin Elems(q)
    /\ \A t, u \in Thread : k[t].worker /\ k[u].worker /\ t # u => k[t].bucket # k[u].bucket
    /\ \A b : b \in f <=> b \in Elems(q) \/ \E t \in Thread : k[t].worker /\ k[t].bucket = b

\* InflightExact as a relation of the queue, the set and the jobs, in both states.
LEMMA Inflight ==
    /\ InflightExact <=> Accounted(queue, inflight, job)
    /\ InflightExact' <=> Accounted(queue', inflight', job')
  <1>1. InflightExact <=> Accounted(queue, inflight, job)
    BY DEF Queued, Elems, InflightExact, Once, Accounted
  <1>2. InflightExact' <=> Accounted(queue', inflight', job')
    BY DEF Queued, Elems, InflightExact, Once, Accounted
  <1> QED
    BY <1>1, <1>2

\* QueueDiscard enters a bucket in the queue and in the set together, or neither.
LEMMA InflightQueue ==
    ASSUME Control, Claims, InflightExact, NEW t \in Thread, QueueDiscard(t)
    PROVE  Control' /\ InflightExact' /\ queue' \in Seq(Bucket) /\ inflight' \subseteq Bucket
  <1>1. PICK b \in Bucket \ inflight :
          inflight' = inflight \cup {b} /\ queue' = Append(queue, b)
    BY DEF QueueDiscard
  <1>2. UNCHANGED <<fs, pc, job, rb>>
    BY DEF QueueDiscard, jvars
  <1>3. Control'
    BY <1>2 DEF Control, Up, Placed
  <1>4. b \notin Elems(queue) /\ Once(queue)
    BY <1>1, Inflight DEF Accounted
  <1>5. queue' \in Seq(Bucket) /\ Elems(queue') = Elems(queue) \cup {b} /\ Once(queue')
    BY <1>1, <1>4, AppendFacts, ZenonT(40) DEF Claims
  <1>6. Accounted(queue', inflight', job')
    BY <1>1, <1>2, <1>5, Inflight DEF Accounted
  <1> QED
    BY <1>1, <1>3, <1>5, <1>6, Inflight DEF Claims

\* DiscoverQueue enters every bucket it finds that no queue or worker holds.
LEMMA InflightDiscover ==
    ASSUME Control, Claims, InflightExact, NEW t \in Thread, DiscoverQueue(t), Up'
    PROVE  Control' /\ InflightExact' /\ queue' \in Seq(Bucket) /\ inflight' \subseteq Bucket
  <1> DEFINE found == job[t].scan \ inflight
  <1>1. pc[t] = "discover" /\ fs' = fs /\ inflight' = inflight \cup found /\ Return(t)
    BY DEF DiscoverQueue
  <1>2. PICK s \in Ascending(found) : queue' = queue \o s
    BY DEF DiscoverQueue
  <1>3. found \in SUBSET Bucket /\ job[t].worker = FALSE
    BY <1>1, JobOf DEF Job, Placed, Busy
  <1> HIDE DEF found
  <1>4. s \in Seq(Bucket) /\ Elems(s) = found /\ Once(s)
    BY <1>2, <1>3, AscendingFacts
  <1>5. Once(queue) /\ Elems(queue) \subseteq inflight
    BY Inflight DEF Accounted
  <1>6. Elems(queue) \cap Elems(s) = {}
    BY <1>4, <1>5 DEF found
  <1>7. queue' \in Seq(Bucket) /\ Elems(queue') = Elems(queue) \cup found /\ Once(queue')
    BY <1>2, <1>4, <1>5, <1>6, ConcatFacts, Zenon DEF Claims
  <1>8. Locks(t, "idle") /\ Moves(t, "idle", Idle)
    BY <1>1 DEF Return, Goto, Moves, Locks, Mutex
  <1>9. "idle" \in Label /\ Placed("idle", Idle) /\ Idle \in Job
    BY IdleJob DEF Label, Busy
  <1>10. Control'
    BY <1>8, <1>9, ControlStep
  <1>11. \A u \in Thread : /\ job'[u].worker = job[u].worker
                           /\ job[u].worker => job'[u].bucket = job[u].bucket
    BY <1>3, <1>8, IdleJob, Zenon DEF Moves, Control
  <1>12. Accounted(queue', inflight', job')
    <2>1. Accounted(queue, inflight, job)
      BY Inflight
    <2>2. \A u \in Thread : job[u].worker => job[u].bucket \in inflight
      BY <2>1 DEF Accounted
    <2>3. \A u \in Thread : job[u].worker => job[u].bucket \notin found
      BY <2>2 DEF found
    <2> QED
      BY <1>1, <1>7, <1>11, <2>1, <2>3 DEF Accounted
  <1> QED
    BY <1>1, <1>3, <1>7, <1>10, <1>12, Inflight DEF Claims

(* The worker takes the first bucket.                                        *)
LEMMA InflightPop ==
    ASSUME Control, Claims, InflightExact, NEW t \in Thread, Up',
           pc[t] = "pop", queue # <<>>, UNCHANGED <<fs, inflight>>, Goto(t, "discard"),
           job' = [job EXCEPT ![t] = [job[t] EXCEPT !.bucket = Head(queue),
                                     !.worker = TRUE, !.round = job[t].round - 1]],
           queue' = Tail(queue)
    PROVE  Control' /\ InflightExact' /\ queue' \in Seq(Bucket)
  <1> DEFINE h == Head(queue)
             r == job[t].round - 1
             j == [job[t] EXCEPT !.bucket = h, !.worker = TRUE, !.round = r]
  <1>1. Accounted(queue, inflight, job)
    BY Inflight
  <1>2. /\ h \in Bucket /\ queue' \in Seq(Bucket) /\ Once(queue')
        /\ h \in Elems(queue) /\ Elems(queue') = Elems(queue) \ {h}
    BY <1>1, TailFacts, ZenonT(40) DEF Claims, Accounted
  <1>3. j \in Job /\ j.worker = TRUE /\ j.bucket = h
    <2>1. job[t] \in Job
      BY JobOf
    <2>2. r \in Int
      BY <2>1 DEF Job
    <2> HIDE DEF r, h
    <2> QED
      BY <1>2, <2>1, <2>2, JobTaken, Zenon
  <1>4. Moves(t, "discard", j)
    <2>1. job' = [job EXCEPT ![t] = j]
      OBVIOUS
    <2> HIDE DEF j
    <2> QED
      BY <2>1, Zenon DEF Goto, Moves
  <1> HIDE DEF h, j
  <1>5. "discard" \in Label /\ Placed("discard", j) /\ Locks(t, "discard")
    BY <1>2, <1>3 DEF Label, Placed, Handed, Busy, Locks, Mutex
  <1>6. Control'
    BY <1>3, <1>4, <1>5, ControlStep
  <1>7. job'[t] = j /\ \A u \in Thread \ {t} : job'[u] = job[u]
    BY <1>4 DEF Moves, Control
  <1>8. ~job[t].worker
    BY JobOf DEF Placed, Busy
  <1>9. Accounted(queue', inflight', job')
    <2>1. \A u \in Thread \ {t} : job'[u].worker => job'[u].bucket \notin Elems(queue)
      BY <1>1, <1>7 DEF Accounted
    <2>2. \A u \in Thread : job'[u].worker => job'[u].bucket \notin Elems(queue')
      BY <1>2, <1>3, <1>7, <2>1, Zenon
    <2>3. \A u, v \in Thread : job'[u].worker /\ job'[v].worker /\ u # v
                                 => job'[u].bucket # job'[v].bucket
      <3>1. SUFFICES ASSUME NEW u \in Thread, NEW v \in Thread, job'[u].worker, job'[v].worker,
                            u # v
                     PROVE  job'[u].bucket # job'[v].bucket
        OBVIOUS
      <3>2. CASE u = t
        BY <1>2, <1>3, <1>7, <2>1, <3>1, <3>2, ZenonT(40)
      <3>3. CASE v = t
        BY <1>2, <1>3, <1>7, <2>1, <3>1, <3>3, ZenonT(40)
      <3>4. CASE u # t /\ v # t
        BY <1>1, <1>7, <3>1, <3>4 DEF Accounted
      <3> QED
        BY <3>2, <3>3, <3>4
    <2>4. ASSUME NEW b
          PROVE  b \in inflight' <=> \/ b \in Elems(queue')
                                     \/ \E u \in Thread : job'[u].worker /\ job'[u].bucket = b
      <3>1. CASE b = h
        <4>1. b \in inflight'
          BY <1>1, <1>2, <3>1 DEF Accounted
        <4>2. job'[t].worker /\ job'[t].bucket = b
          BY <1>3, <1>7, <3>1, Zenon
        <4> QED
          BY <4>1, <4>2
      <3>2. CASE b # h
        <4>1. b \in inflight' <=> b \in Elems(queue) \/ \E u \in Thread : job[u].worker /\ job[u].bucket = b
          BY <1>1 DEF Accounted
        <4>2. \A u \in Thread : job[u].worker /\ job[u].bucket = b <=> job'[u].worker /\ job'[u].bucket = b
          BY <1>3, <1>7, <1>8, <3>2, Zenon
        <4> QED
          BY <1>2, <3>2, <4>1, <4>2
      <3> QED
        BY <3>1, <3>2
    <2> QED
      BY <1>2, <2>2, <2>3, <2>4 DEF Accounted
  <1> QED
    BY <1>2, <1>6, <1>9, Inflight

(* The worker puts the bucket back at the tail.                              *)
LEMMA InflightDefer ==
    ASSUME Control, Claims, InflightExact, NEW t \in Thread, WorkerDefer(t), Up'
    PROVE  Control' /\ InflightExact' /\ queue' \in Seq(Bucket)
  <1> DEFINE b == job[t].bucket
             j == [job[t] EXCEPT !.bucket = 0, !.worker = FALSE, !.deferred = TRUE]
  <1>1. pc[t] = "defer" /\ queue' = Append(queue, b) /\ fs' = fs /\ inflight' = inflight
    BY DEF WorkerDefer
  <1>2. job[t].worker /\ b \in Bucket
    BY <1>1, JobOf DEF Placed, Handed, Busy
  <1>3. Accounted(queue, inflight, job)
    BY Inflight
  <1>4. queue' \in Seq(Bucket) /\ Elems(queue') = Elems(queue) \cup {b} /\ Once(queue')
    <2>1. Once(queue) /\ b \notin Elems(queue)
      BY <1>2, <1>3 DEF Accounted
    <2> HIDE DEF b
    <2> QED
      BY <1>1, <1>2, <2>1, AppendFacts, ZenonT(40) DEF Claims
  <1>5. j \in Job /\ j.worker = FALSE
    BY JobOf, JobDropped, Zenon
  <1>6. Moves(t, "pop", j)
    <2>1. job' = [job EXCEPT ![t] = j] /\ Goto(t, "pop")
      BY DEF WorkerDefer
    <2> HIDE DEF j
    <2> QED
      BY <2>1 DEF Goto, Moves
  <1> HIDE DEF j
  <1>7. "pop" \in Label /\ Placed("pop", j) /\ Locks(t, "pop")
    BY <1>1, <1>5 DEF Label, Placed, Handed, Busy, Locks, Mutex
  <1>8. Control'
    BY <1>5, <1>6, <1>7, ControlStep
  <1>9. job'[t] = j /\ \A u \in Thread \ {t} : job'[u] = job[u]
    BY <1>6 DEF Moves, Control
  <1>10. Accounted(queue', inflight', job')
    <2>1. \A u \in Thread : job'[u].worker
                              => /\ u # t /\ job[u].worker /\ job'[u].bucket = job[u].bucket
                                 /\ job[u].bucket \notin Elems(queue) /\ job[u].bucket # b
      BY <1>2, <1>3, <1>5, <1>9 DEF Accounted
    <2>2. \A u, v \in Thread : job'[u].worker /\ job'[v].worker /\ u # v
                                 => job'[u].bucket # job'[v].bucket
      BY <1>3, <2>1 DEF Accounted
    <2>3. ASSUME NEW c
          PROVE  c \in inflight' <=> \/ c \in Elems(queue')
                                     \/ \E u \in Thread : job'[u].worker /\ job'[u].bucket = c
      <3>1. c \in inflight <=> c \in Elems(queue) \/ \E u \in Thread : job[u].worker /\ job[u].bucket = c
        BY <1>3 DEF Accounted
      <3>2. CASE c = b
        BY <1>1, <1>2, <1>4, <3>1, <3>2
      <3>3. CASE c # b
        <4>1. \A u \in Thread : job[u].worker /\ job[u].bucket = c
                                  <=> job'[u].worker /\ job'[u].bucket = c
          BY <1>5, <1>9, <3>3
        <4> QED
          BY <1>1, <1>4, <3>1, <3>3, <4>1
      <3> QED
        BY <3>2, <3>3
    <2> HIDE DEF b
    <2> QED
      BY <1>4, <2>1, <2>2, <2>3, SMTT(30) DEF Accounted
  <1> QED
    BY <1>4, <1>8, <1>10, Inflight

(* The bucket is done with: discarded, or given up with an error.            *)
LEMMA InflightDone ==
    ASSUME Control, Claims, InflightExact, NEW t \in Thread, WorkerDone(t), Up'
    PROVE  Control' /\ InflightExact' /\ inflight' \subseteq Bucket
  <1> DEFINE b == job[t].bucket
  <1>1. pc[t] \in {"done", "abort"} /\ queue' = queue /\ fs' = fs /\ inflight' = inflight \ {b}
    BY DEF WorkerDone
  <1>2. job[t].worker
    BY <1>1, JobOf DEF Placed, Handed
  <1>3. Accounted(queue, inflight, job)
    BY Inflight
  <1>4. PICK l \in {"idle", "pop"}, j \in Job : Moves(t, l, j) /\ j.worker = FALSE
    <2>1. CASE pc[t] = "abort"
      <3>1. Moves(t, "idle", Idle)
        BY <2>1 DEF WorkerDone, Return, Goto, Moves
      <3> QED
        BY <3>1, IdleJob
    <2>2. CASE pc[t] # "abort"
      <3> DEFINE j == [job[t] EXCEPT !.bucket = 0, !.worker = FALSE]
      <3>1. job' = [job EXCEPT ![t] = j] /\ Goto(t, "pop")
        BY <2>2, SMTT(30) DEF WorkerDone
      <3>2. j \in Job /\ j.worker = FALSE
        BY JobOf, JobDropped, ZenonT(40)
      <3> HIDE DEF j
      <3>3. Moves(t, "pop", j)
        BY <3>1 DEF Goto, Moves
      <3> QED
        BY <3>2, <3>3
    <2> QED
      BY <2>1, <2>2, Zenon
  <1>5. l \in Label /\ Placed(l, j) /\ Locks(t, l)
    BY <1>1, <1>4 DEF Label, Placed, Handed, Busy, Locks, Mutex
  <1>6. Control'
    BY <1>4, <1>5, ControlStep
  <1>7. job'[t] = j /\ \A u \in Thread \ {t} : job'[u] = job[u]
    BY <1>4 DEF Moves, Control
  <1>8. Accounted(queue', inflight', job')
    <2>1. \A u \in Thread : job'[u].worker
                              => /\ u # t /\ job[u].worker /\ job'[u].bucket = job[u].bucket
                                 /\ job[u].bucket \notin Elems(queue) /\ job[u].bucket # b
      BY <1>2, <1>3, <1>4, <1>7 DEF Accounted
    <2>2. \A u, v \in Thread : job'[u].worker /\ job'[v].worker /\ u # v
                                 => job'[u].bucket # job'[v].bucket
      BY <1>3, <2>1 DEF Accounted
    <2>3. ASSUME NEW c
          PROVE  c \in inflight' <=> \/ c \in Elems(queue)
                                     \/ \E u \in Thread : job'[u].worker /\ job'[u].bucket = c
      <3>1. c \in inflight <=> c \in Elems(queue) \/ \E u \in Thread : job[u].worker /\ job[u].bucket = c
        BY <1>3 DEF Accounted
      <3>2. CASE c = b
        <4>1. c \notin Elems(queue)
          BY <1>2, <1>3, <3>2 DEF Accounted
        <4> QED
          BY <1>1, <2>1, <3>2, <4>1
      <3>3. CASE c # b
        <4>1. \A u \in Thread : job[u].worker /\ job[u].bucket = c
                                  <=> job'[u].worker /\ job'[u].bucket = c
          BY <1>4, <1>7, <3>3
        <4> QED
          BY <1>1, <3>1, <3>3, <4>1
      <3> QED
        BY <3>2, <3>3
    <2>4. Once(queue')
      BY <1>1, <1>3 DEF Accounted
    <2> HIDE DEF b
    <2> QED
      BY <1>1, <2>1, <2>2, <2>3, <2>4 DEF Accounted
  <1> QED
    BY <1>1, <1>6, <1>8, Inflight DEF Claims

-----------------------------------------------------------------------------
(* CountInv is kept by the transactions of the open engine.                  *)
LEMMA CountUp ==
    ASSUME CountInv, Up, UNCHANGED rb, Base(tr'), Complete(tr')
    PROVE  CountInv'
  <1>1. rb'.stage = "up" /\ "up" \notin Early
    BY DEF Up, Early
  <1> QED
    BY <1>1 DEF CountInv, Whole

\* An open filesystem has its counts complete.
LEMMA Opened ==
    ASSUME CountInv, Up
    PROVE  Base(tr) /\ Complete(tr) /\ tr \in Trees
  BY DEF CountInv, Up, Whole, Base

(* The bucket allocate_bucket takes.                                         *)
LEMMA CandidateTaken ==
    ASSUME tr \in Trees, Candidates(tr) # {}
    PROVE  /\ Min(Candidates(tr)) \in Bucket
           /\ tr.alloc[Min(Candidates(tr))].type = "free"
  <1>1. Candidates(tr) \in SUBSET Nat
    BY BucketsAssumption DEF Candidates, OfType, Bucket
  <1>2. Min(Candidates(tr)) \in Candidates(tr)
    BY <1>1, MinIn
  <1> QED
    BY <1>2 DEF Candidates, OfType

\* An allocation leaves the counts as they are.
LEMMA CountAllocated ==
    ASSUME CountInv, Up, NEW b \in Bucket, tr' = Allocated(tr, b), UNCHANGED rb
    PROVE  CountInv'
  <1>1. /\ tr' \in Trees /\ tr'.extents = tr.extents /\ tr'.backpointers = tr.backpointers
        /\ \A c \in Bucket \ {b} : tr'.alloc[c] = tr.alloc[c]
        /\ tr'.alloc[b] = [tr.alloc[b] EXCEPT !.type = "btree"]
    BY Opened, AllocatedFields, SMTT(30)
  <1>2. tr'.alloc[b].dirty = tr.alloc[b].dirty /\ tr'.alloc[b].type = "btree"
    <2>1. tr.alloc[b] \in Alloc
      BY Opened DEF Trees
    <2> QED
      BY <1>1, <2>1 DEF Alloc
  <1>3. \A c \in Bucket : /\ tr'.alloc[c].dirty = tr.alloc[c].dirty
                          /\ tr'.alloc[c].type = "none" => tr'.alloc[c] = tr.alloc[c]
    BY <1>1, <1>2, ZenonT(40)
  <1>4. Base(tr') /\ Complete(tr')
    BY <1>1, <1>3, Opened, RecordStep
  <1> QED
    BY <1>4, CountUp

(* What reclaim_bucket commits.                                              *)
LEMMA ReclaimedCases ==
    ASSUME NEW t, NEW b, NEW last, NEW u, u = Reclaimed(t, b, last).tr
    PROVE  \/ u = t
           \/ /\ u = NeedDiscard(t, b) /\ t.alloc[b].type \notin {"none", "need_discard"}
              /\ \A e \in t.backpointers : e.bucket # b
           \/ /\ u = Freed(t, b) /\ t.alloc[b].type = "need_discard"
              /\ \A e \in t.backpointers : e.bucket # b
  BY DEF Reclaimed

\* A reclaim leaves the counts as they are.
LEMMA CountReclaimed ==
    ASSUME CountInv, Up, NEW b \in Bucket, NEW last, tr' = Reclaimed(tr, b, last).tr,
           UNCHANGED rb
    PROVE  CountInv'
  <1>1. CASE tr' = tr
    BY <1>1, Opened, CountUp
  <1>2. CASE tr' = NeedDiscard(tr, b)
    <2>1. /\ tr' \in Trees /\ tr'.extents = tr.extents /\ tr'.backpointers = tr.backpointers
          /\ \A c \in Bucket \ {b} : tr'.alloc[c] = tr.alloc[c]
          /\ tr'.alloc[b].type = "need_discard" /\ tr'.alloc[b].dirty = tr.alloc[b].dirty
      BY <1>2, Opened, NeedDiscardFields
    <2>2. \A c \in Bucket : /\ tr'.alloc[c].dirty = tr.alloc[c].dirty
                            /\ tr'.alloc[c].type = "none" => tr'.alloc[c] = tr.alloc[c]
      BY <2>1
    <2>3. Base(tr') /\ Complete(tr')
      BY <2>1, <2>2, Opened, RecordStep
    <2> QED
      BY <2>3, CountUp
  <1>3. CASE tr' = Freed(tr, b)
    <2>1. /\ tr' \in Trees /\ tr'.extents = tr.extents /\ tr'.backpointers = tr.backpointers
          /\ \A c \in Bucket \ {b} : tr'.alloc[c] = tr.alloc[c]
          /\ tr'.alloc[b] = [tr.alloc[b] EXCEPT !.type = "free"]
      BY <1>3, Opened, FreedFields, SMTT(30)
    <2>2. tr'.alloc[b].dirty = tr.alloc[b].dirty /\ tr'.alloc[b].type = "free"
      <3>1. tr.alloc[b] \in Alloc
        BY Opened DEF Trees
      <3> QED
        BY <2>1, <3>1 DEF Alloc
    <2>3. \A c \in Bucket : /\ tr'.alloc[c].dirty = tr.alloc[c].dirty
                            /\ tr'.alloc[c].type = "none" => tr'.alloc[c] = tr.alloc[c]
      BY <2>1, <2>2, Zenon
    <2>4. Base(tr') /\ Complete(tr')
      BY <2>1, <2>3, Opened, RecordStep
    <2> QED
      BY <2>4, CountUp
  <1> QED
    BY <1>1, <1>2, <1>3, ReclaimedCases

(* The extent a caller inserts.                                              *)
LEMMA ExtentInserted ==
    ASSUME Claims, NEW t \in Thread, Insert(t)
    PROVE  \E m \in mine[t] \cup (Bucket \X Generations), e \in Extent :
             /\ e.bucket = m[1] /\ e.gen = m[2] /\ m[1] \in Bucket
             /\ \A q \in tr.extents : q.bucket # e.bucket \/ q.slot # e.slot
             /\ MayInsert(tr, e) /\ tr' = Inserted(tr, e)
  <1> DEFINE x(m, s) == [bucket |-> m[1], slot |-> s, gen |-> m[2]]
  <1>1. PICK m \in mine[t] \cup (Bucket \X Generations), s \in 1 .. Slots :
          /\ \A q \in tr.extents : q.bucket # x(m, s).bucket \/ q.slot # s
          /\ MayInsert(tr, x(m, s)) /\ tr' = Inserted(tr, x(m, s))
    BY Zenon DEF Insert
  <1>2. m[1] \in Bucket /\ m[2] \in 0 .. 255
    <2>1. mine[t] \subseteq Bucket \X (0 .. 255)
      BY DEF Claims
    <2>2. m \in Bucket \X (0 .. 255)
      BY <2>1, BucketsAssumption, ZenonT(40)
    <2> QED
      BY <2>2
  <1>3. x(m, s) \in Extent /\ x(m, s).bucket = m[1] /\ x(m, s).gen = m[2] /\ x(m, s).slot = s
    BY <1>2 DEF Extent
  <1> HIDE DEF x
  <1>4. /\ \A q \in tr.extents : q.bucket # x(m, s).bucket \/ q.slot # x(m, s).slot
        /\ MayInsert(tr, x(m, s)) /\ tr' = Inserted(tr, x(m, s))
    BY <1>1, <1>3
  <1> QED
    BY <1>2, <1>3, <1>4

\* Insert writes the extent, its backpointer and the count together.
LEMMA CountInsert ==
    ASSUME CountInv, Claims, NEW t \in Thread, Insert(t)
    PROVE  CountInv'
  <1>1. Up /\ UNCHANGED rb
    BY DEF Insert, Begin, jvars
  <1>2. PICK e \in Extent :
          /\ \A q \in tr.extents : q.bucket # e.bucket \/ q.slot # e.slot
          /\ tr' = Inserted(tr, e)
    BY ExtentInserted
  <1>3. Base(tr') /\ Complete(tr')
    BY <1>1, <1>2, Opened, InsertedFields
  <1> QED
    BY <1>1, <1>3, CountUp

\* Delete removes the extent, its backpointer and the count together.
LEMMA CountDelete ==
    ASSUME CountInv, NEW t \in Thread, Delete(t)
    PROVE  CountInv'
  <1>1. Up /\ UNCHANGED rb
    BY DEF Delete, Begin, jvars
  <1>2. PICK e \in tr.extents : tr' = Deleted(tr, e)
    BY DEF Delete
  <1>3. Base(tr') /\ Complete(tr')
    BY <1>1, <1>2, Opened, DeletedFields
  <1> QED
    BY <1>1, <1>3, CountUp

-----------------------------------------------------------------------------
(* WorkInv is inductive.                                                     *)
LEMMA CountSame ==
    ASSUME CountInv, UNCHANGED <<tr, rb>>
    PROVE  CountInv'
  BY DEF CountInv

\* Threads are inside a call only while the filesystem is open.
LEMMA InCall ==
    ASSUME Control, NEW t \in Thread, pc[t] # "idle"
    PROVE  Up
  BY DEF Control

\* Call: every operation starts from an idle thread.
LEMMA WorkCall ==
    ASSUME WorkInv, NEW t \in Thread, Call(t)
    PROVE  WorkInv'
  <1> USE DEF WorkInv
  <1>1. Up /\ UNCHANGED rb
    BY DEF Call, Allocate, Insert, Delete, OpenBucket, CloseBucket, SetDeviceRw, Reclaim,
           Discard, QueueDiscard, Discover, RunWorker, RunWorkerOnce, Begin, jvars
  <1>2. Up'
    BY <1>1 DEF Up
  <1>3. ASSUME UNCHANGED <<queue, inflight, fs, pc, job>>
        PROVE  Control' /\ InflightExact'
    <2>1. Control'
      BY <1>1, <1>3 DEF Control, Up
    <2>2. InflightExact'
      BY <1>3, Inflight
    <2> QED
      BY <2>1, <2>2
  <1>4. CASE Insert(t)
    <2>1. CountInv'
      BY <1>4, CountInsert
    <2>2. Claims' /\ UNCHANGED <<queue, inflight, fs, pc, job>>
      BY <1>4 DEF Insert, Claims
    <2> QED
      BY <1>3, <2>1, <2>2
  <1>5. CASE Delete(t)
    <2>1. CountInv'
      BY <1>5, CountDelete
    <2>2. Claims' /\ UNCHANGED <<queue, inflight, fs, pc, job>>
      BY <1>5 DEF Delete, Claims
    <2> QED
      BY <1>3, <2>1, <2>2
  <1>6. CASE OpenBucket(t)
    <2>1. CountInv'
      BY <1>1, <1>6, CountSame DEF OpenBucket
    <2>2. \A m \in mine[t] : m[1] \in Bucket
      <3>1. mine[t] \subseteq Bucket \X (0 .. 255)
        BY DEF Claims
      <3> QED
        BY <3>1
    <2>3. Claims' /\ UNCHANGED <<queue, inflight, fs, pc, job>>
      BY <1>6, <2>2 DEF OpenBucket, Claims
    <2> QED
      BY <1>3, <2>1, <2>3
  <1>7. CASE CloseBucket(t) \/ SetDeviceRw(t)
    <2>1. CountInv'
      BY <1>1, <1>7, CountSame DEF CloseBucket, SetDeviceRw
    <2>2. Claims' /\ UNCHANGED <<queue, inflight, fs, pc, job>>
      BY <1>7, ZenonT(40) DEF CloseBucket, SetDeviceRw, Claims
    <2> QED
      BY <1>3, <2>1, <2>2
  <1>8. CASE QueueDiscard(t)
    <2>1. CountInv'
      BY <1>1, <1>8, CountSame DEF QueueDiscard
    <2>2. Control' /\ InflightExact' /\ queue' \in Seq(Bucket) /\ inflight' \subseteq Bucket
      BY <1>8, InflightQueue
    <2> QED
      BY <1>8, <2>1, <2>2 DEF QueueDiscard, Claims
  <1>9. CASE \/ Allocate(t) \/ Reclaim(t) \/ Discard(t) \/ Discover(t)
             \/ RunWorker(t) \/ RunWorkerOnce(t)
    <2>1. UNCHANGED <<tr, open, rw, queue, inflight, mine>>
      BY <1>9 DEF Allocate, Reclaim, Discard, Discover, RunWorker, RunWorkerOnce
    <2>2. CountInv'
      BY <1>1, <2>1, CountSame
    <2>3. tr.needDiscard \subseteq Bucket
      BY <1>1, Opened DEF Trees
    <2>4. Keeps(t)
      BY <1>9, <2>3, KeepsCall
    <2>5. Control' /\ InflightExact'
      BY <1>2, <2>1, <2>4, KeepsStep
    <2> QED
      BY <2>1, <2>2, <2>5 DEF Claims
  <1> QED
    BY <1>4, <1>5, <1>6, <1>7, <1>8, <1>9, SMTT(30) DEF Call

(* allocate_bucket: the generation is recorded with the bucket.              *)
LEMMA WorkAllocateCommit ==
    ASSUME WorkInv, NEW t \in Thread, AllocateCommit(t)
    PROVE  WorkInv'
  <1> USE DEF WorkInv
  <1>1. Up /\ UNCHANGED <<rb, open, rw, queue, inflight>>
    BY InCall DEF AllocateCommit, jvars
  <1>2. Up'
    BY <1>1 DEF Up
  <1>3. Control' /\ InflightExact'
    BY <1>1, <1>2, KeepsAllocateCommit, KeepsStep
  <1>4. CASE Candidates(tr) = {}
    <2>1. UNCHANGED <<tr, mine>>
      BY <1>4 DEF AllocateCommit
    <2> QED
      BY <1>1, <1>3, <2>1, CountSame DEF Claims
  <1>5. CASE Candidates(tr) # {}
    <2> DEFINE b == Min(Candidates(tr))
    <2>1. b \in Bucket /\ tr.alloc[b].type = "free"
      BY <1>1, <1>5, Opened, CandidateTaken
    <2>2. /\ tr' = Allocated(tr, b)
          /\ mine' = [mine EXCEPT ![t] = @ \cup {<<b, tr.alloc[b].gen>>}]
      BY <1>5 DEF AllocateCommit
    <2> HIDE DEF b
    <2>3. CountInv'
      BY <1>1, <2>1, <2>2, CountAllocated, SMTT(30)
    <2>4. tr.alloc[b].gen \in 0 .. 255
      BY <1>1, <2>1, Opened DEF Trees, Alloc
    <2>5. mine' \in [Thread -> SUBSET (Bucket \X (0 .. 255))]
      <3> DEFINE s == mine[t] \cup {<<b, tr.alloc[b].gen>>}
      <3>0. mine[t] \in SUBSET (Bucket \X (0 .. 255)) /\ <<b, tr.alloc[b].gen>> \in Bucket \X (0 .. 255)
        BY <2>1, <2>4, ZenonT(60) DEF Claims
      <3>1. s \in SUBSET (Bucket \X (0 .. 255))
        BY <3>0
      <3>2. mine' = [mine EXCEPT ![t] = s]
        BY <2>2
      <3> HIDE DEF s
      <3> QED
        BY <3>1, <3>2, SMTT(30) DEF Claims
    <2> QED
      BY <1>1, <1>3, <2>3, <2>5 DEF Claims
  <1> QED
    BY <1>4, <1>5

\* ReclaimCommit keeps the invariant of the work and the counts.
LEMMA WorkReclaimCommit ==
    ASSUME WorkInv, NEW t \in Thread, ReclaimCommit(t)
    PROVE  WorkInv'
  <1> USE DEF WorkInv
  <1>1. Up /\ UNCHANGED <<rb, open, rw, queue, inflight, mine>>
    BY InCall DEF ReclaimCommit
  <1>2. Up'
    BY <1>1 DEF Up
  <1>3. Control' /\ InflightExact'
    BY <1>1, <1>2, KeepsReclaimCommit, KeepsStep, SMTT(30)
  <1>4. job[t].bucket \in Bucket /\ tr' = Reclaimed(tr, job[t].bucket, lastOndisk).tr
    BY JobOf DEF ReclaimCommit, Placed, Busy
  <1>5. CountInv'
    BY <1>1, <1>4, CountReclaimed
  <1> QED
    BY <1>1, <1>3, <1>5 DEF Claims

(* The other steps change no tree.                                           *)
LEMMA WorkStep ==
    ASSUME WorkInv, NEW t \in Thread, Step(t)
    PROVE  WorkInv'
  <1> USE DEF WorkInv
  <1>1. CASE AllocateCommit(t)
    BY <1>1, WorkAllocateCommit
  <1>2. CASE ReclaimCommit(t)
    BY <1>2, WorkReclaimCommit
  <1>3. ASSUME \/ ReclaimCheck(t) \/ DiscardCheck(t) \/ DiscoverQueue(t)
               \/ WorkerRound(t) \/ WorkerPop(t) \/ WorkerDefer(t) \/ WorkerDone(t)
        PROVE  WorkInv'
    <2>1. pc[t] # "idle" /\ UNCHANGED <<tr, rb, open, rw, mine>>
      BY <1>3 DEF ReclaimCheck, DiscardCheck, DiscoverQueue, WorkerRound, WorkerPop,
                  WorkerDefer, WorkerDone, jvars
    <2>2. Up /\ Up' /\ CountInv'
      BY <2>1, InCall, CountSame DEF Up
    <2>3. SUFFICES Control' /\ InflightExact' /\ queue' \in Seq(Bucket) /\ inflight' \subseteq Bucket
      BY <2>1, <2>2 DEF Claims
    <2>4. CASE ReclaimCheck(t) \/ DiscardCheck(t)
      <3>1. UNCHANGED <<queue, inflight>>
        BY <2>4 DEF ReclaimCheck, DiscardCheck
      <3> QED
        BY <2>2, <2>4, <3>1, KeepsReclaimCheck, KeepsDiscardCheck, KeepsStep, SMTT(30) DEF Claims
    <2>5. CASE DiscoverQueue(t)
      BY <2>2, <2>5, InflightDiscover
    <2>6. ASSUME EndOfRound(t), UNCHANGED inflight
          PROVE  Control' /\ InflightExact' /\ queue' \in Seq(Bucket) /\ inflight' \subseteq Bucket
      <3>1. UNCHANGED <<queue, inflight>>
        BY <2>6 DEF EndOfRound
      <3> QED
        BY <2>2, <2>6, <3>1, KeepsRound, KeepsStep DEF Claims
    <2>7. CASE WorkerRound(t)
      BY <2>6, <2>7 DEF WorkerRound, EndOfRound
    <2>8. CASE WorkerPop(t)
      <3>1. CASE job[t].round = 0 \/ queue = <<>>
        BY <2>6, <2>8, <3>1, SMTT(30) DEF WorkerPop, EndOfRound
      <3>2. CASE job[t].round # 0 /\ queue # <<>>
        <4>1. /\ pc[t] = "pop" /\ UNCHANGED <<fs, inflight>> /\ Goto(t, "discard")
              /\ job' = [job EXCEPT ![t] = [job[t] EXCEPT !.bucket = Head(queue),
                                     !.worker = TRUE, !.round = job[t].round - 1]]
              /\ queue' = Tail(queue)
          BY <2>8, <3>2, ZenonT(60) DEF WorkerPop
        <4> QED
          BY <2>2, <3>2, <4>1, InflightPop, ZenonT(40) DEF Claims
      <3> QED
        BY <3>1, <3>2
    <2>9. CASE WorkerDefer(t)
      BY <2>2, <2>9, InflightDefer, ZenonT(60) DEF WorkerDefer, Claims
    <2>10. CASE WorkerDone(t)
      BY <2>2, <2>10, InflightDone, ZenonT(40) DEF WorkerDone, Claims
    <2> QED
      BY <1>3, <2>4, <2>5, <2>7, <2>8, <2>9, <2>10, SMTT(30)
  <1> QED
    BY <1>1, <1>2, <1>3 DEF Step

(* A crash: all that is in memory is gone.                                   *)
LEMMA WorkCrash ==
    ASSUME WorkInv, Crash
    PROVE  WorkInv'
  <1> USE DEF WorkInv
  <1>0. Stops(0) /\ rb \in Process /\ tr \in Trees
    BY DEF Crash, CountInv, Base
  <1>1. CountInv' /\ rb'.stage = "down"
    <2>1. CountInv'
      BY <1>0, CountStops
    <2>2. rb'.stage = "down"
      BY <1>0, StopsFields
    <2> QED
      BY <2>1, <2>2
  <1>2. /\ open' = {} /\ rw' = TRUE /\ queue' = <<>> /\ inflight' = {} /\ fs' = Nobody
        /\ pc' = [t \in Thread |-> "idle"] /\ job' = [t \in Thread |-> Idle]
        /\ mine' = [t \in Thread |-> {}]
    BY DEF Crash
  <1>3. "idle" \in Label /\ "idle" \notin Mutex /\ Placed("idle", Idle) /\ Idle \in Job
    BY IdleJob DEF Label, Busy, Mutex
  <1>4. Control'
    BY <1>2, <1>3, LifecycleAssumption DEF Control, Placed
  <1>5. Claims'
    BY <1>2 DEF Claims
  <1>6. \A t \in Thread : job'[t].worker = FALSE
    BY <1>2, IdleJob
  <1>7. Elems(queue') = {} /\ Once(queue')
    BY <1>2 DEF Elems, Once
  <1>8. InflightExact'
    BY <1>2, <1>6, <1>7, Inflight DEF Accounted
  <1> QED
    BY <1>1, <1>4, <1>5, <1>8, SMTT(30)

(* Opening the image touches no call: there is none.                         *)
LEMMA WorkRecovery ==
    ASSUME WorkInv, Recovery
    PROVE  WorkInv'
  <1> USE DEF WorkInv
  <1>1. /\ RecoveryStep
        /\ UNCHANGED <<open, rw, queue, inflight, fs, pc, job, mine>>
    BY DEF Recovery
  <1>2. CountInv'
    BY <1>1, CountRecovery, SMTT(30)
  <1>3. ~Up
    BY <1>1, ZenonT(40) DEF RecoveryStep, OpenImage, ClearAlloc, ClearFreespace, ClearBackpointers,
                RebuildExtents, Restore, RebuildFreespace, CheckOpened, Repair, Verify, Up
  <1>4. Control'
    BY <1>1, <1>3 DEF Control
  <1>5. Claims' /\ InflightExact'
    BY <1>1, Inflight DEF Claims
  <1> QED
    BY <1>2, <1>4, <1>5

\* Stuttering keeps the invariant.
LEMMA WorkSame ==
    ASSUME WorkInv, UNCHANGED <<tr, rb, open, rw, queue, inflight, fs, pc, job, mine>>
    PROVE  WorkInv'
  <1> USE DEF WorkInv
  <1>1. CountInv'
    BY CountSame
  <1>2. Control'
    BY DEF Control, Up
  <1>3. Claims' /\ InflightExact'
    BY Inflight DEF Claims
  <1> QED
    BY <1>1, <1>2, <1>3

\* Every step keeps the invariant of the work and the counts.
LEMMA WorkNext ==
    ASSUME WorkInv, [Next]_vars
    PROVE  WorkInv'
  <1>1. ASSUME NEW t \in Thread, Call(t) \/ Step(t) PROVE WorkInv'
    BY <1>1, WorkCall, WorkStep
  <1>2. CASE JournalAdvance
    BY <1>2, WorkSame DEF JournalAdvance
  <1>3. CASE UNCHANGED vars
    BY <1>3, WorkSame DEF vars, jvars
  <1> QED
    BY <1>1, <1>2, <1>3, WorkCrash, WorkRecovery DEF Next

(* The records of a new image.                                               *)
LEMMA FirstRecords ==
    /\ NoAlloc \in Alloc /\ FreshFree \in Alloc
    /\ NoAlloc.type = "none" /\ NoAlloc.dirty = 0
    /\ FreshFree.type = "free" /\ FreshFree.dirty = 0 /\ FreshFree.gen = 0
    /\ FreshFree.oldest = 0
  BY BucketsAssumption DEF NoAlloc, FreshFree, Alloc

\* The alloc key of a bucket that waits for its discard when the program starts.
LEMMA FirstDiscard ==
    LET a == [NoAlloc EXCEPT !.type = "need_discard", !.gen = 1, !.oldest = 1, !.seqEmpty = 1]
    IN  a \in Alloc /\ a.type = "need_discard" /\ a.dirty = 0
  <1> DEFINE p == [NoAlloc EXCEPT !.type = "need_discard"]
             q == [p EXCEPT !.gen = 1]
             r == [q EXCEPT !.oldest = 1]
             s == [r EXCEPT !.seqEmpty = 1]
  <1>1. p \in Alloc /\ p.type = "need_discard" /\ p.dirty = 0
    BY FirstRecords DEF Alloc
  <1>2. s = [NoAlloc EXCEPT !.type = "need_discard", !.gen = 1, !.oldest = 1, !.seqEmpty = 1]
    OBVIOUS
  <1> HIDE DEF p
  <1>3. q \in Alloc /\ q.type = "need_discard" /\ q.dirty = 0
    BY <1>1 DEF Alloc
  <1> HIDE DEF q
  <1>4. r \in Alloc /\ r.type = "need_discard" /\ r.dirty = 0
    BY <1>3 DEF Alloc
  <1> HIDE DEF r
  <1>5. s \in Alloc /\ s.type = "need_discard" /\ s.dirty = 0
    BY <1>4 DEF Alloc
  <1> HIDE DEF s
  <1> QED
    BY <1>2, <1>5

(* The trees of Init, with a the record of the first bucket.                 *)
First(a) ==
    [alloc |-> [b \in Bucket |-> IF b = 1 THEN a ELSE FreshFree],
     freespace |-> {<<b, 0>> : b \in Bucket \ {1}},
     needDiscard |-> IF a.type = "none" THEN {} ELSE {1},
     backpointers |-> {}, extents |-> {}]

\* The trees of an initial state.
LEMMA FirstFields ==
    ASSUME Init
    PROVE  \E a \in Alloc :
             /\ tr = First(a) /\ a.dirty = 0
             /\ a = NoAlloc \/ a.type = "need_discard"
  <1>1. PICK a \in {NoAlloc, [NoAlloc EXCEPT !.type = "need_discard", !.gen = 1,
                                             !.oldest = 1, !.seqEmpty = 1]} :
          tr = First(a)
    BY Zenon DEF Init, First
  <1> QED
    BY <1>1, FirstRecords, FirstDiscard, ZenonT(40)

\* The counts of an initial state.
LEMMA CountInit ==
    ASSUME Init
    PROVE  CountInv
  <1>1. PICK a \in Alloc : /\ tr = First(a) /\ a.dirty = 0
                           /\ a = NoAlloc \/ a.type = "need_discard"
    BY FirstFields
  <1>2. 1 \in Bucket /\ {1} \subseteq Bucket
    BY BucketsAssumption, SMTT(30) DEF Bucket
  <1>3. /\ tr.extents = {} /\ tr.backpointers = {} /\ tr.needDiscard \subseteq Bucket
        /\ tr.freespace \in SUBSET (Bucket \X Int)
        /\ tr.alloc \in [Bucket -> Alloc]
        /\ \A b \in Bucket : tr.alloc[b] = IF b = 1 THEN a ELSE FreshFree
    BY <1>1, <1>2, FirstRecords, SMTT(30) DEF First
  <1>4. \A b \in Bucket : tr.alloc[b].dirty = 0 /\ (tr.alloc[b].type = "none" => tr.alloc[b] = NoAlloc)
    BY <1>1, <1>3, FirstRecords, SMTT(30)
  <1>5. tr \in Trees
    BY <1>1, <1>3, ZenonT(40) DEF First, Trees
  <1>6. \A b \in Bucket : In(tr.extents, b) = {} /\ Cardinality(In(tr.extents, b)) = 0
    BY <1>3, FS_EmptySet, SMTT(30) DEF In
  <1>7. Base(tr) /\ Complete(tr)
    BY <1>3, <1>4, <1>5, <1>6, FS_EmptySet DEF Base, Complete, Apart, Blank, Empty, Counted
  <1>8. rb = Fresh(tr)
    BY DEF Init
  <1>9. rb \in Process /\ rb.stage = "up"
    BY <1>3, <1>5, <1>8 DEF Fresh, Process, Whole
  <1> QED
    BY <1>7, <1>9 DEF CountInv, Early

\* The invariant holds initially.
LEMMA WorkInit ==
    ASSUME Init
    PROVE  WorkInv
  <1>1. /\ open = {} /\ rw = TRUE /\ queue = <<>> /\ inflight = {} /\ fs = Nobody
        /\ pc = [t \in Thread |-> "idle"] /\ job = [t \in Thread |-> Idle]
        /\ mine = [t \in Thread |-> {}]
    BY DEF Init
  <1>2. "idle" \in Label /\ "idle" \notin Mutex /\ Placed("idle", Idle) /\ Idle \in Job
    BY IdleJob DEF Label, Busy, Mutex
  <1>3. Control
    BY <1>1, <1>2, LifecycleAssumption DEF Control
  <1>4. Claims
    BY <1>1 DEF Claims
  <1>5. \A t \in Thread : job[t].worker = FALSE
    BY <1>1, IdleJob
  <1>6. Elems(queue) = {} /\ Once(queue)
    BY <1>1, SMTT(30) DEF Elems, Once
  <1>7. InflightExact
    BY <1>1, <1>5, <1>6, Inflight, ZenonT(40) DEF Accounted
  <1> QED
    BY <1>3, <1>4, <1>7, CountInit DEF WorkInv

(* The bookkeeping of the calls is right in every state, whatever pointers   *)
(* the callers bring along and wherever the process dies: the trees and the  *)
(* claims have their types, the fs mutex is held by exactly the thread       *)
(* between a check and its commit, and the buckets in flight are those       *)
(* queued or in the hands of a discard worker, each once.                    *)
THEOREM WorkIsAccounted == Spec => []WorkAccounted
  <1>1. WorkInv => WorkAccounted
    <2>1. ASSUME WorkInv PROVE TypeOK
      BY <2>1, ZenonT(40) DEF WorkInv, CountInv, Base, Trees, Control, Claims, Mutex, TypeOK
    <2> QED
      BY <2>1, SMTT(30) DEF WorkInv, WorkAccounted
  <1>2. Init => WorkInv
    BY WorkInit
  <1>3. WorkInv /\ [Next]_vars => WorkInv'
    BY WorkNext
  <1> QED
    BY <1>1, <1>2, <1>3, PTL DEF Spec

=============================================================================
