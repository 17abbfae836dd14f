-------------------------- MODULE BucketLifecycle --------------------------
(***************************************************************************)
(* The bucket operations of StorageEngine (engine.rs) called by several    *)
(* threads: allocate_bucket, reclaim_bucket, discard_bucket, the open      *)
(* claims and the rw state of the device, and the discard queue with its   *)
(* worker.                                                                 *)
(*                                                                         *)
(* The trees are changed under the fs mutex; the open claims, the rw state *)
(* and the queue have mutexes of their own, which are not held across a    *)
(* commit.  A critical section that does not block is one step, and what   *)
(* is checked in one section and used in another is two steps.             *)
(***************************************************************************)
EXTENDS DerivedState, Sequences

CONSTANTS
    Thread,       \* callers
    Nobody,
    MaxOps,       \* bound: operations per caller
    MaxQueue,     \* bound: length of the discard queue
    AfterCrash,   \* bound: operations per caller after a crash
    MaxCrash      \* bound: crashes, the first of a running engine and the
                  \* others while the image is opened or repaired

ASSUME LifecycleAssumption ==
    Nobody \notin Thread /\ {MaxOps, MaxQueue, AfterCrash, MaxCrash} \subseteq Nat

VARIABLES
    open,      \* open_buckets
    rw,        \* the device is in rw_devs
    queue,     \* discard_inflight.0
    inflight,  \* discard_inflight.1
    lastOndisk,\* journal.last_seq_ondisk
    fresh,     \* buckets made need_discard by a record after lastOndisk
    fs,        \* owner of the fs mutex
    pc,        \* of every thread
    job,       \* thread: the bucket, the scan or the round it works on
    mine,      \* the buckets a thread has allocated, with their generation
    ops,       \* operations begun
    crashes

jvars == <<lastOndisk, fresh, rb, crashes>>

vars == <<tr, open, rw, queue, inflight, jvars, fs, pc, job, mine, ops>>

Idle == [bucket |-> 0, scan |-> {}, round |-> 0, deferred |-> FALSE,
         worker |-> FALSE, once |-> FALSE, checked |-> FALSE]

Goto(t, label) == pc' = [pc EXCEPT ![t] = label]

Begin(t) == /\ Up /\ pc[t] = "idle" /\ ops[t] < MaxOps
            /\ ops' = [ops EXCEPT ![t] = @ + 1]

Work(t, b, label) == job' = [job EXCEPT ![t].bucket = b] /\ Goto(t, label)

Return(t) == job' = [job EXCEPT ![t] = Idle] /\ Goto(t, "idle")

(* discard_bucket returns r: to its caller, or to the worker that called it. *)
Finish(t, r) ==
    IF job[t].worker
    THEN /\ Goto(t, CASE r = -11 -> "defer" [] r = 0 -> "done"
                       [] OTHER -> "abort")
         /\ job' = [job EXCEPT ![t].checked = FALSE]
    ELSE Return(t)

-----------------------------------------------------------------------------
(* allocate_bucket: the rw state is read before the commit.                  *)
Allocate(t) ==
    /\ Begin(t) /\ fs = Nobody /\ rw
    /\ fs' = t /\ Goto(t, "alloc")
    /\ UNCHANGED <<tr, open, rw, queue, inflight, jvars, job, mine>>

AllocateCommit(t) ==
    /\ pc[t] = "alloc"
    /\ IF Candidates(tr) = {} THEN UNCHANGED <<tr, mine>>        \* -28
       ELSE LET b == Min(Candidates(tr))
            IN  /\ tr' = Allocated(tr, b)
                /\ mine' = [mine EXCEPT ![t] = @ \cup {<<b, tr.alloc[b].gen>>}]
    /\ fs' = Nobody /\ Return(t)
    /\ UNCHANGED <<open, rw, queue, inflight, jvars, ops>>

(* A caller commits an extent in a bucket it has allocated, or at an address *)
(* and generation it brings along, or removes one.                           *)
Insert(t) ==
    /\ Begin(t) /\ fs = Nobody
    /\ \E m \in mine[t] \cup (Bucket \X Generations), s \in 1 .. Slots :
         LET e == [bucket |-> m[1], slot |-> s, gen |-> m[2]]
         IN  /\ \A q \in tr.extents : q.bucket # e.bucket \/ q.slot # s
             /\ MayInsert(tr, e) /\ tr' = Inserted(tr, e)
    /\ UNCHANGED <<open, rw, queue, inflight, jvars, fs, pc, job, mine>>

Delete(t) ==
    /\ Begin(t) /\ fs = Nobody
    /\ \E e \in tr.extents : MayDelete(tr, e) /\ tr' = Deleted(tr, e)
    /\ UNCHANGED <<open, rw, queue, inflight, jvars, fs, pc, job, mine>>

(* open_bucket and close_open_bucket, by the caller that allocated the       *)
(* bucket; neither takes the fs mutex.                                       *)
OpenBucket(t) ==
    /\ Begin(t)
    /\ \E m \in mine[t] : open' = open \cup {m[1]}
    /\ UNCHANGED <<tr, rw, queue, inflight, jvars, fs, pc, job, mine>>

CloseBucket(t) ==
    /\ Begin(t)
    /\ \E b \in open : open' = open \ {b}
    /\ UNCHANGED <<tr, rw, queue, inflight, jvars, fs, pc, job, mine>>

(* set_device_rw: refused while a bucket is open.                            *)
SetDeviceRw(t) ==
    /\ Begin(t)
    /\ ~rw \/ open = {}
    /\ rw' = ~rw
    /\ UNCHANGED <<tr, open, queue, inflight, jvars, fs, pc, job, mine>>

-----------------------------------------------------------------------------
(* reclaim_bucket: the open claims and the rw state are read under the fs    *)
(* mutex but may change before the commit.                                   *)
Reclaim(t) ==
    /\ Begin(t) /\ \E b \in Bucket : Work(t, b, "reclaim")
    /\ UNCHANGED <<tr, open, rw, queue, inflight, jvars, fs, mine>>

ReclaimCheck(t) ==
    /\ pc[t] = "reclaim" /\ fs = Nobody
    /\ IF job[t].bucket \in open \/ ~rw
       THEN Finish(t, -16) /\ UNCHANGED fs
       ELSE fs' = t /\ Goto(t, "commit") /\ UNCHANGED job
    /\ UNCHANGED <<tr, open, rw, queue, inflight, jvars, mine, ops>>

ReclaimCommit(t) ==
    LET r == Reclaimed(tr, job[t].bucket, lastOndisk)
    IN  /\ pc[t] = "commit"
        /\ tr' = r.tr
        /\ fresh' = fresh \cup (r.tr.needDiscard \ tr.needDiscard)
        /\ fs' = Nobody /\ Finish(t, r.ret)
        /\ UNCHANGED <<open, rw, queue, inflight, lastOndisk, rb, crashes, mine, ops>>

(* discard_bucket: the state of the bucket is checked, the fs mutex is       *)
(* released, and reclaim_bucket is called.                                   *)
Discard(t) ==
    /\ Begin(t) /\ \E b \in Bucket : Work(t, b, "discard")
    /\ UNCHANGED <<tr, open, rw, queue, inflight, jvars, fs, mine>>

DiscardCheck(t) ==
    LET b == job[t].bucket
        a == tr.alloc[b]
    IN  /\ pc[t] = "discard" /\ fs = Nobody
        /\ CASE a.type = "none" -> Finish(t, -2)
             [] a.type # "none" /\ \/ a.type # "need_discard"
                                   \/ a.seqEmpty > lastOndisk
                                   \/ b \in open \/ ~rw -> Finish(t, -11)
             [] OTHER -> /\ job' = [job EXCEPT ![t].checked = TRUE]
                         /\ Goto(t, "reclaim")
        /\ UNCHANGED <<tr, open, rw, queue, inflight, jvars, fs, mine, ops>>

-----------------------------------------------------------------------------
(* The discard queue.                                                        *)

(* queue_discard_bucket; a bucket that is in flight is refused with -17.     *)
QueueDiscard(t) ==
    /\ Begin(t) /\ Len(queue) < MaxQueue
    /\ \E b \in Bucket \ inflight :
         /\ inflight' = inflight \cup {b}
         /\ queue' = Append(queue, b)
    /\ UNCHANGED <<tr, open, rw, jvars, fs, pc, job, mine>>

(* discover_discard_buckets: the index is read under the fs mutex, the queue *)
(* filled after it is released.                                              *)
Discover(t) ==
    /\ Begin(t) /\ fs = Nobody
    /\ job' = [job EXCEPT ![t].scan = tr.needDiscard]
    /\ Goto(t, "discover")
    /\ UNCHANGED <<tr, open, rw, queue, inflight, jvars, fs, mine>>

(* The buckets of a set in the order of their keys.                          *)
Ascending(S) ==
    {s \in [1 .. Cardinality(S) -> S] :
        /\ \A i, j \in DOMAIN s : i < j => s[i] < s[j]
        /\ \A b \in S : \E i \in DOMAIN s : s[i] = b}

DiscoverQueue(t) ==
    LET found == job[t].scan \ inflight
    IN  /\ pc[t] = "discover"
        /\ inflight' = inflight \cup found
        /\ \E s \in Ascending(found) : queue' = queue \o s
        /\ Return(t)
        /\ UNCHANGED <<tr, open, rw, jvars, fs, mine, ops>>

(* run_discard_worker and run_discard_worker_once.                           *)
RunWorker(t) ==
    /\ Begin(t) /\ Goto(t, "round")
    /\ UNCHANGED <<tr, open, rw, queue, inflight, jvars, fs, job, mine>>

RunWorkerOnce(t) ==
    /\ Begin(t) /\ queue # <<>>
    /\ job' = [job EXCEPT ![t] = [Idle EXCEPT !.round = 1, !.once = TRUE]]
    /\ Goto(t, "pop")
    /\ UNCHANGED <<tr, open, rw, queue, inflight, jvars, fs, mine>>

WorkerRound(t) ==
    /\ pc[t] = "round"
    /\ IF queue = <<>> THEN Return(t)                            \* Ok
       ELSE /\ job' = [job EXCEPT ![t] = [Idle EXCEPT !.round = Len(queue)]]
            /\ Goto(t, "pop")
    /\ UNCHANGED <<tr, open, rw, queue, inflight, jvars, fs, mine, ops>>

(* Mutant: a deferred bucket does not end the pass.                          *)
WorkerPopAgain(t) ==
    /\ pc[t] = "pop"
    /\ \/ /\ job[t].round # 0 /\ queue # <<>>
          /\ job' = [job EXCEPT ![t] = [job[t] EXCEPT !.bucket = Head(queue),
                                    !.worker = TRUE, !.round = job[t].round - 1]]
          /\ queue' = Tail(queue) /\ Goto(t, "discard")
       \/ /\ job[t].round = 0 \/ queue = <<>>
          /\ IF job[t].once THEN Return(t)
             ELSE Goto(t, "round") /\ job' = [job EXCEPT ![t] = Idle]
          /\ UNCHANGED queue
    /\ UNCHANGED <<tr, open, rw, inflight, jvars, fs, mine, ops>>

(* The next bucket of the round, or the end of the round: -11 when a bucket  *)
(* was deferred, another round otherwise.                                    *)
WorkerPop(t) ==
    /\ pc[t] = "pop"
    /\ \/ /\ job[t].round # 0 /\ queue # <<>>
          /\ job' = [job EXCEPT ![t] = [job[t] EXCEPT !.bucket = Head(queue),
                                    !.worker = TRUE, !.round = job[t].round - 1]]
          /\ queue' = Tail(queue) /\ Goto(t, "discard")
       \/ /\ job[t].round = 0 \/ queue = <<>>
          /\ IF job[t].deferred \/ job[t].once THEN Return(t)
             ELSE Goto(t, "round") /\ job' = [job EXCEPT ![t] = Idle]
          /\ UNCHANGED queue
    /\ UNCHANGED <<tr, open, rw, inflight, jvars, fs, mine, ops>>

(* Mutant: a deferred bucket leaves the in-flight set although it is queued. *)
WorkerDeferForget(t) ==
    /\ pc[t] = "defer"
    /\ queue' = Append(queue, job[t].bucket)
    /\ inflight' = inflight \ {job[t].bucket}
    /\ job' = [job EXCEPT ![t] = [job[t] EXCEPT !.bucket = 0, !.worker = FALSE,
                                                !.deferred = TRUE]]
    /\ Goto(t, "pop")
    /\ UNCHANGED <<tr, open, rw, jvars, fs, mine, ops>>

(* What became of the bucket: not yet, back to the tail; otherwise it leaves *)
(* the set of buckets in flight, and an error ends the pass.                 *)
WorkerDefer(t) ==
    /\ pc[t] = "defer"
    /\ queue' = Append(queue, job[t].bucket)
    /\ job' = [job EXCEPT ![t] = [job[t] EXCEPT !.bucket = 0, !.worker = FALSE,
                                                !.deferred = TRUE]]
    /\ Goto(t, "pop")
    /\ UNCHANGED <<tr, open, rw, inflight, jvars, fs, mine, ops>>

WorkerDone(t) ==
    /\ pc[t] \in {"done", "abort"}
    /\ inflight' = inflight \ {job[t].bucket}
    /\ IF pc[t] = "abort" THEN Return(t)
       ELSE /\ job' = [job EXCEPT ![t] = [job[t] EXCEPT !.bucket = 0, !.worker = FALSE]]
            /\ Goto(t, "pop")
    /\ UNCHANGED <<tr, open, rw, queue, jvars, fs, mine, ops>>

(* The journal writes a record that advances last_seq_ondisk.                *)
JournalAdvance ==
    /\ Up /\ lastOndisk = 0 /\ lastOndisk' = 1 /\ fresh' = {}
    /\ UNCHANGED <<tr, open, rw, queue, inflight, rb, crashes, fs, pc, job,
                   mine, ops>>

(* The process dies: the claims, the queue and the calls are gone.  The      *)
(* device is rw when the image is opened again.                              *)
Crash ==
    /\ rb.stage # "down" /\ crashes < MaxCrash /\ (Up => crashes = 0)
    /\ crashes' = crashes + 1 /\ Stops(0)
    /\ open' = {} /\ rw' = TRUE /\ queue' = <<>> /\ inflight' = {}
    /\ fs' = Nobody /\ fresh' = {} /\ UNCHANGED lastOndisk
    /\ ops' = [t \in Thread |-> Max({ops[t], MaxOps - AfterCrash})]
    /\ pc' = [t \in Thread |-> "idle"] /\ job' = [t \in Thread |-> Idle]
    /\ mine' = [t \in Thread |-> {}]

(* The image is opened, or repaired by fsck.                                 *)
Recovery ==
    /\ RecoveryStep
    /\ UNCHANGED <<open, rw, queue, inflight, lastOndisk, fresh, crashes, fs,
                   pc, job, mine, ops>>

-----------------------------------------------------------------------------
(* Every data bucket is free but the first, which was emptied by the record  *)
(* with sequence 1 or has no record at all.                                  *)
Init ==
    /\ \E a \in {NoAlloc, [NoAlloc EXCEPT !.type = "need_discard", !.gen = 1,
                                          !.oldest = 1, !.seqEmpty = 1]} :
         tr = [alloc |-> [b \in Bucket |-> IF b = 1 THEN a ELSE FreshFree],
               freespace |-> {<<b, 0>> : b \in Bucket \ {1}},
               needDiscard |-> IF a.type = "none" THEN {} ELSE {1},
               backpointers |-> {}, extents |-> {}]
    /\ open = {} /\ rw = TRUE /\ queue = <<>> /\ inflight = {}
    /\ lastOndisk = 0 /\ fresh = {} /\ fs = Nobody
    /\ pc = [t \in Thread |-> "idle"] /\ job = [t \in Thread |-> Idle]
    /\ mine = [t \in Thread |-> {}] /\ ops = [t \in Thread |-> 0]
    /\ rb = Fresh(tr) /\ crashes = 0

Call(t) ==
    \/ Allocate(t) \/ Insert(t) \/ Delete(t) \/ OpenBucket(t) \/ CloseBucket(t)
    \/ SetDeviceRw(t) \/ Reclaim(t) \/ Discard(t) \/ QueueDiscard(t)
    \/ Discover(t) \/ RunWorker(t) \/ RunWorkerOnce(t)

Step(t) ==
    \/ AllocateCommit(t) \/ ReclaimCheck(t) \/ ReclaimCommit(t)
    \/ DiscardCheck(t) \/ DiscoverQueue(t) \/ WorkerRound(t) \/ WorkerPop(t)
    \/ WorkerDefer(t) \/ WorkerDone(t)

Next ==
    \/ \E t \in Thread : Call(t) \/ Step(t)
    \/ JournalAdvance \/ Crash \/ Recovery

Spec == Init /\ [][Next]_vars

(* A caller inside a call runs on, and gets the fs mutex it waits for.       *)
FairSpec ==
    Spec /\ \A t \in Thread : WF_vars(Step(t)) /\ SF_vars(ReclaimCheck(t))

-----------------------------------------------------------------------------
(* Properties.                                                               *)

(* The trees and the sets EngineState keeps hold values of their types, and  *)
(* the fs mutex is held by exactly the thread between the check and the      *)
(* commit of an allocation or a reclaim.                                     *)
TypeOK ==
    /\ \A b \in Bucket : tr.alloc[b] \in Alloc
    /\ tr.extents \subseteq Extent /\ tr.backpointers \subseteq Extent
    /\ open \subseteq Bucket /\ rw \in BOOLEAN
    /\ queue \in Seq(Bucket) /\ inflight \subseteq Bucket
    /\ fs \in Thread \cup {Nobody}
    /\ \A t \in Thread : pc[t] \in {"alloc", "commit"} <=> fs = t

(* verify_bucket_indexes and verify_derived_state hold after every           *)
(* operation, whatever the threads do: an index never names a bucket in      *)
(* another state, and no pointer lives in a bucket of another generation.    *)
(* Only the need_discard index may be stale, after a crash that lost alloc   *)
(* records and until an fsck.                                                *)
IndexesConsistent ==
    /\ tr.freespace = ExpectedFreespace(tr) /\ DerivedOk(tr)
    /\ rb.stale \/ BucketIndexesOk(tr)

(* No live extent is in a bucket that is free or waits for its discard: a    *)
(* caller that still holds a pointer into a bucket that was reclaimed under  *)
(* it is stopped by the generation.                                          *)
NoLiveInReclaimed ==
    \A e \in tr.extents : tr.alloc[e.bucket].type = "btree"

Queued == {queue[i] : i \in DOMAIN queue}

(* The queue holds no bucket twice, and the buckets in flight are exactly    *)
(* those queued or in the hands of a worker: none is forgotten, none can be  *)
(* queued again.                                                             *)
InflightExact ==
    LET held == {t \in Thread : job[t].worker}
    IN  /\ \A i, j \in DOMAIN queue : queue[i] = queue[j] => i = j
        /\ \A t \in held : job[t].bucket \notin Queued
        /\ \A t, u \in held : t # u => job[t].bucket # job[u].bucket
        /\ inflight = Queued \cup {job[t].bucket : t \in held}

(* reclaim_bucket and discard_bucket leave an open bucket alone.             *)
OpenProtected ==
    [][\A b \in open \cap open' :
         tr.alloc[b].type = "btree" => tr'.alloc[b].type = "btree"]_vars

(* discard_bucket only completes the discard of a need_discard bucket.       *)
DiscardOnlyNeedDiscard ==
    [][\A t \in Thread :
         job[t].checked /\ ReclaimCommit(t)
           => tr' = tr \/ tr.alloc[job[t].bucket].type = "need_discard"]_vars

(* A bucket is not freed, and so not reused, before the journal has made its *)
(* transition to need_discard durable.                                       *)
DiscardAfterDurable ==
    [][\A b \in fresh : tr'.alloc[b].type # "free"]_vars

(* verify_guard_invariants: no open bucket is free, no free bucket is on a   *)
(* device that is not rw.                                                    *)
GuardInvariants ==
    \A b \in OfType(tr, "free") : b \notin open /\ rw

(* A pass of the discard worker ends.                                        *)
WorkerReturns == \A t \in Thread : pc[t] = "round" ~> pc[t] = "idle"

(* What reclaim promises about the trees: the indexes agree with the alloc   *)
(* records and the extents, and no extent lives in a bucket that is free or  *)
(* waits for its discard, unless a crash fell into the window of a rebuild.  *)
TreesConsistent == Up => IndexesConsistent /\ (rb.torn \/ NoLiveInReclaimed)

(* The bookkeeping of the calls: mutex, types and the discards in flight.    *)
WorkAccounted == TypeOK /\ InflightExact
=============================================================================
