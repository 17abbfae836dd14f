--------------------------- MODULE SixLockProofs ---------------------------
(***************************************************************************)
(* Proofs about SixLock for any finite set of tasks, any number of inline  *)
(* wait slots and any bounds: every variable keeps its type, the lock      *)
(* excludes, no assert of six.rs fails, the wait slots are consistent, and *)
(* a relock succeeds only if nobody has written meanwhile.                 *)
(*                                                                         *)
(* The first three properties follow from the inductive invariant IInv,    *)
(* whose preservation by each step is proved in the modules extended here; *)
(* the last two from Order, which is inductive beside IInv.                *)
(***************************************************************************)
EXTENDS SixLockSteps

-----------------------------------------------------------------------------
(* The invariant *)

\* A step that changes nothing
LEMMA StutterIInv == IInv /\ UNCHANGED vars => IInv'
<1> SUFFICES ASSUME IInv, UNCHANGED vars PROVE IInv'
    OBVIOUS
<1> USE DEF vars
<1>1. TypeOK' /\ FifoType'
    BY DEF IInv, TypeOK, FifoType
<1>2. Counted' /\ IntentInv' /\ WriteInv'
    BY CoreFrame DEF IInv
<1>3. PendingInv'
    BY DEF IInv, PendingInv, Pending
<1>4. OpInv'
  <2>1. ASSUME NEW u \in Task PROVE OpOk(u)'
    <3>1. OpOk(u) /\ op \in [Task -> Operation]
      BY DEF IInv, OpInv, TypeOK
    <3>2. Pending(u) => state'.write
      BY <3>1 DEF OpOk
    <3> QED
      BY <3>1, <3>2, OpFrame
  <2> QED
    BY <2>1 DEF OpInv
<1>5. QueueInv' /\ OwnerInv'
    BY DEF IInv, QueueInv, OwnerInv, At
<1> QED
    BY <1>1, <1>2, <1>3, <1>4, <1>5 DEF IInv

\* Increment of any type.
LEMMA IncrementIInv ==
    ASSUME IInv, NEW t \in Task, NEW k \in Type, Increment(t, k) PROVE IInv'
BY IncrementRead, IncrementIntent, IncrementWrite DEF Type

\* Every step of the lock's code keeps the invariant.
LEMMA StepIInv ==
    ASSUME IInv, NEW t \in Task, Step(t) PROVE IInv'
<1>1. CASE LockLent(t) \/ RestoreReads(t) \/ Slow(t) \/ Enqueue(t) \/ Retry(t) \/ Unparked(t)
    BY <1>1, LockLentIInv, RestoreReadsIInv, SlowIInv, EnqueueIInv, RetryIInv, UnparkedIInv, SMTT(30), ZenonT(40)
<1>2. CASE CancelLocked(t) \/ CancelWrite(t) \/ CancelWake(t)
    BY <1>2, CancelLockedIInv, CancelWriteIInv, CancelWakeIInv
<1>3. CASE Release(t) \/ Wake(t) \/ Scan(t) \/ Clear(t)
    BY <1>3, ReleaseIInv, WakeIInv, ScanIInv, ClearIInv
<1>4. CASE RelockTry(t) \/ RelockOk(t) \/ RelockFail(t) \/ DowngradeUnlock(t)
    BY <1>4, RelockTryIInv, RelockOkIInv, RelockFailIInv, DowngradeUnlockIInv
<1> QED
    BY <1>1, <1>2, <1>3, <1>4 DEF Step

\* Every call keeps the invariant.
LEMMA CallIInv ==
    ASSUME IInv, NEW t \in Task, Call(t) PROVE IInv'
<1>1. CASE \E k \in Type : TryLock(t, k) \/ Lock(t, k) \/ Unlock(t, k) \/ Increment(t, k)
    BY <1>1, TryLockIInv, LockIInv, UnlockIInv, IncrementIInv
<1>2. CASE \E k \in {"read", "intent"} : Relock(t, k)
    BY <1>2, RelockIInv
<1>3. CASE \/ LendReads(t) \/ Cancel(t) \/ WakeupAll(t) \/ ReadSeq(t) \/ Downgrade(t)
           \/ TryUpgrade(t)
    BY <1>3, LendReadsIInv, CancelIInv, WakeupAllIInv, ReadSeqIInv, DowngradeIInv,
       TryUpgradeIInv
<1> QED
    BY <1>1, <1>2, <1>3 DEF Call

\* IInv holds in every reachable state: the lock word always agrees with the
\* references of the tasks, with what each task is doing, and with the owner
\* cell and the wait slots.
THEOREM Invariance == Spec => []IInv
<1>1. Init => IInv
    BY InitIInv
<1>2. IInv /\ [Next]_vars => IInv'
  <2>1. ASSUME IInv, Next PROVE IInv'
    BY <2>1, StepIInv, CallIInv DEF Next
  <2> QED
    BY <2>1, StutterIInv
<1> QED
    BY <1>1, <1>2, PTL DEF Spec

-----------------------------------------------------------------------------
(* What it is for *)

\* Every variable of the lock keeps its type: no count of references in the
\* lock word, in a task or in a recursion counter ever underflows.
THEOREM TypeCorrect == Spec => []TypeOK
<1>1. IInv => TypeOK
    BY DEF IInv
<1> QED
    BY <1>1, Invariance, PTL

\* The lock excludes (lock_fail, the pending HELD_WRITE of the slow path, the
\* hand-over by wakers, readers_add and recursion together): beside a writer
\* nobody has a reference, and one task at a time has intent.
THEOREM Exclusion == Spec => []MutualExclusion
<1>1. IInv => MutualExclusion
  <2> SUFFICES ASSUME IInv, NEW t \in Task, NEW u \in Task, t # u
               PROVE  /\ hold[t].write # 0 => hold[u] = NoHold
                      /\ hold[t].intent # 0 => hold[u].intent = 0
    BY DEF MutualExclusion
  <2>1. hold[t].intent # 0 => hold[u].intent = 0 /\ hold[u].write = 0
    BY SoleIntent
  <2>2. hold[t].write # 0 => hold[t].intent # 0 /\ hold[u].read = 0
    BY DEF IInv, WriteInv
  <2>3. hold[u] \in References
    BY TaskFacts
  <2>4. hold[u].read = 0 /\ hold[u].intent = 0 /\ hold[u].write = 0 => hold[u] = NoHold
    BY <2>3 DEF References, NoHold
  <2> QED
    BY <2>1, <2>2, <2>4
<1> QED
    BY <1>1, Invariance, PTL

\* No assert of six.rs fails: not the owner checks of six_set_owner and
\* six_unlock_ip, not the HELD_WRITE checks of __do_six_trylock, not the held
\* check of do_six_unlock_type.
THEOREM NoAssertFails == Spec => []AssertsHold
<1>1. IInv => AssertsHold
  <2> SUFFICES ASSUME IInv PROVE AssertsHold
    OBVIOUS
  <2>1. ~state.intent => owner = NoTask
    <3>1. \A t \in Task : owner = t => hold[t].intent # 0
      BY DEF IInv, OwnerInv
    <3>2. owner \in Task \cup {NoTask}
      BY DEF IInv, TypeOK
    <3> QED
      BY <3>1, <3>2 DEF IInv, IntentInv
  <2>2. ASSUME NEW t \in Task, hold[t].intent # 0, hold[t].write = 0, ~Pending(t)
        PROVE  ~state.write
    <3>1. \A u \in Task \ {t} : hold[u].write = 0 /\ ~Pending(u)
      BY <2>2, SoleIntent
    <3> QED
      BY <2>2, <3>1 DEF IInv, PendingInv
  <2>3. ASSUME NEW t \in Task, hold[t].intent # 0, op[t].pc # "release"
        PROVE  owner = t /\ state.intent
    BY <2>3 DEF IInv, OwnerInv, IntentInv, At
  <2>4. ASSUME NEW t \in Task, hold[t].write = 0, At(t, "idle"), owner = t
        PROVE  ~state.write
    <3>1. hold[t].intent # 0 /\ ~Pending(t)
      BY <2>4 DEF IInv, OwnerInv, Pending, At
    <3> QED
      BY <2>2, <2>4, <3>1
  <2>5. ASSUME NEW t \in Task, At(t, "slow"), op[t].want = "write"
        PROVE  ~state.write /\ owner = t
    <3>1. OpOk(t)
      BY TaskFacts
    <3>2. hold[t].intent # 0 /\ hold[t].write = 0
      BY <2>5, <3>1 DEF OpOk
    <3>3. ~Pending(t) /\ op[t].pc # "release"
      BY <2>5 DEF Pending, At
    <3> QED
      BY <2>2, <2>3, <3>2, <3>3
  <2>6. ASSUME NEW t \in Task, At(t, "release") PROVE Held(state, op[t].want)
    <3>1. OpOk(t) /\ op[t].want \in Type
      BY TaskFacts
    <3>2. hold[t][op[t].want] # 0
      BY <2>6, <3>1 DEF OpOk
    <3>3. CASE op[t].want = "read"
      <4>1. state.read # 0
        BY <3>2, <3>3, NoReaders DEF IInv
      <4> QED
        BY <3>3, <4>1 DEF Held
    <3>4. CASE op[t].want = "intent"
      <4>1. state.intent
        BY <3>2, <3>4 DEF IInv, IntentInv
      <4> QED
        BY <3>4, <4>1 DEF Held
    <3>5. CASE op[t].want = "write"
      <4>1. state.write
        BY <3>2, <3>5 DEF IInv, WriteInv
      <4> QED
        BY <3>5, <4>1 DEF Held
    <3> QED
      BY <3>1, <3>3, <3>4, <3>5 DEF Type
  <2>7. ASSUME NEW t \in Waiting("write") PROVE owner = t /\ state.write
    <3>1. t \in Task /\ Pending(t) /\ op[t].pc # "release"
      BY DEF Waiting, Pending
    <3>2. state.write /\ hold[t].intent # 0
      BY <3>1, PendingSet
    <3> QED
      BY <2>3, <3>1, <3>2
  <2> QED
    BY <2>1, <2>3, <2>4, <2>5, <2>6, <2>7, SMTT(30), ZenonT(40) DEF AssertsHold
<1> QED
    BY <1>1, Invariance, PTL

-----------------------------------------------------------------------------
(* The wait slots, the sequence number and the version *)

\* The task is queued.
Parked(t) == op[t].pc \in {"parked", "cancel"} /\ ~op[t].acquired

\* The slots in use are below nr, and so is the slot looked at first.
Fit(f) == f.hint <= f.nr /\ \A i \in DOMAIN f.data : f.data[i] # NoTask => i < f.nr

\* Every queued task is in its slot, and no slot from nr on is used.
WaitInv ==
    /\ Fit(fifo)
    /\ \A t \in Task : Parked(t) => /\ op[t].slot \in DOMAIN fifo.data
                                    /\ fifo.data[op[t].slot] = t

\* An operation in which write has been granted and not yet entered, or whose
\* unlock has bumped the sequence number.
Shut(o) == o.want = "write" /\ o.pc \in {"parked", "cancel", "release"}

\* The task is in a write section.
Writing(t) == hold[t].write # 0 /\ ~Shut(op[t])

\* The sequence number is one behind the version exactly during a write section.
SeqInv ==
    /\ (\E t \in Task : Writing(t)) => version = seq + 1
    /\ (\A t \in Task : ~Writing(t)) => version = seq
    /\ \A t \in Task : snap[t].seq = -1 \/ snap[t].version = snap[t].seq
    /\ \A t \in Task : At(t, "relock") => hold[t].write = 0
Order == SeqInv /\ WaitInv

-----------------------------------------------------------------------------
(* What a step leaves alone *)

\* The queue stays, and nobody joins it.
LEMMA WaitFrame ==
    ASSUME WaitInv, fifo' = fifo,
           \A u \in Task : Parked(u)' => Parked(u) /\ op'[u].slot = op[u].slot
    PROVE  WaitInv'
BY DEF WaitInv

\* No write section is entered or left.
LEMMA SeqFrame ==
    ASSUME SeqInv, UNCHANGED <<seq, version, snap>>,
           \A u \in Task : Writing(u)' <=> Writing(u),
           \A u \in Task : At(u, "relock")' => hold'[u].write = 0
    PROVE  SeqInv'
BY DEF SeqInv

\* A task that is in no write section afterwards either.
LEMMA WritingFrame ==
    ASSUME NEW u \in Task, op'[u] = op[u], hold'[u] = hold[u], SeqInv
    PROVE  /\ Writing(u)' <=> Writing(u)
           /\ At(u, "relock")' => hold'[u].write = 0
           /\ Parked(u)' <=> Parked(u)
BY DEF Writing, Shut, SeqInv, At, Parked

\* A step that moves only task t to r, out of the queue, and in which t enters
\* and leaves no write section.
LEMMA PlainStep ==
    ASSUME IInv, Order, NEW t \in Task, NEW r, op' = [op EXCEPT ![t] = r],
           UNCHANGED <<seq, version, snap, fifo>>,
           \A u \in Task \ {t} : hold'[u] = hold[u],
           hold'[t].write = 0 <=> hold[t].write = 0,
           r.pc \notin {"parked", "cancel", "relock"},
           hold[t].write = 0 \/ (Shut(r) <=> Shut(op[t]))
    PROVE  Order'
<1>1. op'[t] = r /\ \A u \in Task \ {t} : op'[u] = op[u]
    BY DEF IInv, TypeOK
<1>2. \A u \in Task \ {t} : /\ Writing(u)' <=> Writing(u)
                            /\ At(u, "relock")' => hold'[u].write = 0
                            /\ Parked(u)' <=> Parked(u)
    BY <1>1, WritingFrame DEF Order
<1>3. Writing(t)' <=> Writing(t)
    BY <1>1 DEF Writing
<1>4. ~Parked(t)' /\ ~At(t, "relock")'
    BY <1>1 DEF Parked, At
<1>5. SeqInv'
    BY <1>2, <1>3, <1>4, SeqFrame DEF Order
<1>6. WaitInv'
    BY <1>1, <1>2, <1>4, WaitFrame DEF Order
<1> QED
    BY <1>5, <1>6 DEF Order

\* A step of t that touches neither the operations nor the queue.
LEMMA SameOps ==
    ASSUME IInv, Order, NEW t \in Task, op[t].pc \notin {"parked", "cancel", "relock"},
           UNCHANGED <<seq, version, snap, fifo, op>>,
           \A u \in Task \ {t} : hold'[u] = hold[u],
           hold'[t].write = 0 <=> hold[t].write = 0
    PROVE  Order'
<1>1. op' = [op EXCEPT ![t] = op[t]]
    BY DEF IInv, TypeOK
<1> QED
    BY <1>1, PlainStep, Zenon

\* Task t enters a write section, with intent held.
LEMMA EnterStep ==
    ASSUME IInv, Order, NEW t \in Task, NEW r, op' = [op EXCEPT ![t] = r],
           UNCHANGED <<seq, snap, fifo>>, version' = version + 1,
           \A u \in Task \ {t} : hold'[u] = hold[u],
           hold[t].intent # 0, ~Writing(t), hold'[t].write # 0,
           r.pc \notin {"parked", "cancel", "relock", "release"}
    PROVE  Order'
<1>1. op'[t] = r /\ \A u \in Task \ {t} : op'[u] = op[u]
    BY DEF IInv, TypeOK
<1>2. \A u \in Task \ {t} : /\ Writing(u)' <=> Writing(u)
                            /\ At(u, "relock")' => hold'[u].write = 0
                            /\ Parked(u)' <=> Parked(u)
    BY <1>1, WritingFrame DEF Order
<1>3. \A u \in Task : ~Writing(u)
    BY SoleIntent DEF Writing
<1>4. ~Parked(t)' /\ ~At(t, "relock")' /\ Writing(t)'
    BY <1>1 DEF Parked, At, Writing, Shut
<1>5. version' = seq' + 1
    BY <1>3 DEF Order, SeqInv
<1>6. SeqInv'
    BY <1>2, <1>4, <1>5 DEF Order, SeqInv
<1>7. WaitInv'
    BY <1>1, <1>2, <1>4, WaitFrame DEF Order
<1> QED
    BY <1>6, <1>7 DEF Order

\* With a reference that a writer excludes, and without write itself, a task
\* sees no write section.
LEMMA NoneWriting ==
    ASSUME IInv, Order, NEW t \in Task, hold[t].read # 0 \/ hold[t].intent # 0,
           hold[t].write = 0
    PROVE  version = seq
<1>1. \A u \in Task \ {t} : hold[u].write = 0
  <2>1. CASE hold[t].intent # 0
    BY <2>1, SoleIntent
  <2>2. CASE hold[t].read # 0
    BY <2>2 DEF IInv, WriteInv
  <2> QED
    BY <2>1, <2>2
<1>2. \A u \in Task : ~Writing(u)
    BY <1>1 DEF Writing
<1> QED
    BY <1>2 DEF Order, SeqInv
-----------------------------------------------------------------------------
(* Where a task goes *)

\* A move that keeps the type.
LEMMA GoesTo ==
    ASSUME IInv, NEW t \in Task, NEW l, Goto(t, l)
    PROVE  \E r : /\ op' = [op EXCEPT ![t] = r] /\ r.pc = l /\ r.want = op[t].want
                  /\ r.slot = op[t].slot /\ r.acquired = op[t].acquired
<1> DEFINE r == [op[t] EXCEPT !.pc = l]
<1>1. r.pc = l /\ r.want = op[t].want /\ r.slot = op[t].slot /\ r.acquired = op[t].acquired
    BY TaskFacts DEF Operation
<1>2. op' = [op EXCEPT ![t] = r]
    BY DEF Goto, IInv, TypeOK
<1> QED
    BY <1>1, <1>2, ZenonT(40)

\* The end of a call, with or without types to wake.
LEMMA GoesToRest ==
    /\ Idle.pc = "idle" /\ \A q : WakeNext(q).pc \in {"idle", "wake"}
    /\ \A t \in Task : Done(t) => op' = [op EXCEPT ![t] = Idle]
BY DEF Idle, WakeNext, Done

\* Return takes a task back to its caller, or to giving back lent reads.
LEMMA Returns ==
    ASSUME IInv, NEW t \in Task, Return(t)
    PROVE  \E r : op' = [op EXCEPT ![t] = r] /\ r.pc \in {"idle", "restore"}
<1>1. CASE op[t].lent # 0
    BY <1>1, GoesTo DEF Return
<1>2. CASE op[t].lent = 0
    BY <1>2, GoesToRest DEF Return
<1> QED
    BY <1>1, <1>2

\* At the other labels write, if held, has been entered.
LEMMA NotShut ==
    \A r : r.pc \notin {"parked", "cancel", "release"} \/ r.want # "write" => ~Shut(r)
BY DEF Shut

\* What a grant does to the references.
LEMMA GrantHold ==
    ASSUME IInv, NEW t \in Task, NEW k \in Type, NEW try, Grant(t, k, try)
    PROVE  /\ seq' = seq
           /\ \A u \in Task \ {t} : hold'[u] = hold[u]
           /\ k = "write" => hold'[t].write # 0
           /\ k # "write" => hold'[t].write = hold[t].write
<1>1. hold' = [hold EXCEPT ![t] = [hold[t] EXCEPT ![k] = hold[t][k] + 1]] /\ seq' = seq
    BY DEF Grant, IInv, TypeOK
<1>2. hold'[t] = [hold[t] EXCEPT ![k] = hold[t][k] + 1]
      /\ \A u \in Task \ {t} : hold'[u] = hold[u]
    BY <1>1 DEF IInv, TypeOK
<1>3. hold[t] \in References
    BY TaskFacts
<1>4. CASE k = "write"
    BY <1>1, <1>2, <1>3, <1>4 DEF References
<1>5. CASE k # "write"
    BY <1>1, <1>2, <1>3, <1>5 DEF References
<1> QED
    BY <1>4, <1>5, <1>1, <1>2

\* A grant with which the call goes on.
LEMMA GrantEnter ==
    ASSUME IInv, Order, NEW t \in Task, NEW k \in Type, NEW try, Grant(t, k, try), Enter(k),
           UNCHANGED <<fifo, snap>>, NEW r, op' = [op EXCEPT ![t] = r],
           r.pc \in {"idle", "restore"}, op[t].pc \in {"idle", "lock_write", "retry"},
           k = "write" => hold[t].intent # 0 /\ hold[t].write = 0
    PROVE  Order'
<1>1. ~Shut(r) /\ ~Shut(op[t])
    BY NotShut
<1>2. CASE k = "write"
  <2>1. version' = version + 1 /\ ~Writing(t)
    BY <1>2 DEF Enter, Writing
  <2> QED
    BY <1>2, <2>1, GrantHold, EnterStep, Zenon
<1>3. CASE k # "write"
  <2>1. version' = version
    BY <1>3 DEF Enter
  <2> QED
    BY <1>1, <1>3, <2>1, GrantHold, PlainStep, Zenon
<1> QED
    BY <1>2, <1>3

-----------------------------------------------------------------------------
(* The steps, one by one *)

LEMMA TryLockOrder ==
    ASSUME IInv, Order, NEW t \in Task, NEW k \in Type, TryLock(t, k) PROVE Order'
<1>1. op' = [op EXCEPT ![t] = op[t]]
    BY DEF TryLock, IInv, TypeOK
<1> QED
    BY <1>1, GrantEnter, Zenon DEF TryLock, At, MayTake

\* Acquire: a grant enters the section it was asked for, a refusal goes on to the
\* slow path.
LEMMA AcquireOrder ==
    ASSUME IInv, Order, NEW t \in Task, NEW k \in Type, Acquire(t, k),
           op[t].pc \in {"idle", "lock_write"},
           k = "write" => hold[t].intent # 0 /\ hold[t].write = 0
    PROVE  Order'
<1>1. CASE Grant(t, k, TRUE) /\ Enter(k) /\ Return(t)
  <2>1. PICK r : op' = [op EXCEPT ![t] = r] /\ r.pc \in {"idle", "restore"}
    BY <1>1, Returns
  <2> QED
    BY <1>1, <2>1, GrantEnter, ZenonT(40) DEF Acquire
<1>2. CASE /\ op' = [op EXCEPT ![t].pc = "slow", ![t].want = k]
           /\ UNCHANGED <<state, seq, owner, recurse, hold, version>>
  <2> DEFINE r == [op[t] EXCEPT !.pc = "slow", !.want = k]
  <2>0. op' = [op EXCEPT ![t] = r]
    BY <1>2, ZenonT(40) DEF IInv, TypeOK
  <2>1. r.pc = "slow"
    BY TaskFacts DEF Operation
  <2> HIDE DEF r
  <2>2. UNCHANGED <<seq, version, snap, fifo, hold>>
    BY <1>2 DEF Acquire
  <2>3. ~Shut(r) /\ ~Shut(op[t])
    BY <2>1, NotShut
  <2> QED
    BY <2>0, <2>1, <2>2, <2>3, PlainStep, Zenon
<1> QED
    BY <1>1, <1>2, Zenon DEF Acquire

\* Lock keeps Order.
LEMMA LockOrder ==
    ASSUME IInv, Order, NEW t \in Task, NEW k \in Type, Lock(t, k) PROVE Order'
BY AcquireOrder DEF Lock, MayTake, At

\* LockLent keeps Order.
LEMMA LockLentOrder ==
    ASSUME IInv, Order, NEW t \in Task, LockLent(t) PROVE Order'
<1>0. OpOk(t) /\ At(t, "lock_write")
    BY TaskFacts DEF LockLent
<1>1. hold[t].intent # 0 /\ hold[t].write = 0 /\ op[t].pc = "lock_write"
    BY <1>0 DEF At, OpOk
<1> QED
    BY <1>1, AcquireOrder DEF LockLent, Type
\* LendReads, RestoreReads, Downgrade and TryUpgrade change read and intent only.
LEMMA LendReadsOrder ==
    ASSUME IInv, Order, NEW t \in Task, LendReads(t) PROVE Order'
<1> DEFINE r == [op[t] EXCEPT !.pc = "lock_write", !.lent = hold[t].read]
<1>1. op' = [op EXCEPT ![t] = r]
    BY Zenon DEF LendReads, IInv, TypeOK
<1>2. r.pc = "lock_write"
    BY TaskFacts DEF Operation
<1>3. /\ \A u \in Task \ {t} : hold'[u] = hold[u]
      /\ hold'[t].write = hold[t].write
    BY DEF LendReads, IInv, TypeOK, References
<1> HIDE DEF r
<1>4. ~Shut(r) /\ ~Shut(op[t])
    BY <1>2, NotShut DEF LendReads, At
<1>5. UNCHANGED <<seq, version, snap, fifo>>
    BY DEF LendReads
<1>6. r.pc \notin {"parked", "cancel", "relock"}
    BY <1>2
<1> QED
    BY <1>1, <1>3, <1>4, <1>5, <1>6, PlainStep, Zenon

\* RestoreReads keeps Order: the writer that restores is still inside.
LEMMA RestoreReadsOrder ==
    ASSUME IInv, Order, NEW t \in Task, RestoreReads(t) PROVE Order'
<1>1. /\ \A u \in Task \ {t} : hold'[u] = hold[u]
      /\ hold'[t].write = hold[t].write
    BY DEF RestoreReads, IInv, TypeOK, References
<1> QED
    BY <1>1, GoesToRest, NotShut, PlainStep, SMTT(30), ZenonT(40) DEF RestoreReads, At

\* Downgrade keeps Order: it adds a read under an intent lock.
LEMMA DowngradeOrder ==
    ASSUME IInv, Order, NEW t \in Task, Downgrade(t) PROVE Order'
<1>1. /\ \A u \in Task \ {t} : hold'[u] = hold[u]
      /\ hold'[t].write = hold[t].write
    BY DEF Downgrade, IInv, TypeOK, References
<1>2. PICK r : op' = [op EXCEPT ![t] = r] /\ r.pc = "unlock"
    BY GoesTo DEF Downgrade
<1> QED
    BY <1>1, <1>2, NotShut, PlainStep, Zenon DEF Downgrade, At

\* TryUpgrade keeps Order: it turns a read into an intent lock.
LEMMA TryUpgradeOrder ==
    ASSUME IInv, Order, NEW t \in Task, TryUpgrade(t) PROVE Order'
<1>1. /\ \A u \in Task \ {t} : hold'[u] = hold[u]
      /\ hold'[t].write = hold[t].write
    BY DEF TryUpgrade, IInv, TypeOK, References
<1> QED
    BY <1>1, SameOps, Zenon DEF TryUpgrade, At

\* A write reference more leaves a task that has write in its section.
LEMMA IncrementOrder ==
    ASSUME IInv, Order, NEW t \in Task, NEW k \in Type, Increment(t, k) PROVE Order'
<1>1. hold[t] \in References /\ hold \in [Task -> References]
    BY TaskFacts DEF IInv, TypeOK
<1>2. /\ \A u \in Task \ {t} : hold'[u] = hold[u]
      /\ hold'[t].write = 0 <=> hold[t].write = 0
  <2>1. CASE k = "write"
    <3>1. hold[t].write # 0 /\ hold[t].write \in Nat
      BY <1>1, <2>1 DEF Increment, References
    <3>2. hold' = [hold EXCEPT ![t] = [hold[t] EXCEPT !.write = hold[t].write + 1,
                                                     !.intent = hold[t].intent + 1]]
      BY <1>1, <2>1, ZenonT(40) DEF Increment
    <3>3. /\ \A u \in Task \ {t} : hold'[u] = hold[u]
          /\ hold'[t].write = hold[t].write + 1
      BY <1>1, <3>2 DEF References
    <3> QED
      BY <3>1, <3>3
  <2>2. CASE k # "write"
    <3>1. hold' = [hold EXCEPT ![t] = [hold[t] EXCEPT ![k] = hold[t][k] + 1]]
      BY <1>1, <2>2 DEF Increment
    <3> QED
      BY <1>1, <2>2, <3>1 DEF References
  <2> QED
    BY <2>1, <2>2
<1> QED
    BY <1>2, SameOps, ZenonT(40) DEF Increment, At

\* Steps that move one task and change no reference.
LEMMA MoveOrder ==
    ASSUME IInv, Order, NEW t \in Task, NEW l \in {"enqueue", "retry", "cancel_wake", "scan"},
           Goto(t, l), op[t].pc \in {"slow", "enqueue", "cancel_write", "wake"},
           UNCHANGED <<seq, version, snap, fifo, hold>>
    PROVE  Order'
<1>1. PICK r : op' = [op EXCEPT ![t] = r] /\ r.pc = l
    BY GoesTo
<1> QED
    BY <1>1, NotShut, PlainStep, ZenonT(40)

\* The steps that change neither a grant nor the queue keep Order.
LEMMA QuietOrder ==
    ASSUME IInv, Order, NEW t \in Task,
           Slow(t) \/ Enqueue(t) \/ CancelWrite(t) \/ Wake(t)
    PROVE  Order'
BY MoveOrder DEF Slow, Enqueue, CancelWrite, Wake, At

\* The steps that only decide whom to wake next keep Order.
LEMMA RestOrder ==
    ASSUME IInv, Order, NEW t \in Task, CancelWake(t) \/ WakeupAll(t) \/ RelockOk(t)
    PROVE  Order'
<1>1. PICK r : op' = [op EXCEPT ![t] = r] /\ r.pc \in {"idle", "wake"}
    BY GoesToRest DEF CancelWake, WakeupAll, RelockOk
<1> QED
    BY <1>1, NotShut, PlainStep, Zenon DEF CancelWake, WakeupAll, RelockOk, At

\* Relock keeps Order: it has only compared the sequence number.
LEMMA RelockOrder ==
    ASSUME IInv, Order, NEW t \in Task, NEW k, Relock(t, k) PROVE Order'
<1> DEFINE r == [op[t] EXCEPT !.pc = "relock_try", !.want = k]
<1>1. op' = [op EXCEPT ![t] = r]
    BY ZenonT(40) DEF Relock, IInv, TypeOK
<1>2. r.pc = "relock_try"
    BY TaskFacts DEF Operation
<1> HIDE DEF r
<1>3. ~Shut(r) /\ ~Shut(op[t])
    BY <1>2, NotShut DEF Relock, At
<1>4. UNCHANGED <<seq, version, snap, fifo, hold>>
    BY DEF Relock
<1> QED
    BY <1>1, <1>2, <1>3, <1>4, PlainStep, Zenon

\* The sequence number is read outside of every write section.
LEMMA ReadSeqOrder ==
    ASSUME IInv, Order, NEW t \in Task, ReadSeq(t) PROVE Order'
<1>1. version = seq
  <2>1. hold[t].read # 0 \/ hold[t].intent # 0
    BY TaskFacts DEF ReadSeq, References
  <2> QED
    BY <2>1, NoneWriting DEF ReadSeq
<1>2. \A u \in Task : snap'[u].seq = -1 \/ snap'[u].version = snap'[u].seq
    BY <1>1 DEF ReadSeq, IInv, TypeOK, Order, SeqInv
<1>3. \A u \in Task : (Writing(u)' <=> Writing(u)) /\ (Parked(u)' <=> Parked(u))
    BY WritingFrame DEF ReadSeq, Order
<1>4. SeqInv'
    BY <1>2, <1>3, SMTT(30), ZenonT(40) DEF ReadSeq, Order, SeqInv, At
<1>5. WaitInv'
    BY <1>3, WaitFrame DEF ReadSeq, Order
<1> QED
    BY <1>4, <1>5 DEF Order

-----------------------------------------------------------------------------
(* The wait slots *)

\* six_lock_wait_fifo_shrink stops above the last waiter.
LEMMA ShrinkFit ==
    ASSUME NEW f \in Fifos, Fit(f) PROVE Fit(Shrink(f))
<1> DEFINE S == {n \in 0 .. f.nr : \A i \in n .. f.nr - 1 : f.data[i] = NoTask}
           m == Lowest(S)
<1>0. PICK n \in Nat \ {0} : f \in FifosOf(n)
    BY DEF Fifos
<1>1. f.nr \in S /\ S \in SUBSET Nat /\ f.nr \in Nat /\ f.hint \in Nat
    BY <1>0 DEF FifosOf
<1>2. m \in S
  <2> HIDE DEF S
  <2> QED
    BY <1>1, LowestIsLeast
<1>3. m \in Nat /\ \A i \in m .. f.nr - 1 : f.data[i] = NoTask
    BY <1>2
<1> DEFINE h == IF f.hint > m THEN m ELSE f.hint
<1>4. Shrink(f) = [f EXCEPT !.nr = m, !.hint = h]
    BY <1>0 DEF Shrink, FifosOf
<1> HIDE DEF m
<1>5. h <= m
    BY <1>1, <1>3
<1> HIDE DEF h
<1>6. Shrink(f).nr = m /\ Shrink(f).hint = h /\ Shrink(f).data = f.data
    BY <1>0, <1>4 DEF FifosOf
<1>7. ASSUME NEW i \in DOMAIN f.data, f.data[i] # NoTask PROVE i < m
  <2>1. i < f.nr /\ i \in Nat
    BY <1>7, FifoFacts DEF Fit
  <2> QED
    BY <1>1, <1>3, <1>7, <2>1, SMTT(30), ZenonT(40)
<1> QED
    BY <1>5, <1>6, <1>7 DEF Fit

\* six_lock_wait_fifo_remove only empties a slot.
LEMMA RemoveFit ==
    ASSUME NEW f \in Fifos, NEW i \in Nat, Fit(f) PROVE Fit(Remove(f, i))
<1>0. PICK n \in Nat \ {0} : f \in FifosOf(n)
    BY DEF Fifos
<1> DEFINE h == IF i < f.hint THEN i ELSE f.hint
           d == [f.data EXCEPT ![i] = NoTask]
<1>1. Remove(f, i) = [f EXCEPT !.data = d, !.hint = h]
    BY <1>0 DEF Remove, FifosOf
<1>2. h <= f.nr
    BY <1>0 DEF Fit, FifosOf
<1> HIDE DEF h, d
<1>3. Remove(f, i).nr = f.nr /\ Remove(f, i).hint = h
    BY <1>0, <1>1 DEF FifosOf
<1>4. /\ DOMAIN Remove(f, i).data = DOMAIN f.data
      /\ \A j \in DOMAIN f.data : Remove(f, i).data[j] # NoTask => f.data[j] # NoTask
    BY RemoveSlot
<1> QED
    BY <1>2, <1>3, <1>4 DEF Fit

\* six_lock_wait_fifo_insert takes a slot that nobody is in.
LEMMA InsertFit ==
    ASSUME NEW f \in Fifos, NEW t \in Task, Fit(f)
    PROVE  LET g == Insert(f, t)
           IN  /\ Fit(g)
               /\ FreeSlot(f) \in DOMAIN g.data /\ g.data[FreeSlot(f)] = t
               /\ \A j \in DOMAIN f.data :
                     f.data[j] # NoTask => j \in DOMAIN g.data /\ g.data[j] = f.data[j]
<1> DEFINE i == FreeSlot(f)
<1>1. PICK n \in Nat \ {0} : f \in FifosOf(n)
    BY DEF Fifos
<1>2. Size(f) = n /\ DOMAIN f.data = 0 .. n - 1
  <2>1. Cardinality(0 .. n - 1) = n
    BY FS_Interval
  <2>2. DOMAIN f.data = 0 .. n - 1
    BY <1>1 DEF FifosOf
  <2> QED
    BY <2>1, <2>2 DEF Size
<1>3. /\ f.nr \in 0 .. n /\ f.hint \in 0 .. n - 1 /\ f.hint <= f.nr
      /\ \A j \in 0 .. n - 1 : f.data[j] # NoTask => j < f.nr
    BY <1>1, <1>2 DEF FifosOf, Fit
<1>4. i \in 0 .. f.nr /\ \A j \in 0 .. n - 1 : f.data[j] # NoTask => j # i
  <2> DEFINE S == {j \in 0 .. f.nr : j = f.nr \/ f.data[j] = NoTask}
  <2>1. f.nr \in S /\ S \in SUBSET Nat
    BY <1>3
  <2>2. Lowest(S) \in S
    <3> HIDE DEF S
    <3> QED
      BY <2>1, LowestIsLeast
  <2>3. CASE f.data[f.hint] = NoTask
    <3>1. i = f.hint
      BY <2>3 DEF FreeSlot
    <3> QED
      BY <1>3, <2>3, <3>1
  <2>4. CASE f.data[f.hint] # NoTask
    <3>1. i = Lowest(S)
      BY <2>4 DEF FreeSlot
    <3>2. i \in 0 .. f.nr /\ (i = f.nr \/ f.data[i] = NoTask)
      BY <2>2, <3>1
    <3> QED
      BY <1>3, <3>2
  <2> QED
    BY <2>3, <2>4
<1> DEFINE size == IF i = n THEN 2 * n ELSE n
           d    == [j \in 0 .. size - 1 |->
                      IF j = i THEN t ELSE IF j < n THEN f.data[j] ELSE NoTask]
           nr   == IF i + 1 > f.nr THEN i + 1 ELSE f.nr
           hint == (i + 1) % size
<1>5. Insert(f, t) = [data |-> d, nr |-> nr, hint |-> hint]
    BY <1>2 DEF Insert
<1> HIDE DEF i
<1>6. size \in Nat \ {0} /\ i \in 0 .. size - 1 /\ n <= size
    BY <1>3, <1>4
<1>7. /\ DOMAIN d = 0 .. size - 1 /\ d[i] = t
      /\ \A j \in 0 .. n - 1 : f.data[j] # NoTask => d[j] = f.data[j]
      /\ \A j \in 0 .. size - 1 : d[j] # NoTask => j = i \/ (j < n /\ f.data[j] # NoTask)
    BY <1>4, <1>6
<1> HIDE DEF size, d
<1>8. hint <= i + 1
  <2>1. \A a, b \in Nat : b # 0 => a % b <= a
    OBVIOUS
  <2> QED
    BY <1>4, <1>6, <2>1
<1> HIDE DEF hint
<1>9. i < nr /\ f.nr <= nr /\ i + 1 <= nr /\ nr \in Nat
    BY <1>3, <1>4
<1> HIDE DEF nr
<1>10. hint <= nr
  <2>1. hint \in Int
    BY <1>4, <1>6 DEF hint
  <2> QED
    BY <1>3, <1>4, <1>8, <1>9, <2>1
<1>11. \A j \in 0 .. size - 1 : d[j] # NoTask => j < nr
    BY <1>3, <1>4, <1>6, <1>7, <1>9
<1> QED
    BY <1>2, <1>5, <1>6, <1>7, <1>10, <1>11 DEF Fit, i

-----------------------------------------------------------------------------
(* The steps that change the queue, a write section or a grant *)

\* A step of t alone that enters and leaves no write section.
LEMMA TaskSeq ==
    ASSUME Order, NEW t \in Task, UNCHANGED <<seq, version, snap>>,
           \A u \in Task \ {t} : op'[u] = op[u] /\ hold'[u] = hold[u],
           Writing(t)' <=> Writing(t), op'[t].pc # "relock" \/ hold'[t].write = 0
    PROVE  SeqInv' /\ \A u \in Task \ {t} : Parked(u)' <=> Parked(u)
<1>1. \A u \in Task \ {t} : /\ Writing(u)' <=> Writing(u)
                            /\ At(u, "relock")' => hold'[u].write = 0
                            /\ Parked(u)' <=> Parked(u)
    BY WritingFrame DEF Order
<1>2. At(t, "relock")' => hold'[t].write = 0
    BY DEF At
<1> QED
    BY <1>1, <1>2, SeqFrame, SMTT(30), ZenonT(40) DEF Order

\* Waiter w leaves slot i.
LEMMA WaitRemove ==
    ASSUME WaitInv, NEW w \in Task, NEW i \in DOMAIN fifo.data, fifo.data[i] = w,
           Fit(fifo'), DOMAIN fifo'.data = DOMAIN fifo.data,
           \A j \in DOMAIN fifo.data :
              fifo'.data[j] = IF j = i THEN NoTask ELSE fifo.data[j],
           ~Parked(w)',
           \A u \in Task \ {w} : Parked(u)' => Parked(u) /\ op'[u].slot = op[u].slot
    PROVE  WaitInv'
<1>1. ASSUME NEW u \in Task, Parked(u)'
      PROVE  op'[u].slot \in DOMAIN fifo'.data /\ fifo'.data[op'[u].slot] = u
  <2>1. u # w /\ Parked(u) /\ op'[u].slot = op[u].slot
    BY <1>1
  <2>2. op[u].slot \in DOMAIN fifo.data /\ fifo.data[op[u].slot] = u
    BY <2>1 DEF WaitInv
  <2>3. op[u].slot # i
    BY <2>1, <2>2
  <2> QED
    BY <2>1, <2>2, <2>3, SMTT(30), ZenonT(40)
<1> QED
    BY <1>1 DEF WaitInv

\* Retry under the wait lock: the waiter takes the lock and its slot is freed, or
\* it parks.
LEMMA RetryOrder ==
    ASSUME IInv, Order, NEW t \in Task, Retry(t) PROVE Order'
<1>0. op[t].pc = "retry" /\ OpOk(t) /\ op[t].want \in Type /\ op[t] \in Operation /\ snap' = snap
    BY TaskFacts DEF Retry, At
<1>1. op[t].want = "write" => hold[t].intent # 0 /\ hold[t].write = 0
  <2>1. ~op[t].acquired
    BY <1>0 DEF OpOk
  <2>2. op[t].want = "write" => Pending(t)
    BY <1>0, <2>1, SMTT(30), ZenonT(40) DEF Pending
  <2> QED
    BY <1>0, <2>2 DEF OpOk
<1>2. CASE /\ Grant(t, op[t].want, FALSE) /\ Enter(op[t].want) /\ Return(t)
           /\ UNCHANGED fifo
  <2>1. PICK r : op' = [op EXCEPT ![t] = r] /\ r.pc \in {"idle", "restore"}
    BY <1>2, Returns
  <2> QED
    BY <1>0, <1>1, <1>2, <2>1, GrantEnter, ZenonT(40)
<1>3. CASE /\ fifo' = Insert(fifo, t)
           /\ op' = [op EXCEPT ![t].pc = "parked", ![t].slot = FreeSlot(fifo)]
           /\ UNCHANGED <<state, seq, owner, recurse, hold, version>>
  <2> DEFINE i == FreeSlot(fifo)
  <2>1. /\ Fit(fifo') /\ i \in DOMAIN fifo'.data /\ fifo'.data[i] = t
        /\ \A j \in DOMAIN fifo.data :
              fifo.data[j] # NoTask => j \in DOMAIN fifo'.data /\ fifo'.data[j] = fifo.data[j]
    BY <1>3, InsertFit DEF IInv, FifoType, Order, WaitInv
  <2> HIDE DEF i
  <2>2. op' = [op EXCEPT ![t].pc = "parked", ![t].slot = i] /\ op \in [Task -> Operation]
    BY <1>3 DEF i, IInv, TypeOK
  <2>3. /\ op'[t].pc = "parked" /\ op'[t].want = op[t].want /\ op'[t].slot = i
        /\ \A u \in Task \ {t} : op'[u] = op[u]
    BY <1>0, <2>2 DEF Operation
  <2>4. Writing(t)' <=> Writing(t)
    BY <1>0, <1>1, <1>3, <2>3, SMTT(30), ZenonT(40) DEF Writing, Shut
  <2>5. SeqInv' /\ \A u \in Task \ {t} : Parked(u)' <=> Parked(u)
    BY <1>0, <1>3, <2>3, <2>4, TaskSeq, ZenonT(40)
  <2>6. ASSUME NEW u \in Task, Parked(u)'
        PROVE  op'[u].slot \in DOMAIN fifo'.data /\ fifo'.data[op'[u].slot] = u
    <3>1. CASE u = t
      BY <2>1, <2>3, <3>1, SMTT(30), ZenonT(40)
    <3>2. CASE u # t
      <4>1. Parked(u) /\ op'[u] = op[u]
        BY <2>3, <2>5, <2>6, <3>2
      <4>2. op[u].slot \in DOMAIN fifo.data /\ fifo.data[op[u].slot] = u
        BY <4>1 DEF Order, WaitInv
      <4>3. u # NoTask
        BY SixAssumption
      <4> QED
        BY <2>1, <4>1, <4>2, <4>3
    <3> QED
      BY <3>1, <3>2
  <2> QED
    BY <2>1, <2>5, <2>6, SMTT(30), ZenonT(40) DEF Order, WaitInv
<1> QED
    BY <1>2, <1>3, ZenonT(40) DEF Retry

\* A granted writer enters its section when it finds out.
LEMMA UnparkedOrder ==
    ASSUME IInv, Order, NEW t \in Task, Unparked(t) PROVE Order'
<1>0. /\ op[t].pc = "parked" /\ op[t].acquired /\ OpOk(t) /\ op[t].want \in Type
      /\ Enter(op[t].want) /\ Return(t) /\ UNCHANGED <<seq, fifo, hold, snap>>
    BY TaskFacts DEF Unparked, At
<1>1. PICK r : op' = [op EXCEPT ![t] = r] /\ r.pc \in {"idle", "restore"}
    BY <1>0, Returns, SMTT(30), ZenonT(40)
<1>2. CASE op[t].want = "write"
  <2>1. hold[t].write # 0
    BY <1>0, <1>2 DEF OpOk
  <2>2. hold[t].intent # 0
    BY <2>1 DEF IInv, WriteInv
  <2>3. ~Writing(t) /\ version' = version + 1
    BY <1>0, <1>2, SMTT(30), ZenonT(40) DEF Writing, Shut, Enter
  <2> QED
    BY <1>0, <1>1, <2>1, <2>2, <2>3, EnterStep, ZenonT(40)
<1>3. CASE op[t].want # "write"
  <2>1. ~Shut(r) /\ ~Shut(op[t])
    BY <1>1, <1>3, NotShut
  <2>2. version' = version
    BY <1>0, <1>3 DEF Enter
  <2> QED
    BY <1>0, <1>1, <2>1, <2>2, PlainStep, ZenonT(40)
<1> QED
    BY <1>2, <1>3

\* Cancel keeps Order: the waiter is still in its slot.
LEMMA CancelOrder ==
    ASSUME IInv, Order, NEW t \in Task, Cancel(t) PROVE Order'
<1>0. op[t].pc = "parked" /\ Goto(t, "cancel") /\ UNCHANGED <<seq, fifo, hold, snap, version>>
    BY DEF Cancel, At
<1>1. PICK r : /\ op' = [op EXCEPT ![t] = r] /\ r.pc = "cancel" /\ r.want = op[t].want
               /\ r.slot = op[t].slot /\ r.acquired = op[t].acquired
    BY <1>0, GoesTo
<1>2. op'[t] = r /\ \A u \in Task \ {t} : op'[u] = op[u]
    BY <1>1 DEF IInv, TypeOK
<1>3. (Writing(t)' <=> Writing(t)) /\ (Parked(t)' <=> Parked(t))
    BY <1>0, <1>1, <1>2, SMTT(30), ZenonT(40) DEF Writing, Shut, Parked
<1>4. SeqInv' /\ \A u \in Task \ {t} : Parked(u)' <=> Parked(u)
    BY <1>0, <1>1, <1>2, <1>3, TaskSeq, SMTT(30), ZenonT(40)
<1>5. WaitInv'
    BY <1>0, <1>1, <1>2, <1>3, <1>4, WaitFrame, SMTT(30), ZenonT(40) DEF Order
<1> QED
    BY <1>4, <1>5 DEF Order

\* CancelLocked keeps Order: the waiter's slot is freed or its grant given back.
LEMMA CancelLockedOrder ==
    ASSUME IInv, Order, NEW t \in Task, CancelLocked(t) PROVE Order'
<1>0. /\ op[t].pc = "cancel" /\ OpOk(t) /\ op[t].want \in Type /\ op[t].slot \in Nat
      /\ op[t].acquired \in BOOLEAN /\ fifo \in Fifos
      /\ UNCHANGED <<seq, hold, snap, version>>
    BY TaskFacts DEF CancelLocked, At, IInv, FifoType
<1>1. CASE op[t].acquired
  <2>1. Goto(t, "release") /\ UNCHANGED fifo
    BY <1>1 DEF CancelLocked
  <2>2. PICK r : op' = [op EXCEPT ![t] = r] /\ r.pc = "release" /\ r.want = op[t].want
    BY <2>1, GoesTo
  <2>3. Shut(r) <=> Shut(op[t])
    BY <1>0, <2>2 DEF Shut
  <2>4. r.pc \notin {"parked", "cancel", "relock"}
    BY <2>2, SMTT(30), ZenonT(40)
  <2> QED
    BY <1>0, <2>1, <2>2, <2>3, <2>4, PlainStep, ZenonT(40)
<1>2. CASE ~op[t].acquired
  <2> DEFINE i == op[t].slot
             f == Remove(fifo, i)
  <2>1. /\ fifo' = Shrink(f)
        /\ IF op[t].want = "write" THEN Goto(t, "cancel_write") ELSE Done(t)
    BY <1>2 DEF CancelLocked
  <2>2. PICK r : op' = [op EXCEPT ![t] = r] /\ r.pc \in {"cancel_write", "idle"}
    BY <2>1, GoesTo, GoesToRest, SMTT(30), ZenonT(40)
  <2>3. op'[t] = r /\ \A u \in Task \ {t} : op'[u] = op[u]
    BY <2>2, SMTT(30), ZenonT(40) DEF IInv, TypeOK
  <2>4. op[t].want = "write" => hold[t].write = 0
    <3>1. op[t].want = "write" => Pending(t)
      BY <1>0, <1>2 DEF Pending
    <3> QED
      BY <1>0, <3>1 DEF OpOk
  <2>5. Writing(t)' <=> Writing(t)
    BY <1>0, <2>2, <2>3, <2>4, SMTT(30), ZenonT(40) DEF Writing, Shut
  <2>6. SeqInv' /\ \A u \in Task \ {t} : Parked(u)' <=> Parked(u)
    BY <1>0, <2>2, <2>3, <2>5, TaskSeq, SMTT(30), ZenonT(40)
  <2>7. Parked(t) /\ ~Parked(t)'
    BY <1>0, <1>2, <2>2, <2>3, SMTT(30), ZenonT(40) DEF Parked
  <2>8. i \in DOMAIN fifo.data /\ fifo.data[i] = t /\ Fit(fifo)
    BY <2>7 DEF Order, WaitInv
  <2>9. /\ f \in Fifos /\ Fit(f) /\ DOMAIN f.data = DOMAIN fifo.data
        /\ \A j \in DOMAIN fifo.data : f.data[j] = IF j = i THEN NoTask ELSE fifo.data[j]
    BY <1>0, <2>8, RemoveSlot, RemoveFit, SMTT(30), ZenonT(40)
  <2> HIDE DEF f
  <2>10. Fit(fifo') /\ fifo'.data = f.data
    BY <2>1, <2>9, ShrinkSlots, ShrinkFit, SMTT(30), ZenonT(40)
  <2>11. WaitInv'
    BY <2>3, <2>6, <2>7, <2>8, <2>9, <2>10, WaitRemove DEF Order
  <2> QED
    BY <2>6, <2>11 DEF Order
<1> QED
    BY <1>1, <1>2, SMTT(30), ZenonT(40)

\* Task t ends its write section: its unlock bumps the sequence number.
LEMMA LeaveStep ==
    ASSUME IInv, Order, NEW t \in Task, NEW r, op' = [op EXCEPT ![t] = r], Shut(r),
           r.pc = "release", op[t].pc \notin {"parked", "cancel", "release"},
           UNCHANGED <<version, snap, fifo, hold>>, seq' = seq + 1, hold[t].write # 0
    PROVE  Order'
<1>1. op'[t] = r /\ \A u \in Task \ {t} : op'[u] = op[u]
    BY DEF IInv, TypeOK
<1>2. \A u \in Task \ {t} : /\ Writing(u)' <=> Writing(u)
                            /\ At(u, "relock")' => hold'[u].write = 0
                            /\ Parked(u)' <=> Parked(u)
    BY <1>1, WritingFrame, SMTT(30), ZenonT(40) DEF Order
<1>3. hold[t].intent # 0
    BY DEF IInv, WriteInv
<1>4. \A u \in Task \ {t} : ~Writing(u)
    BY <1>3, SoleIntent DEF Writing
<1>5. Writing(t) /\ ~Writing(t)' /\ ~At(t, "relock")' /\ ~Parked(t)'
    BY <1>1, SMTT(30), ZenonT(40) DEF Writing, Shut, At, Parked
<1>6. version' = seq'
    BY <1>5, SMTT(30), ZenonT(40) DEF Order, SeqInv
<1>7. \A u \in Task : ~Writing(u)'
    BY <1>2, <1>4, <1>5
<1>8. SeqInv'
  <2>1. \A u \in Task : At(u, "relock")' => hold'[u].write = 0
    BY <1>2, <1>5
  <2>2. \A u \in Task : snap'[u].seq = -1 \/ snap'[u].version = snap'[u].seq
    BY DEF Order, SeqInv
  <2> QED
    BY <1>6, <1>7, <2>1, <2>2 DEF SeqInv
<1>9. WaitInv'
    BY <1>1, <1>2, <1>5, WaitFrame, SMTT(30), ZenonT(40) DEF Order
<1> QED
    BY <1>8, <1>9 DEF Order

\* UnlockIp: a writer's sequence number moves as it leaves its section.
LEMMA UnlockIpOrder ==
    ASSUME IInv, Order, NEW t \in Task, NEW k \in Type, UnlockIp(t, k), hold[t][k] # 0,
           op[t].pc \in {"idle", "relock", "unlock"}
    PROVE  Order'
<1>0. UNCHANGED <<fifo, snap, version>> /\ hold[t] \in References /\ hold \in [Task -> References]
    BY TaskFacts DEF UnlockIp, IInv, TypeOK
<1>1. ~Shut(op[t])
    BY NotShut
<1>2. CASE k # "read" /\ recurse[k] # 0
  <2>1. /\ hold' = [hold EXCEPT ![t] = [hold[t] EXCEPT ![k] = hold[t][k] - 1]]
        /\ op' = [op EXCEPT ![t] = Idle] /\ seq' = seq
    BY <1>0, <1>2 DEF UnlockIp, Done
  <2>2. \A u \in Task \ {t} : hold'[u] = hold[u]
    BY <1>0, <2>1
  <2>3. hold'[t].write = 0 <=> hold[t].write = 0
    <3>1. hold'[t] = [hold[t] EXCEPT ![k] = hold[t][k] - 1]
      BY <1>0, <2>1, SMTT(30), ZenonT(40)
    <3>2. CASE k = "write"
      <4>1. hold[t].write = recurse.write + 1 /\ recurse.write \in Nat
        BY <3>2 DEF IInv, WriteInv, TypeOK
      <4>2. hold'[t].write = hold[t].write - 1
        BY <1>0, <3>1, <3>2 DEF References
      <4> QED
        BY <1>2, <3>2, <4>1, <4>2, SMTT(30), ZenonT(40)
    <3>3. CASE k # "write"
      BY <1>0, <3>1, <3>3, SMTT(30), ZenonT(40) DEF References
    <3> QED
      BY <3>2, <3>3
  <2>4. Idle.pc \notin {"parked", "cancel", "relock"} /\ ~Shut(Idle)
    BY DEF Idle, Shut
  <2> QED
    BY <1>0, <1>1, <2>1, <2>2, <2>3, <2>4, PlainStep, ZenonT(40)
<1>3. CASE ~(k # "read" /\ recurse[k] # 0)
  <2> DEFINE r == [op[t] EXCEPT !.pc = "release", !.want = k]
  <2>1. /\ op' = [op EXCEPT ![t] = r] /\ hold' = hold
        /\ seq' = IF k = "write" THEN seq + 1 ELSE seq
    BY <1>3, Zenon DEF UnlockIp, IInv, TypeOK
  <2>2. r.pc = "release" /\ r.want = k
    BY TaskFacts DEF Operation
  <2> HIDE DEF r
  <2>3. CASE k = "write"
    <3>1. Shut(r) /\ seq' = seq + 1 /\ hold[t].write # 0
      BY <2>1, <2>2, <2>3 DEF Shut
    <3>2. op[t].pc \notin {"parked", "cancel", "release"}
      OBVIOUS
    <3> QED
      BY <1>0, <2>1, <2>2, <3>1, <3>2, LeaveStep, ZenonT(40)
  <2>4. CASE k # "write"
    <3>1. ~Shut(r) /\ seq' = seq /\ r.pc \notin {"parked", "cancel", "relock"}
      BY <2>1, <2>2, <2>4 DEF Shut
    <3> QED
      BY <1>0, <1>1, <2>1, <3>1, PlainStep, ZenonT(40)
  <2> QED
    BY <2>3, <2>4
<1> QED
    BY <1>2, <1>3

\* The three callers of UnlockIp keep Order.
LEMMA UnlocksOrder ==
    ASSUME IInv, Order, NEW t \in Task,
           RelockFail(t) \/ DowngradeUnlock(t) \/ \E k \in Type : Unlock(t, k)
    PROVE  Order'
<1>0. OpOk(t) /\ op[t].want \in Type
    BY TaskFacts
<1>1. CASE RelockFail(t)
  <2>1. hold[t][op[t].want] # 0 /\ op[t].pc = "relock" /\ UnlockIp(t, op[t].want)
    BY <1>0, <1>1, SMTT(30), ZenonT(40) DEF RelockFail, OpOk, At
  <2> QED
    BY <1>0, <2>1, UnlockIpOrder, SMTT(30), ZenonT(40)
<1>2. CASE DowngradeUnlock(t)
  <2>1. /\ hold[t].intent # 0 /\ op[t].pc = "unlock" /\ UnlockIp(t, "intent")
        /\ "intent" \in Type
    BY <1>0, <1>2, ZenonT(60) DEF DowngradeUnlock, OpOk, At, Type
  <2> QED
    BY <2>1, UnlockIpOrder, SMTT(30), ZenonT(40)
<1>3. CASE \E k \in Type : Unlock(t, k)
    BY <1>3, UnlockIpOrder DEF Unlock, At
<1> QED
    BY <1>1, <1>2, <1>3, SMTT(30), ZenonT(40)

\* The reference given back was the last one of its type, or another type's.
LEMMA ReleaseOrder ==
    ASSUME IInv, Order, NEW t \in Task, Release(t) PROVE Order'
<1> DEFINE k == op[t].want
           r == WakeNext(IfNeeded(state', UnlockWakeup(k)))
<1>0. /\ op[t].pc = "release" /\ OpOk(t) /\ k \in Type /\ hold[t] \in References
      /\ hold \in [Task -> References] /\ UNCHANGED <<seq, version, snap, fifo>>
    BY TaskFacts DEF Release, At, IInv, TypeOK
<1>1. /\ hold' = [hold EXCEPT ![t] = [hold[t] EXCEPT ![k] = hold[t][k] - 1]]
      /\ op' = [op EXCEPT ![t] = r]
    BY <1>0 DEF Release
<1>2. r.pc \in {"idle", "wake"}
    BY GoesToRest, SMTT(30), ZenonT(40)
<1> HIDE DEF r
<1>3. /\ hold'[t] = [hold[t] EXCEPT ![k] = hold[t][k] - 1] /\ op'[t] = r
      /\ \A u \in Task \ {t} : hold'[u] = hold[u] /\ op'[u] = op[u]
    BY <1>0, <1>1, SMTT(30), ZenonT(40) DEF IInv, TypeOK
<1>4. Writing(t)' <=> Writing(t)
  <2>1. CASE k = "write"
    <3>1. hold[t].write = 1
      <4>1. hold[t].write # 0 /\ recurse.write = 0
        BY <1>0, <2>1, SMTT(30), ZenonT(40) DEF OpOk, At
      <4> QED
        BY <4>1, SMTT(30), ZenonT(40) DEF IInv, WriteInv
    <3>2. hold'[t].write = 0
      BY <1>0, <1>3, <2>1, <3>1 DEF References
    <3> QED
      BY <1>0, <2>1, <3>2, SMTT(30), ZenonT(40) DEF Writing, Shut
  <2>2. CASE k # "write"
    <3>1. hold'[t].write = hold[t].write
      BY <1>0, <1>3, <2>2 DEF References
    <3>2. ~Shut(r) /\ ~Shut(op[t])
      BY <1>2, <2>2, NotShut, SMTT(30), ZenonT(40)
    <3> QED
      BY <1>3, <3>1, <3>2, SMTT(30), ZenonT(40) DEF Writing
  <2> QED
    BY <2>1, <2>2
<1>5. SeqInv' /\ \A u \in Task \ {t} : Parked(u)' <=> Parked(u)
    BY <1>0, <1>2, <1>3, <1>4, TaskSeq
<1>6. ~Parked(t)'
    BY <1>2, <1>3, SMTT(30), ZenonT(40) DEF Parked
<1>7. WaitInv'
    BY <1>0, <1>3, <1>5, <1>6, WaitFrame DEF Order
<1> QED
    BY <1>5, <1>7 DEF Order

\* The waker clears the waiting bit and gives up the slots past the last waiter.
LEMMA ClearOrder ==
    ASSUME IInv, Order, NEW t \in Task, Clear(t) PROVE Order'
<1> DEFINE r == WakeNext(Tail(op[t].todo))
<1>0. /\ op[t].pc = "clear" /\ fifo \in Fifos /\ fifo' = Shrink(fifo)
      /\ op' = [op EXCEPT ![t] = r] /\ UNCHANGED <<seq, hold, snap, version>>
    BY DEF Clear, At, IInv, FifoType
<1>1. r.pc \in {"idle", "wake"}
    BY GoesToRest
<1> HIDE DEF r
<1>2. op'[t] = r /\ \A u \in Task \ {t} : op'[u] = op[u]
    BY <1>0, SMTT(30), ZenonT(40) DEF IInv, TypeOK
<1>3. Writing(t)' <=> Writing(t)
    BY <1>0, <1>1, <1>2, SMTT(30), ZenonT(40) DEF Writing, Shut
<1>4. SeqInv' /\ \A u \in Task \ {t} : Parked(u)' <=> Parked(u)
    BY <1>0, <1>1, <1>2, <1>3, TaskSeq, SMTT(30), ZenonT(40)
<1>5. ~Parked(t)'
    BY <1>1, <1>2, SMTT(30), ZenonT(40) DEF Parked
<1>6. Fit(fifo') /\ fifo'.data = fifo.data
    BY <1>0, ShrinkFit, ShrinkSlots DEF Order, WaitInv
<1>7. WaitInv'
  <2>1. ASSUME NEW u \in Task, Parked(u)'
        PROVE  op'[u].slot \in DOMAIN fifo'.data /\ fifo'.data[op'[u].slot] = u
    <3>1. Parked(u) /\ op'[u] = op[u]
      BY <1>2, <1>4, <1>5, <2>1, SMTT(30), ZenonT(40)
    <3> QED
      BY <1>6, <3>1 DEF Order, WaitInv
  <2> QED
    BY <1>6, <2>1 DEF WaitInv
<1> QED
    BY <1>4, <1>7 DEF Order

\* A relock takes read or intent only, which a writer excludes.
LEMMA RelockTryOrder ==
    ASSUME IInv, Order, NEW t \in Task, RelockTry(t) PROVE Order'
<1>0. /\ op[t].pc = "relock_try" /\ OpOk(t) /\ op[t].want \in Type
      /\ UNCHANGED <<fifo, snap, version>>
    BY TaskFacts DEF RelockTry, At
<1>1. op[t].want \in {"read", "intent"}
    BY <1>0 DEF OpOk, Type
<1>2. CASE Grant(t, op[t].want, TRUE) /\ Goto(t, "relock")
  <2>1. PICK r : op' = [op EXCEPT ![t] = r] /\ r.pc = "relock"
    BY <1>2, GoesTo
  <2>2. op'[t] = r /\ \A u \in Task \ {t} : op'[u] = op[u]
    BY <2>1 DEF IInv, TypeOK
  <2>3. hold[t].write = 0
    <3>1. Free(state, op[t].want)
      BY <1>2 DEF Grant
    <3>2. hold[t].write # 0 => state.write /\ hold[t].intent # 0
      BY DEF IInv, WriteInv
    <3>3. hold[t].intent # 0 => state.intent
      BY DEF IInv, IntentInv
    <3> QED
      BY <1>1, <3>1, <3>2, <3>3, ZenonT(40) DEF Free
  <2>4. /\ seq' = seq /\ hold'[t].write = 0
        /\ \A u \in Task \ {t} : hold'[u] = hold[u]
    BY <1>0, <1>1, <1>2, <2>3, GrantHold, ZenonT(40)
  <2>5. Writing(t)' <=> Writing(t)
    BY <2>3, <2>4 DEF Writing
  <2>6. SeqInv' /\ \A u \in Task \ {t} : Parked(u)' <=> Parked(u)
    BY <1>0, <2>2, <2>4, <2>5, TaskSeq
  <2>7. ~Parked(t)'
    BY <2>1, <2>2, SMTT(30), ZenonT(40) DEF Parked
  <2>8. WaitInv'
    BY <1>0, <2>2, <2>6, <2>7, WaitFrame, SMTT(30), ZenonT(40) DEF Order
  <2> QED
    BY <2>6, <2>8 DEF Order
<1>3. CASE Done(t) /\ UNCHANGED <<state, seq, owner, recurse, hold>>
  <2>1. op' = [op EXCEPT ![t] = Idle] /\ Idle.pc = "idle"
    BY <1>3, GoesToRest
  <2>2. ~Shut(Idle) /\ ~Shut(op[t])
    BY <1>0, <2>1, NotShut
  <2> QED
    BY <1>0, <1>3, <2>1, <2>2, PlainStep, Zenon
<1> QED
    BY <1>2, <1>3, ZenonT(40) DEF RelockTry

\* The waker t empties slot i, and tells the waiter w that was in it.
Told(t, w, i) ==
    /\ Fit(fifo') /\ DOMAIN fifo'.data = DOMAIN fifo.data
    /\ \A j \in DOMAIN fifo.data :
          fifo'.data[j] = IF j = i THEN NoTask ELSE fifo.data[j]
    /\ op'[w] = [op[w] EXCEPT !.acquired = TRUE]
    /\ \A u \in Task \ {t, w} : op'[u] = op[u]
    /\ op'[t].pc \in {"idle", "wake", "scan", "clear"}

\* A hand-over of the lock; a writer has not entered its section yet.
LEMMA HandOverOrder ==
    ASSUME IInv, Order, NEW t \in Task, op[t].pc = "scan", NEW k \in Type,
           NEW i \in Queued(fifo, k), Grant(fifo.data[i], k, FALSE),
           Told(t, fifo.data[i], i), UNCHANGED <<snap, version>>
    PROVE  Order'
<1> PICK w : w = fifo.data[i]
    OBVIOUS
<1>0. /\ Fit(fifo') /\ DOMAIN fifo'.data = DOMAIN fifo.data
      /\ \A j \in DOMAIN fifo.data :
            fifo'.data[j] = IF j = i THEN NoTask ELSE fifo.data[j]
      /\ op'[w] = [op[w] EXCEPT !.acquired = TRUE]
      /\ \A u \in Task \ {t, w} : op'[u] = op[u]
      /\ op'[t].pc \in {"idle", "wake", "scan", "clear"}
      /\ Grant(w, k, FALSE) /\ w = fifo.data[i]
    BY ZenonT(40) DEF Told
<1>1. /\ i \in DOMAIN fifo.data /\ w \in Task /\ op[w].want = k
      /\ op[w].pc \in {"parked", "cancel"}
    BY <1>0, QueuedWaiter
<1>2. w # t /\ op[w] \in Operation
    BY <1>1, TaskFacts
<1>3. op'[w].pc = op[w].pc /\ op'[w].want = k /\ op'[w].acquired
    BY <1>0, <1>1, <1>2, SMTT(30), ZenonT(40) DEF Operation
<1>4. /\ seq' = seq /\ \A u \in Task \ {w} : hold'[u] = hold[u]
      /\ k # "write" => hold'[w].write = hold[w].write
    BY <1>0, <1>1, GrantHold, ZenonT(40)
<1>5. Writing(w)' <=> Writing(w)
    BY <1>1, <1>3, <1>4 DEF Writing, Shut
<1>6. Writing(t)' <=> Writing(t)
    BY <1>0, <1>2, <1>4 DEF Writing, Shut
<1>7. ~Parked(t)' /\ ~Parked(w)' /\ ~At(t, "relock")' /\ ~At(w, "relock")'
    BY <1>0, <1>1, <1>3, SMTT(30), ZenonT(40) DEF Parked, At
<1>8. ASSUME NEW u \in Task \ {t, w}
      PROVE  /\ Writing(u)' <=> Writing(u)
             /\ At(u, "relock")' => hold'[u].write = 0
             /\ Parked(u)' <=> Parked(u)
  <2>1. op'[u] = op[u] /\ hold'[u] = hold[u] /\ u \in Task
    BY <1>0, <1>4, SMTT(30), ZenonT(40)
  <2> QED
    BY <2>1, WritingFrame DEF Order
<1>9. SeqInv'
    BY <1>4, <1>5, <1>6, <1>7, <1>8, SeqFrame DEF Order
<1>10. \A u \in Task \ {w} : Parked(u)' => Parked(u) /\ op'[u].slot = op[u].slot
    BY <1>0, <1>7, <1>8, SMTT(30), ZenonT(40)
<1>11. WaitInv'
    BY <1>0, <1>1, <1>7, <1>10, WaitRemove DEF Order
<1> QED
    BY <1>9, <1>11 DEF Order

\* A waker with nothing to hand over.
LEMMA ToClearOrder ==
    ASSUME IInv, Order, NEW t \in Task, op[t].pc = "scan", Goto(t, "clear"),
           UNCHANGED <<seq, hold, fifo, snap, version>>
    PROVE  Order'
<1>1. PICK r : op' = [op EXCEPT ![t] = r] /\ r.pc = "clear"
    BY GoesTo
<1>2. ~Shut(r) /\ ~Shut(op[t])
    BY <1>1, NotShut
<1> QED
    BY <1>1, <1>2, PlainStep, ZenonT(40)

\* ScanReaders hands the lock to queued readers, each from its own slot.
LEMMA ScanReadersOrder ==
    ASSUME IInv, Order, NEW t \in Task, op[t].pc = "scan", ScanReaders(t),
           UNCHANGED <<snap, version>>
    PROVE  Order'
<1> DEFINE S == {i \in Queued(fifo, "read") : i >= op[t].scan}
           i == Lowest(S)
           w == fifo.data[i]
<1>1. CASE S # {} /\ Free(state, "read")
  <2>1. /\ Grant(w, "read", FALSE) /\ fifo' = Remove(fifo, i)
        /\ op' = [op EXCEPT ![w].acquired = TRUE, ![t].scan = i + 1]
    BY <1>1, Zenon DEF ScanReaders
  <2>2. i \in Queued(fifo, "read") /\ "read" \in Type
    <3>1. S \in SUBSET Nat /\ \A j \in S : j \in Queued(fifo, "read")
      BY DEF Queued
    <3> HIDE DEF S
    <3> QED
      BY <1>1, <3>1, LowestIsLeast, ZenonT(40) DEF Type
  <2> HIDE DEF S, i
  <2>3. i \in Nat /\ w \in Task /\ op[w].pc \in {"parked", "cancel"} /\ w = fifo.data[i]
    BY <2>2, QueuedWaiter
  <2> HIDE DEF w
  <2>4. w # t /\ op[t] \in Operation /\ op \in [Task -> Operation]
    BY <2>3, TaskFacts, SMTT(30), ZenonT(40) DEF IInv, TypeOK
  <2>5. /\ op'[w] = [op[w] EXCEPT !.acquired = TRUE]
        /\ op'[t] = [op[t] EXCEPT !.scan = i + 1]
        /\ \A u \in Task \ {t, w} : op'[u] = op[u]
    BY <2>1, <2>3, <2>4, ZenonT(40)
  <2>6. op'[t].pc = "scan"
    BY <2>4, <2>5 DEF Operation
  <2>7. /\ Fit(fifo') /\ DOMAIN fifo'.data = DOMAIN fifo.data
        /\ \A j \in DOMAIN fifo.data :
              fifo'.data[j] = IF j = i THEN NoTask ELSE fifo.data[j]
    BY <2>1, <2>3, RemoveSlot, RemoveFit DEF IInv, FifoType, Order, WaitInv
  <2>8. Told(t, w, i)
    BY <2>5, <2>6, <2>7, SMTT(30), ZenonT(40) DEF Told
  <2>9. Grant(fifo.data[i], "read", FALSE) /\ Told(t, fifo.data[i], i)
    BY <2>1, <2>3, <2>8, ZenonT(40)
  <2> QED
    BY <2>2, <2>9, HandOverOrder, ZenonT(40)
<1>2. CASE ~(S # {} /\ Free(state, "read"))
  <2>1. Goto(t, "clear") /\ UNCHANGED <<seq, hold, fifo>>
    BY <1>2, ZenonT(40) DEF ScanReaders
  <2> QED
    BY <2>1, ToClearOrder
<1> QED
    BY <1>1, <1>2, SMTT(30), ZenonT(40)

\* ScanOldest hands the lock to the oldest waiter, from its own slot.
LEMMA ScanOldestOrder ==
    ASSUME IInv, Order, NEW t \in Task, op[t].pc = "scan", NEW k \in Type, ScanOldest(t, k),
           UNCHANGED <<snap, version>>
    PROVE  Order'
<1> DEFINE S == Queued(fifo, k)
           i == Oldest(fifo, k)
           w == fifo.data[i]
           q == Tail(op[t].todo)
           f == Remove(fifo, i)
<1>1. CASE S # {} /\ Free(state, k)
  <2>1. i \in Queued(fifo, k)
    <3>1. \A j \in Queued(fifo, k) : fifo.data[j] \in Task
      BY QueuedWaiter
    <3> QED
      BY <1>1, <3>1, OldestIsQueued DEF IInv
  <2>2. /\ Grant(w, k, FALSE)
        /\ \/ /\ fifo' = Shrink(f)
              /\ op' = [op EXCEPT ![w].acquired = TRUE, ![t] = WakeNext(q)]
           \/ /\ fifo' = f
              /\ op' = [op EXCEPT ![w].acquired = TRUE, ![t].pc = "clear"]
    BY <1>1, Zenon DEF ScanOldest
  <2> HIDE DEF S, i
  <2>3. i \in Nat /\ w \in Task /\ op[w].pc \in {"parked", "cancel"} /\ w = fifo.data[i]
    BY <2>1, QueuedWaiter
  <2>4. w # t /\ op[t] \in Operation /\ op \in [Task -> Operation]
    BY <2>3, TaskFacts, SMTT(30), ZenonT(40) DEF IInv, TypeOK
  <2>5. /\ f \in Fifos /\ Fit(f) /\ DOMAIN f.data = DOMAIN fifo.data
        /\ \A j \in DOMAIN fifo.data : f.data[j] = IF j = i THEN NoTask ELSE fifo.data[j]
    BY <2>3, RemoveSlot, RemoveFit DEF IInv, FifoType, Order, WaitInv
  <2>6. WakeNext(q).pc \in {"idle", "wake"}
    BY GoesToRest
  <2> HIDE DEF w, q, f
  <2>7. /\ op'[w] = [op[w] EXCEPT !.acquired = TRUE]
        /\ op'[t] = WakeNext(q) \/ op'[t] = [op[t] EXCEPT !.pc = "clear"]
        /\ \A u \in Task \ {t, w} : op'[u] = op[u]
    BY <2>2, <2>3, <2>4
  <2>8. op'[t].pc \in {"idle", "wake", "clear"}
    BY <2>4, <2>6, <2>7 DEF Operation
  <2>9. Fit(fifo') /\ fifo'.data = f.data
    BY <2>2, <2>5, ShrinkSlots, ShrinkFit
  <2>10. Told(t, w, i)
    BY <2>5, <2>7, <2>8, <2>9, SMTT(30), ZenonT(40) DEF Told
  <2>11. Grant(fifo.data[i], k, FALSE) /\ Told(t, fifo.data[i], i)
    BY <2>2, <2>3, <2>10, ZenonT(40)
  <2> QED
    BY <2>1, <2>11, HandOverOrder, ZenonT(40)
<1>2. CASE ~(S # {} /\ Free(state, k))
  <2>1. Goto(t, "clear") /\ UNCHANGED <<seq, hold, fifo>>
    BY <1>2, ZenonT(40) DEF ScanOldest
  <2> QED
    BY <2>1, ToClearOrder
<1> QED
    BY <1>1, <1>2

\* Scan keeps Order for each type of lock it wakes.
LEMMA ScanOrder ==
    ASSUME IInv, Order, NEW t \in Task, Scan(t) PROVE Order'
<1> DEFINE k == Head(op[t].todo)
<1>1. /\ op[t].pc = "scan" /\ UNCHANGED <<snap, version>>
      /\ IF k = "read" THEN ScanReaders(t) ELSE ScanOldest(t, k)
    BY DEF Scan, At
<1>2. OpOk(t) /\ op[t].todo \in Seq(Type)
    BY TaskFacts, SMTT(30), ZenonT(40)
<1>3. op[t].todo # <<>>
    BY <1>1, <1>2, SMTT(30), ZenonT(40) DEF OpOk
<1>4. k \in Type
    BY <1>2, <1>3, SMTT(30), ZenonT(40)
<1> HIDE DEF k
<1> QED
    BY <1>1, <1>4, ScanReadersOrder, ScanOldestOrder

-----------------------------------------------------------------------------
(* The queue and the sequence number in every reachable state *)

LEMMA InitOrder == Init => Order
<1> SUFFICES ASSUME Init PROVE Order
    OBVIOUS
<1>1. \A t \in Task : op[t].pc = "idle" /\ hold[t].write = 0 /\ snap[t].seq = -1
    BY DEF Init, Idle, NoHold, NoSnap
<1>2. \A t \in Task : ~Writing(t) /\ ~Parked(t) /\ ~At(t, "relock")
    BY <1>1, SMTT(30), ZenonT(40) DEF Writing, Parked, At
<1>3. SeqInv
    BY <1>1, <1>2, SMTT(30), ZenonT(40) DEF SeqInv, Init
<1>4. Fit(fifo)
    BY DEF Init, Fit
<1> QED
    BY <1>2, <1>3, <1>4 DEF Order, WaitInv

\* Every step keeps Order.
LEMMA StepOrder ==
    ASSUME IInv, Order, Next PROVE Order'
<1>1. ASSUME NEW t \in Task, Step(t) PROVE Order'
  <2>1. CASE LockLent(t) \/ RestoreReads(t) \/ Slow(t) \/ Enqueue(t) \/ Retry(t) \/ Unparked(t)
    BY <2>1, LockLentOrder, RestoreReadsOrder, QuietOrder, RetryOrder, UnparkedOrder
  <2>2. CASE CancelLocked(t) \/ CancelWrite(t) \/ CancelWake(t)
    BY <2>2, CancelLockedOrder, QuietOrder, RestOrder, SMTT(30), ZenonT(40)
  <2>3. CASE Release(t) \/ Wake(t) \/ Scan(t) \/ Clear(t)
    BY <2>3, ReleaseOrder, QuietOrder, ScanOrder, ClearOrder, SMTT(30), ZenonT(40)
  <2>4. CASE RelockTry(t) \/ RelockOk(t) \/ RelockFail(t) \/ DowngradeUnlock(t)
    BY <2>4, RelockTryOrder, RestOrder, UnlocksOrder, SMTT(30), ZenonT(40)
  <2> QED
    BY <1>1, <2>1, <2>2, <2>3, <2>4, SMTT(30), ZenonT(40) DEF Step
<1>2. ASSUME NEW t \in Task, Call(t) PROVE Order'
  <2>1. CASE \E k \in Type : TryLock(t, k) \/ Lock(t, k) \/ Unlock(t, k) \/ Increment(t, k)
    BY <2>1, TryLockOrder, LockOrder, UnlocksOrder, IncrementOrder
  <2>2. CASE \E k \in {"read", "intent"} : Relock(t, k)
    BY <2>2, RelockOrder
  <2>3. CASE \/ LendReads(t) \/ Cancel(t) \/ WakeupAll(t) \/ ReadSeq(t) \/ Downgrade(t)
             \/ TryUpgrade(t)
    BY <2>3, LendReadsOrder, CancelOrder, RestOrder, ReadSeqOrder, DowngradeOrder,
       TryUpgradeOrder
  <2> QED
    BY <1>2, <2>1, <2>2, <2>3 DEF Call
<1> QED
    BY <1>1, <1>2 DEF Next

\* Order holds in every reachable state, beside IInv.
LEMMA OrderInvariance == Spec => [](IInv /\ Order)
<1>1. IInv /\ Order /\ [Next]_vars => Order'
  <2>1. ASSUME IInv, Order, UNCHANGED vars PROVE Order'
    <3>1. UNCHANGED <<seq, version, snap, fifo, op, hold>>
      BY <2>1, SMTT(30), ZenonT(40) DEF vars
    <3>2. SeqInv'
      BY <2>1, <3>1, SMTT(30), ZenonT(40) DEF Order, SeqInv, Writing, Shut, At
    <3>3. WaitInv'
      BY <2>1, <3>1 DEF Order, WaitInv, Fit, Parked
    <3> QED
      BY <3>2, <3>3 DEF Order
  <2> QED
    BY <2>1, StepOrder
<1> QED
    BY <1>1, InitOrder, Invariance, PTL DEF Spec

\* The wait slots are consistent whatever the order of insertions, cancellations
\* and wakeups (six_lock_wait_fifo_insert, _remove, _shrink): a queued waiter is
\* in the slot it knows, nobody else is in one, and no slot from nr on is used.
THEOREM QueueIsConsistent == Spec => []QueueConsistent
<1>1. ASSUME IInv, Order PROVE QueueConsistent
  <2>1. PICK n \in Nat \ {0} : fifo \in FifosOf(n)
    BY <1>1 DEF IInv, FifoType, Fifos
  <2>2. fifo.nr <= Size(fifo) /\ fifo.hint < Size(fifo)
    <3>1. Cardinality(0 .. n - 1) = n
      BY FS_Interval
    <3>2. DOMAIN fifo.data = 0 .. n - 1 /\ fifo.nr \in 0 .. n /\ fifo.hint \in 0 .. n - 1
      BY <2>1, SMTT(30), ZenonT(40) DEF FifosOf
    <3> QED
      BY <3>1, <3>2 DEF Size
  <2>3. Fit(fifo) /\ \A i \in DOMAIN fifo.data : fifo.data[i] \in Task \cup {NoTask}
    BY <1>1, FifoFacts, SMTT(30), ZenonT(40) DEF Order, WaitInv, IInv, FifoType
  <2>4. ASSUME NEW i \in DOMAIN fifo.data, fifo.data[i] # NoTask
        PROVE  /\ i < fifo.nr /\ op[fifo.data[i]].slot = i
               /\ fifo.data[i] \in Task /\ Parked(fifo.data[i])
    BY <1>1, <2>3, <2>4 DEF Fit, IInv, QueueInv, Parked
  <2>5. ASSUME NEW t PROVE t \in UNION {Waiting(k) : k \in Type} <=> t \in Task /\ Parked(t)
    <3>1. ASSUME t \in Task, Parked(t) PROVE op[t].want \in Type /\ t \in Waiting(op[t].want)
      BY <1>1, <3>1, TaskFacts, SMTT(30), ZenonT(40) DEF Waiting, Parked
    <3>2. ASSUME NEW k \in Type, t \in Waiting(k) PROVE t \in Task /\ Parked(t)
      BY <3>2 DEF Waiting, Parked
    <3> QED
      BY <3>1, <3>2, SMTT(30), ZenonT(40)
  <2>6. ASSUME NEW t \in Task, Parked(t)
        PROVE  t # NoTask /\ \E i \in DOMAIN fifo.data : fifo.data[i] = t
    BY <1>1, <2>6, SixAssumption, SMTT(30), ZenonT(40) DEF Order, WaitInv
  <2>7. {fifo.data[i] : i \in DOMAIN fifo.data} \ {NoTask} = UNION {Waiting(k) : k \in Type}
    BY <2>4, <2>5, <2>6, SMTT(30), ZenonT(40)
  <2> QED
    BY <2>2, <2>3, <2>4, <2>7 DEF QueueConsistent, Fit
<1> QED
    BY <1>1, OrderInvariance, PTL

\* six_relock_ip succeeds only if no write section has been entered since the
\* sequence number was read: the number is one behind the version exactly while
\* some task writes, and the relocker's reference excludes that.
THEOREM RelockIsSound == Spec => RelockSound
<1>1. ASSUME IInv, Order, NEW t \in Task, RelockOk(t) PROVE version = snap[t].version
  <2>1. At(t, "relock") /\ snap[t].seq = seq /\ seq \in Nat
    BY <1>1, SMTT(30), ZenonT(40) DEF RelockOk, IInv, TypeOK
  <2>2. snap[t].version = seq
    BY <1>1, <2>1, SMTT(30), ZenonT(40) DEF Order, SeqInv
  <2>3. hold[t].write = 0
    BY <1>1, <2>1, SMTT(30), ZenonT(40) DEF Order, SeqInv
  <2>4. hold[t].read # 0 \/ hold[t].intent # 0
    <3>1. OpOk(t) /\ op[t].want \in Type
      BY <1>1, TaskFacts
    <3> QED
      BY <2>1, <3>1, SMTT(30), ZenonT(40) DEF OpOk, At, Type
  <2> QED
    BY <1>1, <2>2, <2>3, <2>4, NoneWriting
<1>2. IInv /\ Order => [\A t \in Task : RelockOk(t) => version = snap[t].version]_vars
    BY <1>1
<1> QED
    BY <1>2, OrderInvariance, PTL DEF RelockSound

=============================================================================
