---------------------------- MODULE SixLockSteps ----------------------------
(***************************************************************************)
(* The steps of SixLock that grant and release: trylock and the retries of *)
(* a blocked acquisition, by the task itself; the hand-over by a waker     *)
(* that scans the wait queue; releases, increments, downgrade and upgrade. *)
(* Each preserves the invariant.                                           *)
(***************************************************************************)
EXTENDS SixLockInvariant

-----------------------------------------------------------------------------
(* Grants *)

\* What a grant of type k to task w changes, and what it keeps.
Granted(w, k) ==
    /\ state' \in Word /\ hold' \in Holds /\ owner' \in Task \cup {NoTask}
    /\ seq' = seq /\ recurse' = recurse
    /\ Counted' /\ IntentInv' /\ WriteInv'
    /\ state.write => state'.write
    /\ state'.write => hold'[w].write # 0
    /\ \A u \in Task \ {w} : hold'[u] = hold[u]
    /\ k = "read"   => /\ hold'[w].read # 0 /\ owner' = owner
                       /\ hold'[w].intent = hold[w].intent
                       /\ hold'[w].write = hold[w].write
    /\ k = "intent" => /\ hold'[w].intent # 0 /\ owner' = w
                       /\ hold'[w].read = hold[w].read
                       /\ hold'[w].write = 0
                       /\ \A u \in Task : hold[u].intent = 0
                       /\ recurse.intent = 0
    /\ k = "write"  => /\ hold'[w].write # 0 /\ owner' = owner
                       /\ hold'[w].intent = hold[w].intent
                       /\ hold'[w].read = hold[w].read
                       /\ recurse.write = 0

\* A read grant: HELD_WRITE is clear, so no task has write.
LEMMA GrantRead ==
    ASSUME IInv, NEW w \in Task, NEW try, Grant(w, "read", try)
    PROVE  Granted(w, "read")
<1>1. /\ ~state.write /\ state' = [state EXCEPT !.read = @ + 1]
      /\ owner' = owner /\ seq' = seq /\ recurse' = recurse
      /\ hold' = [hold EXCEPT ![w].read = @ + 1]
    BY Zenon DEF Grant, Free, Add
<1>2. hold \in Holds /\ state \in Word /\ hold[w] \in References
      /\ owner \in Task \cup {NoTask}
    BY DEF IInv, TypeOK, Holds
<1>3. /\ hold'[w] = [hold[w] EXCEPT !.read = @ + 1]
      /\ \A u \in Task \ {w} : hold'[u] = hold[u]
    BY <1>1, <1>2 DEF Holds
<1>4. /\ hold'[w].read = hold[w].read + 1 /\ hold'[w].intent = hold[w].intent
      /\ hold'[w].write = hold[w].write /\ hold[w].read \in Nat /\ hold'[w] \in References
    BY <1>2, <1>3 DEF References
<1>5. hold' \in Holds
    BY <1>1, <1>2, <1>3, <1>4 DEF Holds
<1>6. /\ state' \in Word /\ state'.read = state.read + 1
      /\ state'.intent = state.intent /\ ~state'.write
    BY <1>1, <1>2 DEF Word
<1>7. Counted'
  <2>1. \A u \in Task \ {w} : hold'[u].read = hold[u].read
    BY <1>3
  <2>2. IsFiniteSet(Refs(hold)) /\ 1 \in Nat
    BY DEF IInv, Counted
  <2>3. /\ IsFiniteSet(Refs(hold'))
        /\ Cardinality(Refs(hold')) = Cardinality(Refs(hold)) + 1
    BY <1>2, <1>4, <1>5, <2>1, <2>2, RefsAdded
  <2> QED
    BY <1>6, <2>3 DEF IInv, Counted, Refs
<1>8. IntentInv'
    BY <1>1, <1>3, <1>4, <1>6 DEF IInv, IntentInv
<1>9. WriteInv'
    BY <1>1, <1>3, <1>4 DEF IInv, WriteInv
<1> QED
    BY <1>1, <1>2, <1>3, <1>4, <1>5, <1>6, <1>7, <1>8, <1>9 DEF Granted

\* An intent grant: HELD_INTENT is clear, so no task has intent or write and
\* none waits for write.
LEMMA GrantIntent ==
    ASSUME IInv, NEW w \in Task, NEW try, Grant(w, "intent", try)
    PROVE  Granted(w, "intent")
<1>1. /\ ~state.intent /\ state' = [state EXCEPT !.intent = TRUE]
      /\ owner' = w /\ seq' = seq /\ recurse' = recurse
      /\ hold' = [hold EXCEPT ![w].intent = @ + 1]
    BY Zenon DEF Grant, Free, Add
<1>2. hold \in Holds /\ state \in Word /\ hold[w] \in References
    BY DEF IInv, TypeOK, Holds
<1>3. /\ hold'[w] = [hold[w] EXCEPT !.intent = @ + 1]
      /\ \A u \in Task \ {w} : hold'[u] = hold[u]
    BY <1>1, <1>2 DEF Holds
<1>4. /\ hold'[w].read = hold[w].read /\ hold'[w].intent = hold[w].intent + 1
      /\ hold'[w].write = hold[w].write /\ hold[w].intent \in Nat /\ hold'[w] \in References
    BY <1>2, <1>3 DEF References
<1>5. hold' \in Holds
    BY <1>1, <1>2, <1>3, <1>4 DEF Holds
<1>6. /\ state' \in Word /\ state'.read = state.read
      /\ state'.intent /\ state'.write = state.write
    BY <1>1, <1>2, ZenonT(40) DEF Word
<1>7. recurse.intent = 0 /\ \A u \in Task : hold[u].intent = 0
    BY <1>1 DEF IInv, IntentInv
<1>8. \A u \in Task : hold[u].write = 0
    BY <1>7 DEF IInv, WriteInv
<1>9. ~state.write
  <2>1. ASSUME NEW u \in Task, Pending(u) PROVE FALSE
    <3>1. OpOk(u)
      BY TaskFacts
    <3> QED
      BY <1>7, <2>1, <3>1 DEF OpOk
  <2> QED
    BY <1>8, <2>1 DEF IInv, PendingInv
<1>10. Counted'
  <2>1. Refs(hold') = Refs(hold)
    BY <1>2, <1>3, <1>4, <1>5, RefsSame, ZenonT(40)
  <2> QED
    BY <1>6, <2>1 DEF IInv, Counted, Refs
<1>11. IntentInv'
    BY <1>1, <1>3, <1>4, <1>6, <1>7 DEF IntentInv
<1>12. WriteInv'
    BY <1>1, <1>3, <1>4, <1>8 DEF IInv, WriteInv
<1> QED
    BY <1>1, <1>2, <1>3, <1>4, <1>5, <1>6, <1>7, <1>8, <1>9, <1>10, <1>11, <1>12 DEF Granted

\* A write grant, to the task that has intent: the reader count is zero, so
\* nobody reads.  The grant sets HELD_WRITE, or a queued writer has set it.
LEMMA GrantWrite ==
    ASSUME IInv, NEW w \in Task, NEW try \in BOOLEAN, Grant(w, "write", try),
           hold[w].intent # 0, hold[w].write = 0, try \/ state.write
    PROVE  Granted(w, "write")
<1>1. /\ state.read = 0
      /\ state' = IF ~try THEN state ELSE [state EXCEPT !.write = TRUE]
      /\ owner' = owner /\ seq' = seq /\ recurse' = recurse
      /\ hold' = [hold EXCEPT ![w].write = @ + 1]
    BY Zenon DEF Grant, Free, Add
<1>2. hold \in Holds /\ state \in Word /\ hold[w] \in References
      /\ owner \in Task \cup {NoTask}
    BY DEF IInv, TypeOK, Holds
<1>3. /\ hold'[w] = [hold[w] EXCEPT !.write = @ + 1]
      /\ \A u \in Task \ {w} : hold'[u] = hold[u]
    BY <1>1, <1>2 DEF Holds
<1>4. /\ hold'[w].read = hold[w].read /\ hold'[w].intent = hold[w].intent
      /\ hold'[w].write = 1 /\ hold'[w] \in References
    BY <1>2, <1>3 DEF References
<1>5. hold' \in Holds
    BY <1>1, <1>2, <1>3, <1>4 DEF Holds
<1>6. /\ state' \in Word /\ state'.read = state.read
      /\ state'.intent = state.intent /\ state'.write
    BY <1>1, <1>2, Zenon DEF Word
<1>7. \A u \in Task : hold[u].read = 0
    BY <1>1, NoReaders DEF IInv
<1>8. \A u \in Task \ {w} : hold[u].write = 0
    BY SoleIntent
<1>9. recurse.write = 0
    BY <1>8 DEF IInv, WriteInv
<1>10. Counted'
  <2>1. \A u \in Task : hold'[u].read = hold[u].read
    BY <1>3, <1>4, Zenon
  <2>2. Refs(hold') = Refs(hold)
    BY <1>2, <1>5, <2>1, RefsSame
  <2> QED
    BY <1>6, <2>2, Zenon DEF IInv, Counted, Refs
<1>11. IntentInv'
    BY <1>1, <1>3, <1>4, <1>6 DEF IInv, IntentInv
<1>12. WriteInv'
    BY <1>1, <1>3, <1>4, <1>6, <1>7, <1>8, <1>9 DEF WriteInv
<1> QED
    BY <1>1, <1>2, <1>3, <1>4, <1>5, <1>6, <1>9, <1>10, <1>11, <1>12 DEF Granted

\* The three together.
LEMMA GrantAny ==
    ASSUME IInv, NEW w \in Task, NEW k \in Type, NEW try \in BOOLEAN, Grant(w, k, try),
           k = "write" => hold[w].intent # 0 /\ hold[w].write = 0 /\ (try \/ state.write)
    PROVE  Granted(w, k)
BY GrantRead, GrantIntent, GrantWrite DEF Type

\* A step of task m in which task w is granted type k (m and w may be one).
LEMMA GrantStep ==
    ASSUME IInv, NEW m \in Task, NEW w \in Task, NEW k \in Type, Granted(w, k),
           op' \in [Task -> Operation], waitLock' \in Task \cup {NoTask},
           version' \in Nat, snap' = snap, FifoType', QueueInv',
           \A u \in Task \ {w, m} : op'[u] = op[u],
           OpOk(w)', OpOk(m)',
           op[w].pc # "release", op'[w].pc # "release",
           op[m].pc # "release", op'[m].pc # "release"
    PROVE  IInv'
<1>1. TypeOK'
    BY DEF Granted, IInv, TypeOK, Holds
<1>2. Counted' /\ IntentInv' /\ WriteInv' /\ PendingInv'
    BY DEF Granted, PendingInv
<1>3. OpInv'
  <2>1. ASSUME NEW u \in Task \ {w, m} PROVE OpOk(u)'
    <3>1. /\ op'[u] = op[u] /\ hold'[u] = hold[u] /\ recurse' = recurse
          /\ state.write => state'.write
      BY DEF Granted
    <3>2. OpOk(u)
      BY TaskFacts, SMTT(30), ZenonT(40)
    <3>3. Pending(u) => state'.write
      BY <3>1, <3>2 DEF OpOk
    <3> QED
      BY <3>1, <3>2, <3>3, OpFrame DEF IInv, TypeOK
  <2> QED
    BY <2>1 DEF OpInv
<1>4. OwnerInv'
  <2>1. \A u \in Task : At(u, "release")' /\ op'[u].want = "intent"
                           <=> At(u, "release") /\ op[u].want = "intent"
    BY DEF At
  <2>2. CASE k = "intent"
    BY <2>1, <2>2 DEF Granted, OwnerInv, At
  <2>3. CASE k # "intent"
    <3>1. owner' = owner /\ \A u \in Task : hold'[u].intent = hold[u].intent
      BY <2>3 DEF Granted, Type
    <3> QED
      BY <2>1, <3>1 DEF IInv, OwnerInv, At
  <2> QED
    BY <2>2, <2>3
<1> QED
    BY <1>1, <1>2, <1>3, <1>4 DEF IInv

\* An acquisition that has got the lock returns: t comes to rest, or goes on
\* to take its read references again.
LEMMA ReturnStep ==
    ASSUME IInv, NEW t \in Task, NEW k \in Type, Granted(t, k), Return(t),
           op[t].pc \in {"idle", "lock_write", "retry"},
           op[t].lent # 0 => k = "write" /\ hold[t].read = 0,
           waitLock' \in Task \cup {NoTask}, version' \in Nat,
           fifo' = fifo, snap' = snap
    PROVE  IInv'
<1>1. OpOk(t) /\ op[t] \in Operation /\ op[t].want \in Type
    BY TaskFacts
<1>2. ~op[t].acquired
    BY <1>1 DEF OpOk
<1>3. CASE op[t].lent # 0
  <2>1. op' = [op EXCEPT ![t] = [op[t] EXCEPT !.pc = "restore", !.want = op[t].want]]
    BY <1>3, KeepWant, ZenonT(60) DEF IInv, Return, Goto
  <2>2. MovedTo(t, "restore", op[t].want)
    BY <2>1, Moved, ZenonT(60) DEF IInv
  <2>3. op' \in [Task -> Operation]
    BY <1>1, <2>1, Typed, Labels, ZenonT(40) DEF IInv, TypeOK
  <2>4. hold'[t].write # 0 /\ hold'[t].read = 0
    BY <1>3 DEF Granted
  <2>5. OpOk(t)'
    BY <1>2, <2>2, <2>4 DEF OpOk, Pending, At, MovedTo
  <2>6. QueueInv' /\ FifoType'
    BY <2>2, QueueFrame DEF IInv, MovedTo, FifoType
  <2> QED
    BY <2>2, <2>3, <2>5, <2>6, GrantStep, SMTT(30), ZenonT(40) DEF MovedTo
<1>4. CASE op[t].lent = 0
  <2>1. op' = [op EXCEPT ![t] = Idle]
    BY <1>4 DEF Return, Done
  <2>2. op'[t] = Idle /\ \A u \in Task \ {t} : op'[u] = op[u]
    BY <2>1, SMTT(30), ZenonT(40) DEF IInv, TypeOK
  <2>3. op' \in [Task -> Operation]
    BY <2>1, Typed, Zenon DEF IInv, TypeOK
  <2>4. OpOk(t)'
    BY <2>2, RestOk, IdleIsRest, Zenon
  <2>5. QueueInv' /\ FifoType'
    BY <2>2, QueueFrame DEF IInv, FifoType
  <2>6. op'[t].pc # "release"
    BY <2>2 DEF Idle
  <2> QED
    BY <2>2, <2>3, <2>4, <2>5, <2>6, GrantStep
<1> QED
    BY <1>1, <1>3, <1>4

\* TryLock: the task stays outside the lock's code.
LEMMA TryLockIInv ==
    ASSUME IInv, NEW t \in Task, NEW k \in Type, TryLock(t, k) PROVE IInv'
<1>1. /\ op[t].pc = "idle" /\ op' = op /\ fifo' = fifo /\ snap' = snap
      /\ waitLock' \in Task \cup {NoTask} /\ version' \in Nat
      /\ op' \in [Task -> Operation] /\ FifoType'
    BY DEF TryLock, At, Enter, IInv, TypeOK, FifoType
<1>2. Granted(t, k)
  <2>1. Grant(t, k, TRUE)
        /\ (k = "write" => hold[t].intent # 0 /\ hold[t].write = 0)
    BY ZenonT(40) DEF TryLock, MayTake
  <2> QED
    BY <2>1, GrantAny, Zenon
<1>3. OpOk(t)
    BY TaskFacts
<1>4. OpOk(t)'
    BY <1>1, <1>3 DEF OpOk, Pending, At
<1>5. QueueInv'
    BY <1>1 DEF IInv, QueueInv
<1> QED
    BY <1>1, <1>2, <1>4, <1>5, GrantStep

\* Acquire: a task with nothing in the way goes through the fast path, or into
\* the slow path with its type.
LEMMA AcquireIInv ==
    ASSUME IInv, NEW t \in Task, NEW k \in Type, Acquire(t, k),
           op[t].pc \in {"idle", "lock_write"},
           k = "write" => /\ hold[t].intent # 0 /\ hold[t].write = 0
                          /\ hold[t].read = 0,
           op[t].lent # 0 => k = "write"
    PROVE  IInv'
<1>1. waitLock' \in Task \cup {NoTask} /\ fifo' = fifo /\ snap' = snap
    BY DEF Acquire, IInv, TypeOK
<1>2. OpOk(t)
    BY TaskFacts
<1>3. CASE Grant(t, k, TRUE) /\ Enter(k) /\ Return(t)
  <2>1. Granted(t, k)
    BY <1>3, GrantAny, Zenon
  <2>2. version' \in Nat
    BY <1>3 DEF Enter, IInv, TypeOK
  <2> QED
    BY <1>1, <1>3, <2>1, <2>2, ReturnStep
<1>4. CASE /\ op' = [op EXCEPT ![t].pc = "slow", ![t].want = k]
           /\ UNCHANGED <<state, seq, owner, recurse, hold, version>>
  <2>1. op' = [op EXCEPT ![t] = [op[t] EXCEPT !.pc = "slow", !.want = k]]
    BY <1>4, SetWant, ZenonT(60) DEF IInv
  <2>2. MovedTo(t, "slow", k)
    BY <2>1, Moved, ZenonT(40) DEF IInv
  <2>3. ~op[t].acquired
    BY <1>2 DEF OpOk
  <2>4. OpOk(t)' /\ ~Pending(t)
    BY <1>4, <2>2, <2>3 DEF OpOk, Pending, At, MovedTo
  <2>5. "slow" \in PC /\ version' \in Nat
    BY <1>4, Labels, SMTT(30), ZenonT(40) DEF IInv, TypeOK
  <2> QED
    BY <1>1, <1>4, <2>1, <2>4, <2>5, MoveStep, ZenonT(60)
<1> QED
    BY <1>3, <1>4, ZenonT(40) DEF Acquire

\* Lock: the task comes from outside the lock's code.
LEMMA LockIInv ==
    ASSUME IInv, NEW t \in Task, NEW k \in Type, Lock(t, k) PROVE IInv'
<1>1. /\ op[t].pc = "idle" /\ Acquire(t, k)
      /\ k = "write" => /\ hold[t].intent # 0 /\ hold[t].write = 0
                        /\ hold[t].read = 0
    BY DEF Lock, MayTake, At
<1>2. OpOk(t)
    BY TaskFacts
<1>3. op[t].lent = 0
    BY <1>1, <1>2 DEF OpOk
<1> QED
    BY <1>1, <1>3, AcquireIInv

\* LockLent: the task has given its read references back.
LEMMA LockLentIInv ==
    ASSUME IInv, NEW t \in Task, LockLent(t) PROVE IInv'
<1>1. op[t].pc = "lock_write" /\ Acquire(t, "write") /\ "write" \in Type
    BY DEF LockLent, At, Type
<1>2. OpOk(t)
    BY TaskFacts
<1>3. hold[t].intent # 0 /\ hold[t].write = 0 /\ hold[t].read = 0
    BY <1>1, <1>2 DEF OpOk, At
<1> QED
    BY <1>1, <1>3, AcquireIInv

\* Retry: the grant under wait_lock, where a writer has set HELD_WRITE before,
\* or the waiter goes into its slot.
LEMMA RetryIInv ==
    ASSUME IInv, NEW t \in Task, Retry(t) PROVE IInv'
<1>1. /\ op[t].pc = "retry" /\ waitLock' \in Task \cup {NoTask} /\ snap' = snap
    BY DEF Retry, At
<1>2. OpOk(t) /\ op[t] \in Operation /\ op[t].want \in Type
    BY TaskFacts
<1>3. /\ ~op[t].acquired
      /\ op[t].lent # 0 => op[t].want = "write" /\ hold[t].read = 0
    BY <1>1, <1>2 DEF OpOk
<1>4. op[t].want = "write" => Pending(t)
    BY <1>1, <1>3 DEF Pending
<1>5. op[t].want = "write" => hold[t].intent # 0 /\ hold[t].write = 0 /\ state.write
    BY <1>2, <1>4 DEF OpOk
<1>6. CASE /\ Grant(t, op[t].want, FALSE) /\ Enter(op[t].want) /\ Return(t)
           /\ UNCHANGED fifo
  <2>1. Granted(t, op[t].want)
    BY <1>2, <1>5, <1>6, GrantAny, Zenon
  <2>2. version' \in Nat
    BY <1>6 DEF Enter, IInv, TypeOK
  <2> QED
    BY <1>1, <1>2, <1>3, <1>6, <2>1, <2>2, ReturnStep
<1>7. CASE /\ fifo' = Insert(fifo, t)
           /\ op' = [op EXCEPT ![t].pc = "parked", ![t].slot = FreeSlot(fifo)]
           /\ UNCHANGED <<state, seq, owner, recurse, hold, version>>
  <2> DEFINE i == FreeSlot(fifo)
  <2>1. /\ i \in Nat /\ fifo' \in Fifos
        /\ \A j \in DOMAIN fifo'.data :
              \/ j = i /\ fifo'.data[j] = t
              \/ fifo'.data[j] = NoTask
              \/ j \in DOMAIN fifo.data /\ fifo'.data[j] = fifo.data[j]
    BY <1>7, InsertSlot DEF IInv, FifoType
  <2>2. op' = [op EXCEPT ![t] = [op[t] EXCEPT !.pc = "parked", !.slot = i]]
    BY <1>7, Zenon DEF IInv, TypeOK, Operation
  <2> HIDE DEF i
  <2>3. /\ op'[t].pc = "parked" /\ op'[t].want = op[t].want /\ op'[t].slot = i
        /\ op'[t].acquired = op[t].acquired /\ op'[t].lent = op[t].lent
        /\ op'[t].todo = op[t].todo
        /\ \A u \in Task \ {t} : op'[u] = op[u]
    BY <1>2, <2>2 DEF IInv, TypeOK, Operation
  <2>4. op' \in [Task -> Operation]
    <3>1. [op[t] EXCEPT !.pc = "parked", !.slot = i] \in Operation
      BY <1>2, <2>1, Labels, Zenon DEF Operation
    <3> QED
      BY <2>2, <3>1 DEF IInv, TypeOK
  <2>5. TypeOK' /\ FifoType'
    BY <1>1, <1>7, <2>1, <2>4 DEF IInv, TypeOK, FifoType
  <2>6. OpOk(t)' /\ (Pending(t) => Pending(t)')
    BY <1>1, <1>2, <1>3, <1>7, <2>3 DEF OpOk, Pending, At
  <2>7. QueueInv'
    <3>1. \A j \in DOMAIN fifo.data : fifo.data[j] \in Task \cup {NoTask}
      BY FifoFacts DEF IInv, FifoType
    <3>2. ASSUME NEW j \in DOMAIN fifo'.data, fifo'.data[j] # NoTask
          PROVE  /\ op'[fifo'.data[j]].pc \in {"parked", "cancel"}
                 /\ ~op'[fifo'.data[j]].acquired
                 /\ op'[fifo'.data[j]].slot = j
      <4>1. CASE j = i /\ fifo'.data[j] = t
        BY <1>3, <2>3, <4>1
      <4>2. CASE j \in DOMAIN fifo.data /\ fifo'.data[j] = fifo.data[j]
        <5>1. /\ op[fifo.data[j]].pc \in {"parked", "cancel"}
              /\ ~op[fifo.data[j]].acquired /\ op[fifo.data[j]].slot = j
          BY <3>2, <4>2 DEF IInv, QueueInv
        <5>2. fifo.data[j] \in Task \ {t}
          BY <1>1, <3>1, <3>2, <4>2, <5>1
        <5> QED
          BY <2>3, <4>2, <5>1, <5>2
      <4> QED
        BY <2>1, <3>2, <4>1, <4>2
    <3> QED
      BY <3>2 DEF QueueInv
  <2> QED
    BY <1>1, <1>7, <2>3, <2>5, <2>6, <2>7, QuietStep, Zenon DEF At
<1> QED
    BY <1>6, <1>7, ZenonT(40) DEF Retry

\* RelockTry: a task that relocks read or intent holds it, or is at rest again.
LEMMA RelockTryIInv ==
    ASSUME IInv, NEW t \in Task, RelockTry(t) PROVE IInv'
<1>1. /\ op[t].pc = "relock_try" /\ waitLock' \in Task \cup {NoTask}
      /\ snap' = snap /\ version' \in Nat /\ version' = version /\ fifo' = fifo
    BY DEF RelockTry, At, IInv, TypeOK
<1>2. OpOk(t) /\ op[t] \in Operation /\ op[t].want \in Type
    BY TaskFacts
<1>3. op[t].want # "write" /\ ~op[t].acquired /\ op[t].lent = 0
    BY <1>1, <1>2 DEF OpOk
<1>4. CASE Grant(t, op[t].want, TRUE) /\ Goto(t, "relock")
  <2>1. Granted(t, op[t].want)
    BY <1>2, <1>3, <1>4, GrantAny, ZenonT(60)
  <2>2. op' = [op EXCEPT ![t] = [op[t] EXCEPT !.pc = "relock", !.want = op[t].want]]
    BY <1>4, KeepWant, Zenon DEF IInv, Goto
  <2>3. MovedTo(t, "relock", op[t].want)
    BY <2>2, Moved, ZenonT(60) DEF IInv
  <2>4. op' \in [Task -> Operation]
    BY <1>2, <2>2, Typed, Labels, ZenonT(40) DEF IInv, TypeOK
  <2>5. /\ op[t].want \in {"read", "intent"} /\ hold'[t][op[t].want] # 0
        /\ op[t].want = "intent" => hold'[t].write = 0
    BY <1>2, <1>3, <2>1 DEF Granted, Type
  <2>6. OpOk(t)'
    BY <1>3, <2>3, <2>5 DEF OpOk, Pending, At, MovedTo
  <2>7. QueueInv' /\ FifoType'
    BY <1>1, <2>3, QueueFrame DEF IInv, MovedTo, FifoType
  <2> QED
    BY <1>1, <1>2, <2>1, <2>3, <2>4, <2>6, <2>7, GrantStep DEF MovedTo
<1>5. CASE Done(t) /\ UNCHANGED <<state, seq, owner, recurse, hold>>
    BY <1>1, <1>5, RestStep, IdleIsRest, Zenon DEF Done
<1> QED
    BY <1>4, <1>5, ZenonT(40) DEF RelockTry

-----------------------------------------------------------------------------
(* Wakeups *)

\* A queued waiter is a parked task that waits for its type in that slot.
LEMMA QueuedWaiter ==
    ASSUME IInv, NEW k \in Type, NEW i \in Queued(fifo, k)
    PROVE  /\ i \in Nat /\ i \in DOMAIN fifo.data /\ fifo.data[i] \in Task
           /\ op[fifo.data[i]].want = k
           /\ op[fifo.data[i]].pc \in {"parked", "cancel"}
           /\ ~op[fifo.data[i]].acquired
           /\ op[fifo.data[i]].slot = i
<1>1. /\ i \in 0 .. fifo.nr - 1 /\ fifo.data[i] # NoTask
      /\ op[fifo.data[i]].want = k
    BY DEF Queued
<1>2. /\ \A j \in DOMAIN fifo.data : fifo.data[j] \in Task \cup {NoTask}
      /\ \A j \in 0 .. fifo.nr - 1 : j \in DOMAIN fifo.data
      /\ fifo.nr \in Nat
    BY FifoFacts DEF IInv, FifoType
<1>3. i \in Nat /\ i \in DOMAIN fifo.data /\ fifo.data[i] \in Task
    BY <1>1, <1>2
<1> QED
    BY <1>1, <1>3 DEF IInv, QueueInv

\* An operation with one of its fields set
LEMMA OpFields ==
    /\ \A r \in Operation : [r EXCEPT !.acquired = TRUE] \in Operation
    /\ \A r \in Operation, n \in Nat : [r EXCEPT !.scan = n] \in Operation
<1>1. \A r \in Operation : [r EXCEPT !.acquired = TRUE] \in Operation
    BY Zenon DEF Operation
<1>2. \A r \in Operation, n \in Nat : [r EXCEPT !.scan = n] \in Operation
    BY DEF Operation
<1> QED
    BY <1>1, <1>2

\* The waker t, at "scan", hands the lock to the waiter w in slot i and
\* empties the slot.
LEMMA HandOver ==
    ASSUME IInv, NEW t \in Task, op[t].pc = "scan", NEW k \in Type,
           NEW i \in Queued(fifo, k), NEW w, w = fifo.data[i], Grant(w, k, FALSE),
           fifo' \in Fifos, DOMAIN fifo'.data = DOMAIN fifo.data,
           \A j \in DOMAIN fifo.data :
              fifo'.data[j] = IF j = i THEN NoTask ELSE fifo.data[j],
           op' \in [Task -> Operation], op'[w] = [op[w] EXCEPT !.acquired = TRUE],
           \A u \in Task \ {t, w} : op'[u] = op[u],
           op'[t].pc # "release", OpOk(t)',
           waitLock' \in Task \cup {NoTask}, UNCHANGED <<snap, version>>
    PROVE  IInv'
<1>1. /\ i \in DOMAIN fifo.data /\ w \in Task /\ op[w].want = k
      /\ op[w].pc \in {"parked", "cancel"} /\ ~op[w].acquired /\ op[w].slot = i
    BY QueuedWaiter
<1>2. w # t /\ OpOk(w) /\ op[w] \in Operation
    BY <1>1, TaskFacts
<1>3. k = "write" => hold[w].intent # 0 /\ hold[w].write = 0 /\ state.write
  <2>1. k = "write" => Pending(w)
    BY <1>1 DEF Pending
  <2> QED
    BY <1>2, <2>1 DEF OpOk
<1>4. Granted(w, k)
    BY <1>1, <1>3, GrantAny, ZenonT(40)
<1>5. /\ op'[w].pc = op[w].pc /\ op'[w].want = k /\ op'[w].acquired
      /\ op'[w].lent = op[w].lent /\ op'[w].slot = i
    BY <1>1, <1>2 DEF Operation
<1>6. /\ hold'[w][k] # 0
      /\ k # "read" => recurse'[k] = 0
      /\ k = "intent" => hold'[w].write = 0
      /\ k = "write" => hold'[w].read = hold[w].read
    BY <1>4 DEF Granted, Type
<1>7. OpOk(w)'
  <2>1. op[w].lent # 0 => op[w].pc = "parked" /\ k = "write" /\ hold[w].read = 0
    BY <1>1, <1>2 DEF OpOk
  <2>2. op'[w].lent # 0 =>
           op'[w].pc = "parked" /\ op'[w].want = "write" /\ hold'[w].read = 0
    BY <1>5, <1>6, <2>1
  <2>3. /\ hold'[w][op'[w].want] # 0
        /\ op'[w].want # "read" => recurse'[op'[w].want] = 0
        /\ op'[w].want = "intent" => hold'[w].write = 0
    BY <1>5, <1>6
  <2>4. op'[w].pc \in {"parked", "cancel"} /\ op'[w].acquired
    BY <1>1, <1>5
  <2> QED
    BY <2>2, <2>3, <2>4, Zenon DEF OpOk, Pending, At
<1>8. QueueInv'
  <2>1. \A j \in DOMAIN fifo.data : fifo.data[j] \in Task \cup {NoTask}
    BY FifoFacts DEF IInv, FifoType
  <2>2. ASSUME NEW j \in DOMAIN fifo.data, fifo'.data[j] # NoTask
        PROVE  fifo'.data[j] = fifo.data[j] /\ fifo.data[j] \in Task \ {t, w}
    <3>1. j # i /\ fifo'.data[j] = fifo.data[j]
      BY <2>2
    <3>2. /\ op[fifo.data[j]].pc \in {"parked", "cancel"}
          /\ op[fifo.data[j]].slot = j
      BY <2>2, <3>1 DEF IInv, QueueInv
    <3> QED
      BY <1>1, <2>1, <2>2, <3>1, <3>2
  <2> QED
    BY <2>2 DEF IInv, QueueInv
<1>9. version' \in Nat /\ snap' = snap /\ FifoType'
    BY DEF IInv, TypeOK, FifoType
<1>10. op[w].pc # "release" /\ op'[w].pc # "release" /\ op[t].pc # "release"
    BY <1>1, <1>5, SMTT(30), ZenonT(40)
<1> QED
    BY <1>1, <1>4, <1>7, <1>8, <1>9, <1>10, GrantStep, ZenonT(60)

\* A waker that has nothing (more) to hand over goes on to clear the bit.
LEMMA ToClear ==
    ASSUME IInv, NEW t \in Task, op[t].pc = "scan", Goto(t, "clear"),
           UNCHANGED <<state, seq, owner, recurse, hold, fifo, waitLock, snap, version>>
    PROVE  IInv'
<1>1. op' = [op EXCEPT ![t] = [op[t] EXCEPT !.pc = "clear", !.want = op[t].want]]
    BY KeepWant, Zenon DEF Goto, IInv
<1>2. OpOk(t) /\ "clear" \in PC /\ op[t].want \in Type
    BY TaskFacts, Labels, SMTT(30), ZenonT(40)
<1>3. MovedTo(t, "clear", op[t].want)
    BY <1>1, Moved, ZenonT(40) DEF IInv
<1>4. OpOk(t)' /\ ~Pending(t)
    BY <1>2, <1>3 DEF OpOk, Pending, At, MovedTo
<1>5. waitLock' \in Task \cup {NoTask} /\ version' \in Nat
    BY DEF IInv, TypeOK
<1> QED
    BY <1>1, <1>2, <1>4, <1>5, MoveStep, ZenonT(60)

\* The waker goes on, still scanning, to the clearing, or to its next type.
LEMMA WakerOk ==
    ASSUME IInv, NEW t \in Task, op[t].pc = "scan",
           op'[t].pc \in {"scan", "clear"}, op'[t].acquired = op[t].acquired,
           op'[t].lent = op[t].lent, op'[t].todo = op[t].todo
    PROVE  OpOk(t)'
<1>1. OpOk(t)
    BY TaskFacts
<1>2. ~op[t].acquired /\ op[t].lent = 0 /\ op[t].todo # <<>>
    BY <1>1 DEF OpOk
<1> QED
    BY <1>2 DEF OpOk, Pending, At

\* ScanReaders: one reader is handed the lock, or the scan is over.
LEMMA ScanReadersIInv ==
    ASSUME IInv, NEW t \in Task, op[t].pc = "scan", ScanReaders(t),
           UNCHANGED <<snap, version>>
    PROVE  IInv'
<1> DEFINE S == {i \in Queued(fifo, "read") : i >= op[t].scan}
           i == Lowest(S)
           w == fifo.data[i]
<1>1. CASE S # {} /\ Free(state, "read")
  <2>1. /\ Grant(w, "read", FALSE) /\ fifo' = Remove(fifo, i) /\ waitLock' = waitLock
        /\ op' = [op EXCEPT ![w].acquired = TRUE, ![t].scan = i + 1]
    BY <1>1, Zenon DEF ScanReaders
  <2>2. i \in Queued(fifo, "read")
    <3>1. S \in SUBSET Nat /\ \A j \in S : j \in Queued(fifo, "read")
      BY DEF Queued
    <3> HIDE DEF S
    <3> QED
      BY <1>1, <3>1, LowestIsLeast, Zenon
  <2> HIDE DEF S, i
  <2>3. i \in Nat /\ w \in Task /\ op[w].pc \in {"parked", "cancel"} /\ "read" \in Type
    <3>1. "read" \in Type
      BY DEF Type
    <3> QED
      BY <2>2, <3>1, QueuedWaiter
  <2>4. w # t /\ op[t] \in Operation /\ op[w] \in Operation /\ op \in [Task -> Operation]
    BY <2>3, TaskFacts DEF IInv, TypeOK
  <2> HIDE DEF w
  <2>5. /\ op'[w] = [op[w] EXCEPT !.acquired = TRUE]
        /\ op'[t] = [op[t] EXCEPT !.scan = i + 1]
        /\ \A u \in Task \ {t, w} : op'[u] = op[u]
    BY <2>1, <2>3, <2>4, Zenon
  <2>6. op'[w] \in Operation /\ op'[t] \in Operation
    <3>1. i + 1 \in Nat
      BY <2>3
    <3> QED
      BY <2>4, <2>5, <3>1, OpFields
  <2>7. op' \in [Task -> Operation]
    BY <2>1, <2>3, <2>4, <2>5, <2>6, Zenon
  <2>8. /\ op'[t].pc = "scan" /\ op'[t].acquired = op[t].acquired
        /\ op'[t].lent = op[t].lent /\ op'[t].todo = op[t].todo
    BY <2>4, <2>5 DEF Operation
  <2>9. OpOk(t)'
    BY <2>8, WakerOk
  <2>10. /\ fifo' \in Fifos /\ DOMAIN fifo'.data = DOMAIN fifo.data
         /\ \A j \in DOMAIN fifo.data :
               fifo'.data[j] = IF j = i THEN NoTask ELSE fifo.data[j]
    BY <2>1, <2>3, RemoveSlot DEF IInv, FifoType
  <2>11. waitLock' \in Task \cup {NoTask} /\ w = fifo.data[i]
    BY <2>1 DEF IInv, TypeOK, w
  <2>12. op'[t].pc # "release" /\ "read" \in Type
    BY <2>3, <2>8
  <2>13. Grant(w, "read", FALSE)
    BY <2>1, Zenon
  <2> QED
    BY <2>2, <2>5, <2>7, <2>9, <2>10, <2>11, <2>12, <2>13, HandOver, Zenon
<1>2. CASE ~(S # {} /\ Free(state, "read"))
  <2>1. /\ Goto(t, "clear")
        /\ UNCHANGED <<state, seq, owner, recurse, hold, fifo, waitLock>>
    BY <1>2, Zenon DEF ScanReaders
  <2> QED
    BY <2>1, ToClear
<1> QED
    BY <1>1, <1>2

\* ScanOldest: the oldest waiter is handed the lock, or the scan is over.
LEMMA ScanOldestIInv ==
    ASSUME IInv, NEW t \in Task, op[t].pc = "scan", NEW k \in Type, ScanOldest(t, k),
           UNCHANGED <<snap, version>>
    PROVE  IInv'
<1> DEFINE S == Queued(fifo, k)
           i == Oldest(fifo, k)
           w == fifo.data[i]
           q == Tail(op[t].todo)
<1>1. CASE S # {} /\ Free(state, k)
  <2>1. i \in Queued(fifo, k)
    <3>1. \A j \in Queued(fifo, k) : fifo.data[j] \in Task
      BY QueuedWaiter
    <3> QED
      BY <1>1, <3>1, OldestIsQueued DEF IInv
  <2>2. /\ Grant(w, k, FALSE)
        /\ \/ /\ fifo' = Shrink(Remove(fifo, i)) /\ waitLock' = NoTask
              /\ op' = [op EXCEPT ![w].acquired = TRUE, ![t] = WakeNext(q)]
           \/ /\ fifo' = Remove(fifo, i) /\ waitLock' = waitLock
              /\ op' = [op EXCEPT ![w].acquired = TRUE, ![t].pc = "clear"]
    BY <1>1, Zenon DEF ScanOldest
  <2> HIDE DEF S, i
  <2>3. i \in Nat /\ w \in Task /\ op[w].pc \in {"parked", "cancel"}
    BY <2>1, QueuedWaiter
  <2>4. /\ w # t /\ op[t] \in Operation /\ op[w] \in Operation
        /\ op \in [Task -> Operation] /\ OpOk(t) /\ op[t].todo \in Seq(Type)
    BY <2>3, TaskFacts DEF IInv, TypeOK
  <2>5. q \in Seq(Type)
    <3>1. op[t].todo # <<>>
      BY <2>4 DEF OpOk
    <3> QED
      BY <2>4, <3>1, SMTT(30), ZenonT(40)
  <2>6. w = fifo.data[i]
    OBVIOUS
  <2> HIDE DEF w, q
  <2>7. /\ op'[w] = [op[w] EXCEPT !.acquired = TRUE]
        /\ op'[t] = WakeNext(q) \/ op'[t] = [op[t] EXCEPT !.pc = "clear"]
        /\ \A u \in Task \ {t, w} : op'[u] = op[u]
    BY <2>2, <2>3, <2>4, Zenon
  <2>8. op'[w] \in Operation /\ op'[t] \in Operation
    <3>1. op'[w] \in Operation
      BY <2>4, <2>7, OpFields
    <3>2. [op[t] EXCEPT !.pc = "clear"] \in Operation /\ WakeNext(q) \in Operation
      BY <2>4, <2>5, Typed, Labels, Zenon
    <3> QED
      BY <2>7, <3>1, <3>2
  <2>9. op' \in [Task -> Operation]
    BY <2>2, <2>3, <2>4, <2>7, <2>8
  <2>10. OpOk(t)' /\ op'[t].pc # "release"
    <3>1. CASE op'[t] = WakeNext(q)
      <4>1. op'[t].pc # "release"
        BY <3>1 DEF WakeNext, Idle
      <4> QED
        BY <2>5, <3>1, <4>1, RestOk
    <3>2. CASE op'[t] = [op[t] EXCEPT !.pc = "clear"]
      <4>1. /\ op'[t].pc = "clear" /\ op'[t].acquired = op[t].acquired
            /\ op'[t].lent = op[t].lent /\ op'[t].todo = op[t].todo
        BY <2>4, <3>2 DEF Operation
      <4> QED
        BY <4>1, WakerOk
    <3> QED
      BY <2>7, <3>1, <3>2
  <2>11. /\ fifo' \in Fifos /\ DOMAIN fifo'.data = DOMAIN fifo.data
         /\ \A j \in DOMAIN fifo.data :
               fifo'.data[j] = IF j = i THEN NoTask ELSE fifo.data[j]
    <3>1. /\ Remove(fifo, i) \in Fifos
          /\ DOMAIN Remove(fifo, i).data = DOMAIN fifo.data
          /\ \A j \in DOMAIN fifo.data :
                Remove(fifo, i).data[j] = IF j = i THEN NoTask ELSE fifo.data[j]
      BY <2>3, RemoveSlot DEF IInv, FifoType
    <3>2. fifo' \in Fifos /\ fifo'.data = Remove(fifo, i).data
      BY <2>2, <3>1, ShrinkSlots
    <3> QED
      BY <3>1, <3>2
  <2>12. waitLock' \in Task \cup {NoTask}
    BY <2>2 DEF IInv, TypeOK
  <2> QED
    BY <2>1, <2>2, <2>6, <2>7, <2>9, <2>10, <2>11, <2>12, HandOver, Zenon
<1>2. CASE ~(S # {} /\ Free(state, k))
  <2>1. /\ Goto(t, "clear")
        /\ UNCHANGED <<state, seq, owner, recurse, hold, fifo, waitLock>>
    BY <1>2, Zenon DEF ScanOldest
  <2> QED
    BY <2>1, ToClear
<1> QED
    BY <1>1, <1>2

\* Scan, for the type at the head of what the waker has to wake.
LEMMA ScanIInv ==
    ASSUME IInv, NEW t \in Task, Scan(t) PROVE IInv'
<1> DEFINE k == Head(op[t].todo)
<1>1. /\ op[t].pc = "scan" /\ UNCHANGED <<snap, version>>
      /\ IF k = "read" THEN ScanReaders(t) ELSE ScanOldest(t, k)
    BY DEF Scan, At
<1>2. OpOk(t) /\ op[t].todo \in Seq(Type)
    BY TaskFacts
<1>3. op[t].todo # <<>>
    BY <1>1, <1>2 DEF OpOk
<1>4. k \in Type
    BY <1>2, <1>3
<1> HIDE DEF k
<1> QED
    BY <1>1, <1>4, ScanReadersIInv, ScanOldestIInv

-----------------------------------------------------------------------------
(* Releases, increments, downgrade and upgrade *)

\* A task comes to rest after a change of its own references that keeps the
\* counts.
LEMMA RestChange ==
    ASSUME IInv, NEW t \in Task, NEW q \in Seq(Type),
           op' = [op EXCEPT ![t] = WakeNext(q)],
           op[t].pc \in {"idle", "release"},
           UNCHANGED <<seq, fifo, waitLock, snap, version>>,
           state' \in Word, hold' \in Holds, recurse' = recurse, owner' = owner,
           \A u \in Task \ {t} : hold'[u] = hold[u],
           Counted', IntentInv', WriteInv',
           state'.write => state.write /\ hold'[t].write = hold[t].write,
           \A u \in Task \ {t} : Pending(u) => state'.write,
           hold'[t].intent # 0 <=> owner = t
    PROVE  IInv'
<1>1. op'[t] = WakeNext(q) /\ \A u \in Task \ {t} : op'[u] = op[u]
    BY SMTT(30), ZenonT(40) DEF IInv, TypeOK
<1>2. TypeOK' /\ FifoType'
    BY Typed, ZenonT(40) DEF IInv, TypeOK, FifoType, Holds
<1>3. /\ OpOk(t)' /\ ~Pending(t)
      /\ ~(op'[t].pc = "release" /\ op'[t].want = "intent")
    BY <1>1, RestOk, SMTT(30), ZenonT(40) DEF Pending
<1>4. OpInv'
    BY <1>1, <1>3, OthersOk
<1>5. PendingInv'
  <2>1. \A u \in Task \ {t} : Pending(u)' = Pending(u)
    BY <1>1 DEF Pending
  <2> QED
    BY <1>3, <2>1 DEF IInv, PendingInv
<1>6. QueueInv'
    BY <1>1, QueueFrame DEF IInv
<1>7. OwnerInv'
    BY <1>1, <1>3 DEF IInv, OwnerInv, At
<1> QED
    BY <1>2, <1>4, <1>5, <1>6, <1>7 DEF IInv

\* Release of a read reference: the count shrinks by one.
LEMMA ReleaseRead ==
    ASSUME IInv, NEW t \in Task, Release(t), op[t].want = "read" PROVE IInv'
<1> DEFINE q == IfNeeded(state', UnlockWakeup(op[t].want))
<1>1. /\ op[t].pc = "release" /\ state' = [state EXCEPT !.read = @ - 1]
      /\ hold' = [hold EXCEPT ![t].read = @ - 1]
      /\ op' = [op EXCEPT ![t] = WakeNext(q)]
      /\ UNCHANGED <<seq, owner, recurse, fifo, waitLock, snap, version>>
    BY ZenonT(40) DEF Release, At, Sub
<1>2. q \in Seq(Type)
    BY IfNeededSeq, UnlockWakeupType DEF Type
<1> HIDE DEF q
<1>3. hold \in Holds /\ state \in Word /\ hold[t] \in References /\ OpOk(t)
    BY TaskFacts DEF IInv, TypeOK, Holds
<1>4. hold[t].read # 0
    BY <1>1, <1>3 DEF OpOk, At
<1>5. /\ hold'[t] = [hold[t] EXCEPT !.read = @ - 1]
      /\ \A u \in Task \ {t} : hold'[u] = hold[u]
    BY <1>1, <1>3 DEF Holds
<1>6. /\ hold[t].read = hold'[t].read + 1 /\ hold'[t].intent = hold[t].intent
      /\ hold'[t].write = hold[t].write /\ hold'[t] \in References
    BY <1>3, <1>4, <1>5 DEF References
<1>7. hold' \in Holds
    BY <1>1, <1>3, <1>5, <1>6, SMTT(30), ZenonT(40) DEF Holds
<1>8. /\ IsFiniteSet(Refs(hold'))
      /\ Cardinality(Refs(hold)) = Cardinality(Refs(hold')) + 1
      /\ Cardinality(Refs(hold')) \in Nat
  <2>1. \A u \in Task \ {t} : hold'[u].read = hold[u].read
    BY <1>5
  <2>2. IsFiniteSet(Refs(hold)) /\ 1 \in Nat
    BY DEF IInv, Counted
  <2> QED
    BY <1>3, <1>6, <1>7, <2>1, <2>2, RefsRemoved
<1>9. /\ state' \in Word /\ state'.read = Cardinality(Refs(hold'))
      /\ state'.intent = state.intent /\ state'.write = state.write
  <2>1. state.read = Cardinality(Refs(hold)) /\ state'.read = state.read - 1
    BY <1>1, <1>3 DEF IInv, Counted, Word
  <2>2. state'.read = Cardinality(Refs(hold'))
    BY <1>8, <2>1
  <2> QED
    BY <1>1, <1>3, <1>8, <2>2 DEF Word
<1>10. Counted'
    BY <1>8, <1>9 DEF Counted, Refs
<1>11. IntentInv'
    BY <1>1, <1>5, <1>6, <1>9, SMTT(30), ZenonT(40) DEF IInv, IntentInv
<1>12. WriteInv'
    BY <1>1, <1>4, <1>5, <1>6, <1>9, SMTT(30), ZenonT(40) DEF IInv, WriteInv
<1>13. \A u \in Task \ {t} : Pending(u) => state'.write
    BY <1>9, PendingSet
<1>14. hold'[t].intent # 0 <=> owner = t
    BY <1>6 DEF IInv, OwnerInv
<1> QED
    BY <1>1, <1>2, <1>5, <1>6, <1>7, <1>9, <1>10, <1>11, <1>12, <1>13, <1>14, RestChange, Zenon

\* Release of intent: the task does not have write, so nobody has or waits
\* for it.
LEMMA ReleaseIntent ==
    ASSUME IInv, NEW t \in Task, Release(t), op[t].want = "intent" PROVE IInv'
<1> DEFINE q == IfNeeded(state', UnlockWakeup(op[t].want))
<1>1. /\ op[t].pc = "release" /\ state' = [state EXCEPT !.intent = FALSE]
      /\ hold' = [hold EXCEPT ![t].intent = @ - 1]
      /\ op' = [op EXCEPT ![t] = WakeNext(q)]
      /\ UNCHANGED <<seq, owner, recurse, fifo, waitLock, snap, version>>
    BY ZenonT(40) DEF Release, At, Sub
<1>2. q \in Seq(Type)
    BY IfNeededSeq, UnlockWakeupType DEF Type
<1> HIDE DEF q
<1>3. hold \in Holds /\ state \in Word /\ hold[t] \in References /\ OpOk(t)
    BY TaskFacts DEF IInv, TypeOK, Holds
<1>4. hold[t].intent # 0 /\ recurse.intent = 0 /\ hold[t].write = 0
    BY <1>1, <1>3 DEF OpOk, At
<1>5. hold[t].intent = 1
    BY <1>4 DEF IInv, IntentInv
<1>6. /\ hold'[t] = [hold[t] EXCEPT !.intent = @ - 1]
      /\ \A u \in Task \ {t} : hold'[u] = hold[u]
    BY <1>1, <1>3 DEF Holds
<1>7. /\ hold'[t].read = hold[t].read /\ hold'[t].intent = 0
      /\ hold'[t].write = 0 /\ hold'[t] \in References
    BY <1>3, <1>4, <1>5, <1>6 DEF References
<1>8. hold' \in Holds
    BY <1>1, <1>3, <1>6, <1>7 DEF Holds
<1>9. \A u \in Task \ {t} : hold[u].intent = 0 /\ hold[u].write = 0 /\ ~Pending(u)
    BY <1>4, SoleIntent
<1>10. /\ state' \in Word /\ state'.read = state.read
       /\ ~state'.intent /\ state'.write = state.write
    BY <1>1, <1>3, Zenon DEF Word
<1>11. Counted'
  <2>1. \A u \in Task : hold'[u].read = hold[u].read
    BY <1>6, <1>7, Zenon
  <2>2. Refs(hold') = Refs(hold)
    BY <1>3, <1>8, <2>1, RefsSame
  <2> QED
    BY <1>10, <2>2, Zenon DEF IInv, Counted, Refs
<1>12. IntentInv'
    BY <1>1, <1>4, <1>6, <1>7, <1>9, <1>10, SMTT(30), ZenonT(40) DEF IntentInv
<1>13. WriteInv'
    BY <1>1, <1>4, <1>6, <1>7, <1>9 DEF IInv, WriteInv
<1>14. ~(hold'[t].intent # 0) /\ owner # t
    BY <1>1, <1>7 DEF IInv, OwnerInv, At
<1>15. hold'[t].write = hold[t].write
    BY <1>4, <1>7
<1> QED
    BY <1>1, <1>2, <1>6, <1>8, <1>9, <1>10, <1>11, <1>12, <1>13, <1>14, <1>15, RestChange, Zenon

\* Release of write: it was the last reference.
LEMMA ReleaseWrite ==
    ASSUME IInv, NEW t \in Task, Release(t), op[t].want = "write" PROVE IInv'
<1> DEFINE q == IfNeeded(state', UnlockWakeup(op[t].want))
<1>1. /\ op[t].pc = "release" /\ state' = [state EXCEPT !.write = FALSE]
      /\ hold' = [hold EXCEPT ![t].write = @ - 1]
      /\ op' = [op EXCEPT ![t] = WakeNext(q)]
      /\ UNCHANGED <<seq, owner, recurse, fifo, waitLock, snap, version>>
    BY ZenonT(40) DEF Release, At, Sub
<1>2. q \in Seq(Type)
    BY IfNeededSeq, UnlockWakeupType DEF Type
<1> HIDE DEF q
<1>3. hold \in Holds /\ state \in Word /\ hold[t] \in References /\ OpOk(t)
    BY TaskFacts DEF IInv, TypeOK, Holds
<1>4. hold[t].write # 0 /\ recurse.write = 0
    BY <1>1, <1>3 DEF OpOk, At
<1>5. hold[t].write = 1 /\ hold[t].intent # 0
    BY <1>4 DEF IInv, WriteInv
<1>6. /\ hold'[t] = [hold[t] EXCEPT !.write = @ - 1]
      /\ \A u \in Task \ {t} : hold'[u] = hold[u]
    BY <1>1, <1>3 DEF Holds
<1>7. /\ hold'[t].read = hold[t].read /\ hold'[t].intent = hold[t].intent
      /\ hold'[t].write = 0 /\ hold'[t] \in References
    BY <1>3, <1>5, <1>6 DEF References
<1>8. hold' \in Holds
    BY <1>1, <1>3, <1>6, <1>7 DEF Holds
<1>9. \A u \in Task \ {t} : hold[u].intent = 0 /\ hold[u].write = 0 /\ ~Pending(u)
    BY <1>5, SoleIntent
<1>10. /\ state' \in Word /\ state'.read = state.read
       /\ state'.intent = state.intent /\ ~state'.write
    BY <1>1, <1>3, Zenon DEF Word
<1>11. Counted'
  <2>1. \A u \in Task : hold'[u].read = hold[u].read
    BY <1>6, <1>7, ZenonT(40)
  <2>2. Refs(hold') = Refs(hold)
    BY <1>3, <1>8, <2>1, RefsSame
  <2> QED
    BY <1>10, <2>2 DEF IInv, Counted, Refs
<1>12. IntentInv'
    BY <1>1, <1>6, <1>7, <1>10 DEF IInv, IntentInv
<1>13. WriteInv'
    BY <1>1, <1>4, <1>6, <1>7, <1>9, SMTT(30), ZenonT(40) DEF WriteInv
<1>14. hold'[t].intent # 0 <=> owner = t
    BY <1>7 DEF IInv, OwnerInv
<1> QED
    BY <1>1, <1>2, <1>6, <1>8, <1>9, <1>10, <1>11, <1>12, <1>13, <1>14, RestChange, Zenon

\* Release of whatever the task is releasing.
LEMMA ReleaseIInv ==
    ASSUME IInv, NEW t \in Task, Release(t) PROVE IInv'
<1>1. op[t].want \in {"read", "intent", "write"}
    BY TaskFacts DEF Type
<1> QED
    BY <1>1, ReleaseRead, ReleaseIntent, ReleaseWrite, SMTT(30), ZenonT(40)

\* The recorded owner after a step of an idle task on its own references.
LEMMA OwnerMoves ==
    ASSUME NEW t \in Task, OwnerInv, op[t].pc = "idle", op'[t].pc # "release",
           \A u \in Task \ {t} : op'[u] = op[u],
           \A u \in Task \ {t} : hold'[u] = hold[u],
           \/ owner' = owner /\ (hold'[t].intent # 0 <=> hold[t].intent # 0)
           \/ /\ owner' = t /\ hold'[t].intent # 0
              /\ \A u \in Task : hold[u].intent = 0
    PROVE  OwnerInv'
<1>1. owner = t <=> hold[t].intent # 0
    BY DEF OwnerInv, At
<1>2. owner' = t <=> hold'[t].intent # 0
    BY <1>1
<1>3. ASSUME NEW u \in Task \ {t}
      PROVE  owner' = u <=> /\ hold'[u].intent # 0
                            /\ ~(op'[u].pc = "release" /\ op'[u].want = "intent")
  <2>1. owner = u <=> /\ hold[u].intent # 0
                      /\ ~(op[u].pc = "release" /\ op[u].want = "intent")
    BY <1>3 DEF OwnerInv, At
  <2>2. op'[u] = op[u] /\ hold'[u] = hold[u]
    BY <1>3
  <2> QED
    BY <1>3, <2>1, <2>2
<1> QED
    BY <1>2, <1>3 DEF OwnerInv, At

\* An idle task changes its own references in a way that keeps the counts.
LEMMA OwnChange ==
    ASSUME IInv, NEW t \in Task, op[t].pc = "idle", op'[t].pc # "release", OpOk(t)',
           op' \in [Task -> Operation], \A u \in Task \ {t} : op'[u] = op[u],
           UNCHANGED <<seq, fifo, waitLock, snap, version>>,
           state' \in Word, hold' \in Holds, recurse' \in [intent : Nat, write : Nat],
           \A u \in Task \ {t} : hold'[u] = hold[u],
           Counted', IntentInv', WriteInv',
           recurse' = recurse \/ hold[t].intent # 0,
           state'.write = state.write, hold[t].write # 0 => hold'[t].write # 0,
           \/ owner' = owner /\ (hold'[t].intent # 0 <=> hold[t].intent # 0)
           \/ /\ owner' = t /\ hold'[t].intent # 0
              /\ \A u \in Task : hold[u].intent = 0
    PROVE  IInv'
<1>1. TypeOK' /\ FifoType'
    BY DEF IInv, TypeOK, FifoType, Holds
<1>2. OpInv'
  <2>1. \A u \in Task \ {t} : Pending(u) => state'.write
    BY PendingSet
  <2>2. \A u \in Task \ {t}, k \in {"intent", "write"} :
           hold[u][k] # 0 => recurse'[k] = recurse[k]
    BY SoleIntent, SMTT(30), ZenonT(40)
  <2> QED
    BY <2>1, <2>2, OthersOk, SMTT(30), ZenonT(40)
<1>3. PendingInv'
  <2>1. ~Pending(t) /\ \A u \in Task \ {t} : Pending(u)' = Pending(u)
    BY SMTT(30), ZenonT(40) DEF Pending
  <2> QED
    BY <2>1, SMTT(30), ZenonT(40) DEF IInv, PendingInv
<1>4. QueueInv'
    BY QueueFrame, ZenonT(60) DEF IInv
<1>5. OwnerInv'
    BY OwnerMoves DEF IInv
<1> QED
    BY <1>1, <1>2, <1>3, <1>4, <1>5, SMTT(30), ZenonT(40) DEF IInv

\* An idle task that stays idle
LEMMA IdleOk ==
    ASSUME IInv, NEW t \in Task, op[t].pc = "idle", op' = op
    PROVE  /\ OpOk(t)' /\ op' \in [Task -> Operation]
           /\ op'[t].pc # "release" /\ \A u \in Task \ {t} : op'[u] = op[u]
<1>1. OpOk(t) /\ op \in [Task -> Operation]
    BY TaskFacts, Zenon DEF IInv, TypeOK
<1>2. ~op[t].acquired /\ op[t].lent = 0
    BY <1>1, Zenon DEF OpOk
<1>3. OpOk(t)'
    BY <1>2 DEF OpOk, Pending, At
<1> QED
    BY <1>1, <1>3

\* One more read reference for a task that has read or intent: nobody else has
\* write, since that would exclude both.
LEMMA OneMoreRead ==
    ASSUME IInv, NEW t \in Task, hold[t].read + hold[t].intent # 0,
           state' = [state EXCEPT !.read = @ + 1],
           hold' = [hold EXCEPT ![t].read = @ + 1], recurse' = recurse
    PROVE  /\ state' \in Word /\ state'.write = state.write /\ hold' \in Holds
           /\ hold'[t].intent = hold[t].intent /\ hold'[t].write = hold[t].write
           /\ \A u \in Task \ {t} : hold'[u] = hold[u]
           /\ Counted' /\ IntentInv' /\ WriteInv'
<1>1. hold \in Holds /\ state \in Word /\ hold[t] \in References
    BY DEF IInv, TypeOK, Holds
<1>2. /\ hold'[t] = [hold[t] EXCEPT !.read = @ + 1]
      /\ \A u \in Task \ {t} : hold'[u] = hold[u]
    BY <1>1 DEF Holds
<1>3. /\ hold'[t].read = hold[t].read + 1 /\ hold'[t].intent = hold[t].intent
      /\ hold'[t].write = hold[t].write /\ hold'[t] \in References
    BY <1>1, <1>2 DEF References
<1>4. hold' \in Holds
    BY <1>1, <1>2, <1>3 DEF Holds
<1>5. /\ state' \in Word /\ state'.read = state.read + 1
      /\ state'.intent = state.intent /\ state'.write = state.write
    BY <1>1 DEF Word
<1>6. Counted'
  <2>1. \A u \in Task \ {t} : hold'[u].read = hold[u].read
    BY <1>2
  <2>2. IsFiniteSet(Refs(hold)) /\ 1 \in Nat
    BY DEF IInv, Counted
  <2>3. /\ IsFiniteSet(Refs(hold'))
        /\ Cardinality(Refs(hold')) = Cardinality(Refs(hold)) + 1
    BY <1>1, <1>3, <1>4, <2>1, <2>2, RefsAdded, ZenonT(40)
  <2> QED
    BY <1>5, <2>3 DEF IInv, Counted, Refs
<1>7. IntentInv'
    BY <1>2, <1>3, <1>5 DEF IInv, IntentInv
<1>8. \A u \in Task \ {t} : hold[u].write = 0
  <2> SUFFICES ASSUME NEW u \in Task \ {t}, hold[u].write # 0 PROVE FALSE
    OBVIOUS
  <2>1. hold[u].intent # 0 /\ hold[t].read = 0
    BY DEF IInv, WriteInv
  <2>2. hold[t].intent = 0
    BY <2>1, SoleIntent
  <2> QED
    BY <2>1, <2>2
<1>9. WriteInv'
    BY <1>2, <1>3, <1>5, <1>8, SMTT(30), ZenonT(40) DEF IInv, WriteInv
<1> QED
    BY <1>2, <1>3, <1>4, <1>5, <1>6, <1>7, <1>9

\* Increment of read.
LEMMA IncrementRead ==
    ASSUME IInv, NEW t \in Task, Increment(t, "read") PROVE IInv'
<1>1. /\ op[t].pc = "idle" /\ hold[t].read + hold[t].intent # 0
      /\ state' = [state EXCEPT !.read = @ + 1]
      /\ hold' = [hold EXCEPT ![t].read = @ + 1] /\ recurse' = recurse
      /\ UNCHANGED <<seq, owner, fifo, waitLock, op, snap, version>>
    BY Zenon DEF Increment, At, Add
<1>2. /\ state' \in Word /\ state'.write = state.write /\ hold' \in Holds
      /\ hold'[t].intent = hold[t].intent /\ hold'[t].write = hold[t].write
      /\ \A u \in Task \ {t} : hold'[u] = hold[u]
      /\ Counted' /\ IntentInv' /\ WriteInv'
    BY <1>1, OneMoreRead, ZenonT(40)
<1>3. recurse' \in [intent : Nat, write : Nat]
    BY <1>1 DEF IInv, TypeOK
<1>4. /\ OpOk(t)' /\ op' \in [Task -> Operation]
      /\ op'[t].pc # "release" /\ \A u \in Task \ {t} : op'[u] = op[u]
    BY <1>1, IdleOk
<1> QED
    BY <1>1, <1>2, <1>3, <1>4, OwnChange, Zenon

\* Increment of intent.
LEMMA IncrementIntent ==
    ASSUME IInv, NEW t \in Task, Increment(t, "intent") PROVE IInv'
<1>1. /\ op[t].pc = "idle" /\ hold[t].intent # 0 /\ state' = state
      /\ hold' = [hold EXCEPT ![t].intent = @ + 1]
      /\ recurse' = [recurse EXCEPT !.intent = @ + 1]
      /\ UNCHANGED <<seq, owner, fifo, waitLock, op, snap, version>>
    BY ZenonT(40) DEF Increment, At
<1>2. /\ hold \in Holds /\ state \in Word /\ hold[t] \in References
      /\ recurse \in [intent : Nat, write : Nat]
    BY DEF IInv, TypeOK, Holds
<1>3. /\ hold'[t] = [hold[t] EXCEPT !.intent = @ + 1]
      /\ \A u \in Task \ {t} : hold'[u] = hold[u]
    BY <1>1, <1>2 DEF Holds
<1>4. /\ recurse' \in [intent : Nat, write : Nat]
      /\ recurse'.intent = recurse.intent + 1 /\ recurse'.write = recurse.write
    BY <1>1, <1>2
<1>5. hold[t].intent = recurse.intent + 1 /\ state.intent
    BY <1>1 DEF IInv, IntentInv
<1>6. /\ hold'[t].read = hold[t].read /\ hold'[t].intent = recurse'.intent + 1
      /\ hold'[t].intent # 0
      /\ hold'[t].write = hold[t].write /\ hold'[t] \in References
    BY <1>2, <1>3, <1>4, <1>5 DEF References
<1>7. hold' \in Holds
    BY <1>1, <1>2, <1>3, <1>6 DEF Holds
<1>8. \A u \in Task \ {t} : hold[u].intent = 0 /\ hold[u].write = 0
    BY <1>1, SoleIntent
<1>9. Counted'
  <2>1. \A u \in Task : hold'[u].read = hold[u].read
    BY <1>3, <1>6, ZenonT(40)
  <2>2. Refs(hold') = Refs(hold)
    BY <1>2, <1>7, <2>1, RefsSame
  <2> QED
    BY <1>1, <2>2, Zenon DEF IInv, Counted, Refs
<1>10. IntentInv'
    BY <1>1, <1>3, <1>5, <1>6, <1>8, SMTT(30), ZenonT(40) DEF IntentInv
<1>11. WriteInv'
    BY <1>1, <1>3, <1>4, <1>6, <1>8 DEF IInv, WriteInv
<1>12. /\ OpOk(t)' /\ op' \in [Task -> Operation]
       /\ op'[t].pc # "release" /\ \A u \in Task \ {t} : op'[u] = op[u]
    BY <1>1, IdleOk
<1> QED
    BY <1>1, <1>2, <1>3, <1>4, <1>6, <1>7, <1>9, <1>10, <1>11, <1>12, OwnChange, Zenon

\* A record of references with one of its counts set
LEMMA SetField ==
    \A r \in References, n \in Nat :
       /\ [r EXCEPT !.read = n] \in References
       /\ [r EXCEPT !.intent = n] \in References
       /\ [r EXCEPT !.write = n] \in References
BY DEF References

\* Increment of write counts intent up with it.
LEMMA IncrementWrite ==
    ASSUME IInv, NEW t \in Task, Increment(t, "write") PROVE IInv'
<1>1. /\ op[t].pc = "idle" /\ hold[t].write # 0 /\ state' = state
      /\ hold' = [hold EXCEPT ![t].write = @ + 1, ![t].intent = @ + 1]
      /\ recurse' = [intent |-> recurse.intent + 1, write |-> recurse.write + 1]
      /\ UNCHANGED <<seq, owner, fifo, waitLock, op, snap, version>>
    BY DEF Increment, At
<1>2. /\ hold \in Holds /\ state \in Word /\ hold[t] \in References
      /\ recurse \in [intent : Nat, write : Nat]
    BY DEF IInv, TypeOK, Holds
<1>3. /\ hold'[t] = [hold[t] EXCEPT !.write = @ + 1, !.intent = @ + 1]
      /\ \A u \in Task \ {t} : hold'[u] = hold[u]
    BY <1>1, <1>2 DEF Holds, References
<1>4. /\ recurse' \in [intent : Nat, write : Nat]
      /\ recurse'.intent = recurse.intent + 1 /\ recurse'.write = recurse.write + 1
    BY <1>1, <1>2
<1>5. /\ hold[t].write = recurse.write + 1 /\ hold[t].intent # 0 /\ state.write
      /\ \A u \in Task \ {t} : hold[u].read = 0
    BY <1>1 DEF IInv, WriteInv
<1>6. hold[t].intent = recurse.intent + 1 /\ state.intent
    BY <1>5 DEF IInv, IntentInv
<1>7. /\ hold'[t].read = hold[t].read /\ hold'[t].intent = recurse'.intent + 1
      /\ hold'[t].intent # 0 /\ hold'[t].write # 0
      /\ hold'[t].write = recurse'.write + 1 /\ hold'[t] \in References
  <2> DEFINE up(r) == [r EXCEPT !.write = @ + 1, !.intent = @ + 1]
  <2>1. ASSUME NEW r \in References
        PROVE  /\ up(r).read = r.read /\ up(r).intent = r.intent + 1
               /\ up(r).write = r.write + 1 /\ up(r) \in References
    <3>1. /\ up(r).read = r.read /\ up(r).intent = r.intent + 1
          /\ up(r).write = r.write + 1 /\ r.write + 1 \in Nat /\ r.intent + 1 \in Nat
          /\ up(r) = [[r EXCEPT !.write = r.write + 1] EXCEPT !.intent = r.intent + 1]
      BY DEF References
    <3> QED
      BY <3>1, SetField, ZenonT(40)
  <2>2. hold'[t] = up(hold[t])
    BY <1>3
  <2> HIDE DEF up
  <2>3. /\ hold'[t].read = hold[t].read /\ hold'[t].intent = hold[t].intent + 1
        /\ hold'[t].write = hold[t].write + 1 /\ hold'[t] \in References
    BY <1>2, <2>1, <2>2
  <2>4. recurse.intent \in Nat /\ recurse.write \in Nat
    BY <1>2
  <2> QED
    BY <1>4, <1>5, <1>6, <2>3, <2>4, SMTT(30), ZenonT(40)
<1>8. hold' \in Holds
  <2>1. hold' = [hold EXCEPT ![t] = hold'[t]]
    BY <1>1, <1>2, <1>3 DEF Holds, References
  <2> QED
    BY <1>2, <1>7, <2>1 DEF Holds
<1>9. \A u \in Task \ {t} : hold[u].intent = 0 /\ hold[u].write = 0
    BY <1>5, SoleIntent
<1>10. Counted'
  <2>1. \A u \in Task : hold'[u].read = hold[u].read
    BY <1>3, <1>7, ZenonT(40)
  <2>2. Refs(hold') = Refs(hold)
    BY <1>2, <1>8, <2>1, RefsSame
  <2> QED
    BY <1>1, <2>2, Zenon DEF IInv, Counted, Refs
<1>11. IntentInv'
  <2>1. state'.intent /\ \A u \in Task \ {t} : hold'[u].intent = 0
    BY <1>1, <1>3, <1>6, <1>9, ZenonT(40)
  <2> QED
    BY <1>7, <2>1 DEF IntentInv
<1>12. WriteInv'
  <2>1. state'.write /\ \A u \in Task \ {t} : hold'[u].write = 0 /\ hold'[u].read = 0
    BY <1>1, <1>3, <1>5, <1>9, Zenon
  <2> QED
    BY <1>7, <2>1 DEF WriteInv
<1>13. /\ OpOk(t)' /\ op' \in [Task -> Operation]
       /\ op'[t].pc # "release" /\ \A u \in Task \ {t} : op'[u] = op[u]
    BY <1>1, IdleOk
<1> QED
    BY <1>1, <1>2, <1>3, <1>4, <1>5, <1>7, <1>8, <1>10, <1>11, <1>12, <1>13, OwnChange, ZenonT(40)

\* Downgrade: a read reference beside intent.
LEMMA DowngradeIInv ==
    ASSUME IInv, NEW t \in Task, Downgrade(t) PROVE IInv'
<1>1. /\ op[t].pc = "idle" /\ hold[t].intent # 0 /\ hold[t].write = 0
      /\ state' = [state EXCEPT !.read = @ + 1]
      /\ hold' = [hold EXCEPT ![t].read = @ + 1] /\ recurse' = recurse
      /\ Goto(t, "unlock")
      /\ UNCHANGED <<seq, owner, fifo, waitLock, snap, version>>
    BY DEF Downgrade, At, Add
<1>2. hold[t] \in References /\ OpOk(t) /\ op[t] \in Operation /\ op[t].want \in Type
    BY TaskFacts
<1>3. hold[t].read + hold[t].intent # 0
    BY <1>1, <1>2 DEF References
<1>4. /\ state' \in Word /\ state'.write = state.write /\ hold' \in Holds
      /\ hold'[t].intent = hold[t].intent /\ hold'[t].write = hold[t].write
      /\ \A u \in Task \ {t} : hold'[u] = hold[u]
      /\ Counted' /\ IntentInv' /\ WriteInv'
    BY <1>1, <1>3, OneMoreRead, ZenonT(60)
<1>5. recurse' \in [intent : Nat, write : Nat]
    BY <1>1 DEF IInv, TypeOK
<1>6. op' = [op EXCEPT ![t] = [op[t] EXCEPT !.pc = "unlock", !.want = op[t].want]]
    BY <1>1, KeepWant, Zenon DEF IInv, Goto
<1>7. MovedTo(t, "unlock", op[t].want)
    BY <1>6, Moved, ZenonT(60) DEF IInv
<1>8. op' \in [Task -> Operation]
    BY <1>2, <1>6, Typed, Labels, ZenonT(40) DEF IInv, TypeOK
<1>9. ~op[t].acquired /\ op[t].lent = 0
    BY <1>1, <1>2 DEF OpOk
<1>10. OpOk(t)'
    BY <1>1, <1>4, <1>7, <1>9, SMTT(30), ZenonT(40) DEF OpOk, Pending, At, MovedTo
<1>11. op'[t].pc # "release" /\ \A u \in Task \ {t} : op'[u] = op[u]
    BY <1>7 DEF MovedTo
<1> QED
    BY <1>1, <1>4, <1>5, <1>8, <1>10, <1>11, OwnChange, ZenonT(40)

\* TryUpgrade: read becomes intent in one step; nobody had intent.
LEMMA TryUpgradeIInv ==
    ASSUME IInv, NEW t \in Task, TryUpgrade(t) PROVE IInv'
<1>1. /\ op[t].pc = "idle" /\ hold[t].read # 0 /\ ~state.intent
      /\ state' = [state EXCEPT !.read = @ - 1, !.intent = TRUE]
      /\ hold' = [hold EXCEPT ![t].read = @ - 1, ![t].intent = @ + 1]
      /\ owner' = t /\ recurse' = recurse
      /\ UNCHANGED <<seq, fifo, waitLock, op, snap, version>>
    BY DEF TryUpgrade, At, Sub, IInv, TypeOK, Word
<1>2. /\ hold \in Holds /\ state \in Word /\ hold[t] \in References
      /\ recurse' \in [intent : Nat, write : Nat]
    BY <1>1 DEF IInv, TypeOK, Holds
<1>3. /\ hold'[t] = [hold[t] EXCEPT !.read = @ - 1, !.intent = @ + 1]
      /\ \A u \in Task \ {t} : hold'[u] = hold[u]
    BY <1>1, <1>2 DEF Holds, References
<1>4. recurse.intent = 0 /\ \A u \in Task : hold[u].intent = 0
    BY <1>1 DEF IInv, IntentInv
<1>5. \A u \in Task : hold[u].write = 0
    BY <1>4 DEF IInv, WriteInv
<1>6. /\ hold[t].read = hold'[t].read + 1 /\ hold'[t].intent = 1
      /\ hold'[t].write = 0 /\ hold'[t] \in References
  <2>1. /\ hold[t].read \in Nat /\ hold[t].read # 0 /\ hold[t].intent = 0
        /\ hold[t].write = 0
    BY <1>1, <1>2, <1>4, <1>5 DEF References
  <2> DEFINE up(r) == [r EXCEPT !.read = @ - 1, !.intent = @ + 1]
  <2>2. ASSUME NEW r \in References, r.read # 0
        PROVE  /\ up(r).read = r.read - 1 /\ up(r).intent = r.intent + 1
               /\ up(r).write = r.write /\ up(r) \in References
    <3>1. /\ up(r).read = r.read - 1 /\ up(r).intent = r.intent + 1
          /\ up(r).write = r.write /\ r.read - 1 \in Nat /\ r.intent + 1 \in Nat
          /\ up(r) = [[r EXCEPT !.read = r.read - 1] EXCEPT !.intent = r.intent + 1]
      BY <2>2 DEF References
    <3> QED
      BY <3>1, SetField, ZenonT(40)
  <2>3. hold'[t] = up(hold[t])
    BY <1>3
  <2> HIDE DEF up
  <2>4. /\ hold'[t].read = hold[t].read - 1 /\ hold'[t].intent = hold[t].intent + 1
        /\ hold'[t].write = hold[t].write /\ hold'[t] \in References
    BY <1>2, <2>1, <2>2, <2>3
  <2> QED
    BY <2>1, <2>4
<1>7. hold' \in Holds
  <2>1. hold' = [hold EXCEPT ![t] = hold'[t]]
    BY <1>1, <1>2, <1>3, SMTT(30), ZenonT(40) DEF Holds, References
  <2> QED
    BY <1>2, <1>6, <2>1 DEF Holds
<1>8. /\ IsFiniteSet(Refs(hold'))
      /\ Cardinality(Refs(hold)) = Cardinality(Refs(hold')) + 1
      /\ Cardinality(Refs(hold')) \in Nat
  <2>1. \A u \in Task \ {t} : hold'[u].read = hold[u].read
    BY <1>3
  <2>2. IsFiniteSet(Refs(hold)) /\ 1 \in Nat
    BY DEF IInv, Counted
  <2> QED
    BY <1>2, <1>6, <1>7, <2>1, <2>2, RefsRemoved
<1>9. /\ state' \in Word /\ state'.read = Cardinality(Refs(hold'))
      /\ state'.intent /\ state'.write = state.write
  <2>1. state.read = Cardinality(Refs(hold)) /\ state'.read = state.read - 1
    BY <1>1, <1>2 DEF IInv, Counted, Word
  <2>2. state'.read = Cardinality(Refs(hold'))
    BY <1>8, <2>1
  <2> QED
    BY <1>1, <1>2, <1>8, <2>2, Zenon DEF Word
<1>10. Counted'
    BY <1>8, <1>9, SMTT(30), ZenonT(40) DEF Counted, Refs
<1>11. IntentInv'
  <2>1. recurse'.intent = 0 /\ \A u \in Task \ {t} : hold'[u].intent = 0
    BY <1>1, <1>3, <1>4, Zenon
  <2> QED
    BY <1>6, <1>9, <2>1 DEF IntentInv
<1>12. WriteInv'
    BY <1>1, <1>3, <1>5, <1>6, ZenonT(40) DEF IInv, WriteInv
<1>13. /\ OpOk(t)' /\ op' \in [Task -> Operation]
       /\ op'[t].pc # "release" /\ \A u \in Task \ {t} : op'[u] = op[u]
    BY <1>1, IdleOk
<1>14. hold'[t].intent # 0
    BY <1>6
<1> QED
    BY <1>1, <1>2, <1>3, <1>4, <1>5, <1>7, <1>9, <1>10, <1>11, <1>12, <1>13, <1>14, OwnChange, ZenonT(40)

=============================================================================
