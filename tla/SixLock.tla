------------------------------ MODULE SixLock ------------------------------
(***************************************************************************)
(* The shared/intent/exclusive lock of crates/subvol/src/lock/six.rs: one  *)
(* lock, any number of tasks.                                              *)
(*                                                                         *)
(* Every atomic read-modify-write of the lock word is one step; what runs  *)
(* under the wait_lock mutex is a critical section that the lock word's    *)
(* other users still interleave with.  A step that changes the lock word   *)
(* and the owner cell together stands for a compare_exchange followed by   *)
(* six_set_owner: HELD_INTENT keeps every other writer of the owner cell   *)
(* out in between.                                                         *)
(*                                                                         *)
(* hold[t] counts the references task t has in the lock word: a grant made *)
(* by a waker on t's behalf counts from the waker's compare_exchange on.   *)
(***************************************************************************)
EXTENDS Integers, Sequences, FiniteSets

CONSTANTS
    Task,            \* threads using the lock
    NoTask,          \* the empty owner cell, and an empty wait slot
    StartTime,       \* trans_start_time each task's waiter carries
    InlineWaiters,   \* SIX_LOCK_INLINE_WAITERS, 8 in the code
    Cancellers,      \* tasks whose should_sleep_fn may return an error
    WakeAllers,      \* tasks that may call six_lock_wakeup_all
    Relockers,       \* tasks that keep a sequence number and relock
    MaxRefs,         \* bound: references of one type one task takes
    MaxSeq           \* bound: write sections in a behaviour

ASSUME SixAssumption ==
    /\ NoTask \notin Task
    /\ IsFiniteSet(Task)
    /\ StartTime \in [Task -> Nat]
    /\ InlineWaiters \in Nat \ {0}
    /\ Cancellers \subseteq Task
    /\ WakeAllers \subseteq Task
    /\ Relockers \subseteq Task
    /\ MaxRefs \in Nat
    /\ MaxSeq \in Nat

VARIABLES
    state,     \* the lock word: reader count, HELD_INTENT, HELD_WRITE, WAITING_*
    seq,       \* sequence number, bumped by every write unlock
    owner,     \* task that holds intent
    recurse,   \* intent_lock_recurse and write_lock_recurse
    fifo,      \* six_lock_wait_fifo: slots, nr, next_free_hint
    waitLock,  \* holder of the wait_lock mutex
    op,        \* the operation each task is inside, with its six_lock_waiter
    hold,      \* references each task has in the lock word
    snap,      \* sequence number a task kept for a later relock
    version    \* history: number of write sections entered

vars == <<state, seq, owner, recurse, fifo, waitLock, op, hold, snap, version>>

Type == {"read", "intent", "write"}
Word == [read : Nat, intent : BOOLEAN, write : BOOLEAN, waiting : SUBSET Type]
References == [read : Nat, intent : Nat, write : Nat]
NoHold == [read |-> 0, intent |-> 0, write |-> 0]
NoSnap == [seq |-> -1, version |-> 0]

PC == {"idle", "lock_write", "slow", "enqueue", "retry", "parked", "cancel",
       "cancel_write", "cancel_wake", "release", "wake", "scan", "clear",
       "relock_try", "relock", "restore", "unlock"}

\* Where a task is in the lock's code (pc); lock_want, lock_acquired and slot_idx
\* of its six_lock_waiter (want, acquired, slot); the read references that
\* bch2_btree_node_lock_write gave back (lent); the types it still has to wake
\* (todo); and the slot its wakeup of readers has got to (scan).
Operation == [pc : PC, want : Type, acquired : BOOLEAN, slot : Nat, lent : Nat,
              todo : Seq(Type), scan : Nat]

\* A task outside the lock's code
Idle == [pc |-> "idle", want |-> "read", acquired |-> FALSE, slot |-> 0,
         lent |-> 0, todo |-> <<>>, scan |-> 0]

-----------------------------------------------------------------------------
(* The lock word *)

\* Mutant: a writer does not keep readers out.
FreeForReaders(st, k) == CASE k = "read"   -> TRUE
                           [] k = "intent" -> ~st.intent
                           [] k = "write"  -> st.read = 0

\* lock_fail: the bits whose presence makes an acquisition of type k fail
Free(st, k) == CASE k = "read"   -> ~st.write
                 [] k = "intent" -> ~st.intent
                 [] k = "write"  -> st.read = 0

\* lock_val added to, and subtracted from, the lock word
Add(st, k) == CASE k = "read"   -> [st EXCEPT !.read = @ + 1]
                [] k = "intent" -> [st EXCEPT !.intent = TRUE]
                [] k = "write"  -> [st EXCEPT !.write = TRUE]

Sub(st, k) == CASE k = "read"   -> [st EXCEPT !.read = @ - 1]
                [] k = "intent" -> [st EXCEPT !.intent = FALSE]
                [] k = "write"  -> [st EXCEPT !.write = FALSE]

\* held_mask: an acquisition of type k is visible in the lock word
Held(st, k) == CASE k = "read"   -> st.read # 0
                 [] k = "intent" -> st.intent
                 [] k = "write"  -> st.write

\* Mutant: an intent unlock looks for readers.
UnlockWakeupReaders(k) == IF k = "read" THEN "write" ELSE "read"

\* The type that an unlock of type k wakes
UnlockWakeup(k) == CASE k = "read"   -> "write"
                     [] k = "intent" -> "intent"
                     [] k = "write"  -> "read"

\* six_lock_wakeup goes past its early returns for the lock word st it was given
NeedsWakeup(st, k) == /\ k \in st.waiting
                      /\ k = "write" => st.read = 0

\* A call of six_lock_wakeup: nothing, or type k to be woken
IfNeeded(st, k) == IF NeedsWakeup(st, k) THEN <<k>> ELSE <<>>

\* A successful __do_six_trylock(k) for task t.  try_lock is FALSE on the
\* slow path, where a writer has set HELD_WRITE beforehand.
Grant(t, k, try_lock) ==
    /\ Free(state, k)
    /\ state' = IF k = "write" /\ ~try_lock THEN state ELSE Add(state, k)
    /\ owner' = IF k = "intent" THEN t ELSE owner
    /\ hold' = [hold EXCEPT ![t][k] = @ + 1]
    /\ UNCHANGED <<seq, recurse>>

\* The caller of an acquisition of type k goes on with the lock held
Enter(k) == version' = IF k = "write" THEN version + 1 ELSE version

-----------------------------------------------------------------------------
(* six_lock_wait_fifo: slots 0 .. size-1, of which the first nr may be used *)

Size(f) == Cardinality(DOMAIN f.data)
Queued(f, k) == {i \in 0 .. f.nr - 1 : f.data[i] # NoTask /\ op[f.data[i]].want = k}
Lowest(S) == CHOOSE i \in S : \A j \in S : i <= j

\* six_lock_wait_fifo_shrink
Shrink(f) ==
    LET nr == Lowest({n \in 0 .. f.nr : \A i \in n .. f.nr - 1 : f.data[i] = NoTask})
    IN  [f EXCEPT !.nr = nr, !.hint = IF @ > nr THEN nr ELSE @]

\* six_lock_wait_fifo_remove
Remove(f, i) == [f EXCEPT !.data[i] = NoTask, !.hint = IF i < @ THEN i ELSE @]

\* The slot six_lock_wait_fifo_insert picks: the hint, or the first free one
FreeSlot(f) ==
    IF f.data[f.hint] = NoTask THEN f.hint
    ELSE Lowest({i \in 0 .. f.nr : i = f.nr \/ f.data[i] = NoTask})

\* six_lock_wait_fifo_insert: the slot array doubles when it is full
Insert(f, t) ==
    LET i    == FreeSlot(f)
        size == IF i = Size(f) THEN 2 * Size(f) ELSE Size(f)
    IN  [data |-> [j \in 0 .. size - 1 |->
                     IF j = i THEN t ELSE IF j < Size(f) THEN f.data[j] ELSE NoTask],
         nr   |-> IF i + 1 > f.nr THEN i + 1 ELSE f.nr,
         hint |-> (i + 1) % size]

\* The waiter a wakeup of intent or write hands the lock to
Oldest(f, k) ==
    CHOOSE i \in Queued(f, k) :
       \A j \in Queued(f, k) \ {i} :
          \/ StartTime[f.data[i]] < StartTime[f.data[j]]
          \/ StartTime[f.data[i]] = StartTime[f.data[j]] /\ i < j

-----------------------------------------------------------------------------
Init ==
    /\ state = [read |-> 0, intent |-> FALSE, write |-> FALSE, waiting |-> {}]
    /\ seq = 0
    /\ owner = NoTask
    /\ recurse = [intent |-> 0, write |-> 0]
    /\ fifo = [data |-> [i \in 0 .. InlineWaiters - 1 |-> NoTask], nr |-> 0, hint |-> 0]
    /\ waitLock = NoTask
    /\ op = [t \in Task |-> Idle]
    /\ hold = [t \in Task |-> NoHold]
    /\ snap = [t \in Task |-> NoSnap]
    /\ version = 0

At(t, l) == op[t].pc = l
Goto(t, l) == op' = [op EXCEPT ![t].pc = l]
Done(t) == op' = [op EXCEPT ![t] = Idle]

\* A blocking acquisition returns, to bch2_btree_node_lock_write if it called
Return(t) == IF op[t].lent # 0 THEN Goto(t, "restore") ELSE Done(t)

\* What the users of the lock observe: a task asks for write only while it
\* owns intent.  The bounds keep the model finite.
MayTake(t, k) ==
    /\ hold[t][k] < MaxRefs
    /\ k = "write" => /\ hold[t].intent # 0
                      /\ hold[t].write = 0
                      /\ seq < MaxSeq

\* six_trylock_type; a failure changes nothing
TryLock(t, k) ==
    /\ At(t, "idle")
    /\ MayTake(t, k)
    /\ Grant(t, k, TRUE)
    /\ Enter(k)
    /\ UNCHANGED <<fifo, waitLock, op, snap>>

\* six_lock_ip_waiter: the fast path, or into __six_lock_slowpath
Acquire(t, k) ==
    /\ \/ /\ Grant(t, k, TRUE)
          /\ Enter(k)
          /\ Return(t)
       \/ /\ ~Free(state, k)
          /\ op' = [op EXCEPT ![t].pc = "slow", ![t].want = k]
          /\ UNCHANGED <<state, seq, owner, recurse, hold, version>>
    /\ UNCHANGED <<fifo, waitLock, snap>>

\* six_lock_type.  A task blocks for read or intent only while it holds
\* nothing (the paths upgrade with trylock), and for write only with none of
\* its own read references in the way.
Lock(t, k) ==
    /\ At(t, "idle")
    /\ MayTake(t, k)
    /\ IF k = "write" THEN hold[t].read = 0 ELSE hold[t] = NoHold
    /\ Acquire(t, k)

\* bch2_btree_node_lock_write: give back the transaction's own read references,
LendReads(t) ==
    /\ At(t, "idle")
    /\ hold[t].read # 0
    /\ MayTake(t, "write")
    /\ state' = [state EXCEPT !.read = @ - hold[t].read]
    /\ hold' = [hold EXCEPT ![t].read = 0]
    /\ op' = [op EXCEPT ![t].pc = "lock_write", ![t].lent = hold[t].read]
    /\ UNCHANGED <<seq, owner, recurse, fifo, waitLock, snap, version>>

\* block for write,
LockLent(t) ==
    /\ At(t, "lock_write")
    /\ Acquire(t, "write")

\* and take them again once write is held
RestoreReads(t) ==
    /\ At(t, "restore")
    /\ state' = [state EXCEPT !.read = @ + op[t].lent]
    /\ hold' = [hold EXCEPT ![t].read = op[t].lent]
    /\ Done(t)
    /\ UNCHANGED <<seq, owner, recurse, fifo, waitLock, snap, version>>

\* __six_lock_slowpath: a writer first shuts out new readers
Slow(t) ==
    /\ At(t, "slow")
    /\ state' = IF op[t].want = "write" THEN Add(state, "write") ELSE state
    /\ Goto(t, "enqueue")
    /\ UNCHANGED <<seq, owner, recurse, fifo, waitLock, hold, snap, version>>

\* wait_lock taken, waiting bit set
Enqueue(t) ==
    /\ At(t, "enqueue")
    /\ waitLock = NoTask
    /\ waitLock' = t
    /\ state' = [state EXCEPT !.waiting = @ \cup {op[t].want}]
    /\ Goto(t, "retry")
    /\ UNCHANGED <<seq, owner, recurse, fifo, hold, snap, version>>

\* One more attempt under wait_lock, then the waiter is queued
Retry(t) ==
    /\ At(t, "retry")
    /\ \/ /\ Grant(t, op[t].want, FALSE)
          /\ Enter(op[t].want)
          /\ Return(t)
          /\ UNCHANGED fifo
       \/ /\ ~Free(state, op[t].want)
          /\ fifo' = Insert(fifo, t)
          /\ op' = [op EXCEPT ![t].pc = "parked", ![t].slot = FreeSlot(fifo)]
          /\ UNCHANGED <<state, seq, owner, recurse, hold, version>>
    /\ waitLock' = NoTask
    /\ UNCHANGED snap

\* The park loop ends when a waker has handed the lock over
Unparked(t) ==
    /\ At(t, "parked")
    /\ op[t].acquired
    /\ Enter(op[t].want)
    /\ Return(t)
    /\ UNCHANGED <<state, seq, owner, recurse, fifo, waitLock, hold, snap>>

\* should_sleep_fn returned an error after a wakeup without the lock
Cancel(t) ==
    /\ t \in Cancellers
    /\ At(t, "parked")
    /\ ~op[t].acquired
    /\ op[t].lent = 0
    /\ Goto(t, "cancel")
    /\ UNCHANGED <<state, seq, owner, recurse, fifo, waitLock, hold, snap, version>>

\* What a task does next when it still has to wake the types in q
WakeNext(q) ==
    IF q = <<>> THEN Idle
    ELSE [Idle EXCEPT !.pc = "wake", !.todo = q]

\* Mutant: a cancelled waiter stays in its slot.
CancelLockedStays(t) ==
    /\ At(t, "cancel")
    /\ waitLock = NoTask
    /\ IF op[t].acquired
       THEN /\ owner' = IF op[t].want = "intent" THEN NoTask ELSE owner
            /\ Goto(t, "release")
       ELSE /\ IF op[t].want = "write" THEN Goto(t, "cancel_write") ELSE Done(t)
            /\ UNCHANGED owner
    /\ UNCHANGED <<state, seq, recurse, fifo, waitLock, hold, snap, version>>

\* The cancelled waiter leaves the queue, or gives back what it was handed
\* meanwhile (do_six_unlock_type: no sequence bump)
CancelLocked(t) ==
    /\ At(t, "cancel")
    /\ waitLock = NoTask
    /\ IF op[t].acquired
       THEN /\ owner' = IF op[t].want = "intent" THEN NoTask ELSE owner
            /\ Goto(t, "release")
            /\ UNCHANGED fifo
       ELSE /\ fifo' = Shrink(Remove(fifo, op[t].slot))
            /\ IF op[t].want = "write" THEN Goto(t, "cancel_write") ELSE Done(t)
            /\ UNCHANGED owner
    /\ UNCHANGED <<state, seq, recurse, waitLock, hold, snap, version>>

\* Mutant: a cancelled writer leaves HELD_WRITE behind.
CancelWriteKept(t) ==
    /\ At(t, "cancel_write")
    /\ Goto(t, "cancel_wake")
    /\ UNCHANGED <<state, seq, owner, recurse, fifo, waitLock, hold, snap, version>>

\* A cancelled writer lets readers in again,
CancelWrite(t) ==
    /\ At(t, "cancel_write")
    /\ state' = Sub(state, "write")
    /\ Goto(t, "cancel_wake")
    /\ UNCHANGED <<seq, owner, recurse, fifo, waitLock, hold, snap, version>>

\* and wakes them
CancelWake(t) ==
    /\ At(t, "cancel_wake")
    /\ op' = [op EXCEPT ![t] = WakeNext(IfNeeded(state, "read"))]
    /\ UNCHANGED <<state, seq, owner, recurse, fifo, waitLock, hold, snap, version>>

\* six_unlock_ip up to the release of the lock word: recursion only counts
\* down; write bumps the sequence number first; intent clears the owner first
UnlockIp(t, k) ==
    /\ IF k # "read" /\ recurse[k] # 0
       THEN /\ recurse' = [recurse EXCEPT ![k] = @ - 1]
            /\ hold' = [hold EXCEPT ![t][k] = @ - 1]
            /\ Done(t)
            /\ UNCHANGED <<seq, owner>>
       ELSE /\ seq' = IF k = "write" THEN seq + 1 ELSE seq
            /\ owner' = IF k = "intent" THEN NoTask ELSE owner
            /\ op' = [op EXCEPT ![t].pc = "release", ![t].want = k]
            /\ UNCHANGED <<recurse, hold>>
    /\ UNCHANGED <<state, fifo, waitLock, snap, version>>

Unlock(t, k) ==
    /\ At(t, "idle")
    /\ hold[t][k] # 0
    /\ k = "intent" => hold[t].intent > hold[t].write
    /\ UnlockIp(t, k)

\* do_six_unlock_type: fetch_sub, then decide on the wakeup from its result
Release(t) ==
    /\ At(t, "release")
    /\ state' = Sub(state, op[t].want)
    /\ hold' = [hold EXCEPT ![t][op[t].want] = @ - 1]
    /\ op' = [op EXCEPT ![t] = WakeNext(IfNeeded(state', UnlockWakeup(op[t].want)))]
    /\ UNCHANGED <<seq, owner, recurse, fifo, waitLock, snap, version>>

\* six_lock_wakeup takes wait_lock
Wake(t) ==
    /\ At(t, "wake")
    /\ waitLock = NoTask
    /\ waitLock' = t
    /\ Goto(t, "scan")
    /\ UNCHANGED <<state, seq, owner, recurse, fifo, hold, snap, version>>

\* __six_lock_wakeup(read): every queued reader in slot order, until one fails
ScanReaders(t) ==
    LET S == {i \in Queued(fifo, "read") : i >= op[t].scan}
        i == Lowest(S)
    IN  IF S # {} /\ Free(state, "read")
        THEN /\ Grant(fifo.data[i], "read", FALSE)
             /\ fifo' = Remove(fifo, i)
             /\ op' = [op EXCEPT ![fifo.data[i]].acquired = TRUE, ![t].scan = i + 1]
             /\ UNCHANGED waitLock
        ELSE /\ Goto(t, "clear")
             /\ UNCHANGED <<state, seq, owner, recurse, hold, fifo, waitLock>>

\* __six_lock_wakeup(intent, write): the oldest waiter only.  With further
\* waiters left the waiting bit stays; in every other case, a failed attempt
\* included, it is cleared next.
ScanOldest(t, k) ==
    LET S == Queued(fifo, k)
        i == Oldest(fifo, k)
    IN  IF S # {} /\ Free(state, k)
        THEN /\ Grant(fifo.data[i], k, FALSE)
             /\ IF Cardinality(S) > 1
                THEN /\ fifo' = Shrink(Remove(fifo, i))
                     /\ waitLock' = NoTask
                     /\ op' = [op EXCEPT ![fifo.data[i]].acquired = TRUE,
                                         ![t] = WakeNext(Tail(op[t].todo))]
                ELSE /\ fifo' = Remove(fifo, i)
                     /\ op' = [op EXCEPT ![fifo.data[i]].acquired = TRUE,
                                         ![t].pc = "clear"]
                     /\ UNCHANGED waitLock
        ELSE /\ Goto(t, "clear")
             /\ UNCHANGED <<state, seq, owner, recurse, hold, fifo, waitLock>>

Scan(t) ==
    /\ At(t, "scan")
    /\ LET k == Head(op[t].todo)
       IN  IF k = "read" THEN ScanReaders(t) ELSE ScanOldest(t, k)
    /\ UNCHANGED <<snap, version>>

\* The waiting bit is cleared and wait_lock released
Clear(t) ==
    /\ At(t, "clear")
    /\ state' = [state EXCEPT !.waiting = @ \ {Head(op[t].todo)}]
    /\ fifo' = Shrink(fifo)
    /\ waitLock' = NoTask
    /\ op' = [op EXCEPT ![t] = WakeNext(Tail(op[t].todo))]
    /\ UNCHANGED <<seq, owner, recurse, hold, snap, version>>

\* six_lock_wakeup_all: the three types, all decided from one look at the word.
\* Its closing unpark of every waiter only makes them test lock_acquired again.
WakeupAll(t) ==
    /\ t \in WakeAllers
    /\ At(t, "idle")
    /\ op' = [op EXCEPT ![t] =
                WakeNext(IfNeeded(state, "read") \o IfNeeded(state, "intent")
                            \o IfNeeded(state, "write"))]
    /\ UNCHANGED <<state, seq, owner, recurse, fifo, waitLock, hold, snap, version>>

\* six_lock_seq, kept by a holder for a later relock
ReadSeq(t) ==
    /\ t \in Relockers
    /\ At(t, "idle")
    /\ hold[t].read + hold[t].intent # 0
    /\ hold[t].write = 0
    /\ snap' = [snap EXCEPT ![t] = [seq |-> seq, version |-> version]]
    /\ UNCHANGED <<state, seq, owner, recurse, fifo, waitLock, op, hold, version>>

\* six_relock_ip: a first look at the sequence number,
Relock(t, k) ==
    /\ At(t, "idle")
    /\ MayTake(t, k)
    /\ snap[t].seq = seq
    /\ op' = [op EXCEPT ![t].pc = "relock_try", ![t].want = k]
    /\ UNCHANGED <<state, seq, owner, recurse, fifo, waitLock, hold, snap, version>>

\* the trylock,
RelockTry(t) ==
    /\ At(t, "relock_try")
    /\ \/ Grant(t, op[t].want, TRUE) /\ Goto(t, "relock")
       \/ /\ ~Free(state, op[t].want)
          /\ Done(t)
          /\ UNCHANGED <<state, seq, owner, recurse, hold>>
    /\ UNCHANGED <<fifo, waitLock, snap, version>>

\* Mutant: the number is not compared again.
RelockOkUnchecked(t) ==
    /\ At(t, "relock")
    /\ Done(t)
    /\ UNCHANGED <<state, seq, owner, recurse, fifo, waitLock, hold, snap, version>>

\* and the second sequence check with the lock held
RelockOk(t) ==
    /\ At(t, "relock")
    /\ snap[t].seq = seq
    /\ Done(t)
    /\ UNCHANGED <<state, seq, owner, recurse, fifo, waitLock, hold, snap, version>>

RelockFail(t) ==
    /\ At(t, "relock")
    /\ snap[t].seq # seq
    /\ UnlockIp(t, op[t].want)

\* six_lock_increment
Increment(t, k) ==
    /\ At(t, "idle")
    /\ k = "read"   => hold[t].read + hold[t].intent # 0
    /\ k = "intent" => hold[t].intent # 0
    /\ k = "write"  => hold[t].write # 0 /\ hold[t].intent < MaxRefs
    /\ hold[t][k] < MaxRefs
    /\ state' = IF k = "read" THEN Add(state, k) ELSE state
    /\ recurse' = CASE k = "read"   -> recurse
                    [] k = "intent" -> [recurse EXCEPT !.intent = @ + 1]
                    [] k = "write"  -> [intent |-> recurse.intent + 1,
                                        write  |-> recurse.write + 1]
    /\ hold' = CASE k = "write" -> [hold EXCEPT ![t].write = @ + 1, ![t].intent = @ + 1]
                 [] OTHER       -> [hold EXCEPT ![t][k] = @ + 1]
    /\ UNCHANGED <<seq, owner, fifo, waitLock, op, snap, version>>

\* six_lock_downgrade: a read reference first, then six_unlock_type(intent)
Downgrade(t) ==
    /\ At(t, "idle")
    /\ hold[t].intent # 0
    /\ hold[t].write = 0
    /\ hold[t].read < MaxRefs
    /\ state' = Add(state, "read")
    /\ hold' = [hold EXCEPT ![t].read = @ + 1]
    /\ Goto(t, "unlock")
    /\ UNCHANGED <<seq, owner, recurse, fifo, waitLock, snap, version>>

DowngradeUnlock(t) ==
    /\ At(t, "unlock")
    /\ UnlockIp(t, "intent")

\* six_lock_tryupgrade: one compare_exchange from read to intent
TryUpgrade(t) ==
    /\ At(t, "idle")
    /\ hold[t].read # 0
    /\ hold[t].intent < MaxRefs
    /\ ~state.intent
    /\ state' = [Sub(state, "read") EXCEPT !.intent = TRUE]
    /\ owner' = t
    /\ hold' = [hold EXCEPT ![t].read = @ - 1, ![t].intent = @ + 1]
    /\ UNCHANGED <<seq, recurse, fifo, waitLock, op, snap, version>>

-----------------------------------------------------------------------------
\* What a task does once it has called; none of these waits for a caller
Step(t) ==
    \/ LockLent(t) \/ RestoreReads(t) \/ Slow(t) \/ Enqueue(t) \/ Retry(t) \/ Unparked(t)
    \/ CancelLocked(t) \/ CancelWrite(t) \/ CancelWake(t)
    \/ Release(t) \/ Wake(t) \/ Scan(t) \/ Clear(t)
    \/ RelockTry(t) \/ RelockOk(t) \/ RelockFail(t) \/ DowngradeUnlock(t)

Call(t) ==
    \/ \E k \in Type : TryLock(t, k) \/ Lock(t, k) \/ Unlock(t, k) \/ Increment(t, k)
    \/ \E k \in {"read", "intent"} : Relock(t, k)
    \/ LendReads(t) \/ Cancel(t) \/ WakeupAll(t) \/ ReadSeq(t) \/ Downgrade(t) \/ TryUpgrade(t)

Next == \E t \in Task : Step(t) \/ Call(t)

Spec == Init /\ [][Next]_vars

\* Threads keep running, and whoever has a reference of some type eventually
\* unlocks it: every caller in btree/ does.
Fairness ==
    \A t \in Task : WF_vars(Step(t)) /\ \A k \in Type : SF_vars(Unlock(t, k))

FairSpec == Spec /\ Fairness

-----------------------------------------------------------------------------
\* The waiters of type k that are queued and have not been handed the lock
Waiting(k) == {t \in Task : /\ op[t].pc \in {"parked", "cancel"}
                            /\ ~op[t].acquired
                            /\ op[t].want = k}

\* The tasks that have decided to wake type k and have not yet done so
Wakers(k) == {t \in Task : /\ op[t].pc \in {"wake", "scan"}
                           /\ \E i \in DOMAIN op[t].todo : op[t].todo[i] = k}

\* Every variable has its type.
TypeOK ==
    /\ state \in Word
    /\ seq \in Nat
    /\ owner \in Task \cup {NoTask}
    /\ recurse \in [intent : Nat, write : Nat]
    /\ waitLock \in Task \cup {NoTask}
    /\ op \in [Task -> Operation]
    /\ hold \in [Task -> References]
    /\ snap \in [Task -> [seq : Int, version : Nat]]
    /\ version \in Nat

\* A task that has write excludes every other task's read, intent and write
\* references, and intent excludes intent (lock_fail, the pending HELD_WRITE
\* of the slow path, the hand-over by wakers, and readers_add together).
MutualExclusion ==
    \A t, u \in Task :
       t # u => /\ hold[t].write # 0 => hold[u] = NoHold
                /\ hold[t].intent # 0 => hold[u].intent = 0

\* No assert of six.rs fails: the owner cell is empty when intent is free
\* (six_set_owner), a write attempt is made by the intent owner with HELD_WRITE
\* clear on the fast path and set for a queued writer (__do_six_trylock), the
\* type being released is held (do_six_unlock_type) and an unlock of intent or
\* write is made by the owner (six_unlock_ip).
AssertsHold ==
    /\ ~state.intent => owner = NoTask
    /\ \A t \in Task :
          /\ hold[t].intent # 0 /\ op[t].pc # "release" => owner = t /\ state.intent
          /\ hold[t].write = 0 /\ At(t, "idle") /\ owner = t => ~state.write
          /\ At(t, "slow") /\ op[t].want = "write" => ~state.write /\ owner = t
          /\ At(t, "release") => Held(state, op[t].want)
    /\ \A t \in Waiting("write") : owner = t /\ state.write

\* A queued waiter sits in the slot its slot_idx names, so that a cancellation
\* removes itself and nobody else, no insertion overwrites a waiter, and the
\* slots from nr on are empty, so that no wakeup overlooks one.
QueueConsistent ==
    /\ fifo.nr <= Size(fifo) /\ fifo.hint <= fifo.nr /\ fifo.hint < Size(fifo)
    /\ \A i \in DOMAIN fifo.data :
          fifo.data[i] # NoTask =>
             i < fifo.nr /\ op[fifo.data[i]].slot = i
    /\ {fifo.data[i] : i \in DOMAIN fifo.data} \ {NoTask} = UNION {Waiting(k) : k \in Type}

\* six_relock_ip succeeds only if nobody has had write since the sequence
\* number was read: what the task saw then is still what the node holds.
RelockSound ==
    [][\A t \in Task : RelockOk(t) => version = snap[t].version]_vars

\* A writer that waits for readers is woken when the last one has gone: with
\* no reader left, some task is on its way to hand it the lock.
WriterWoken == Waiting("write") # {} /\ state.read = 0 => Wakers("write") # {}

\* Every blocked acquisition, of any type, returns.
WaiterReturns == \A t \in Task : At(t, "parked") ~> ~At(t, "parked")
=============================================================================
