-------------------------- MODULE SixLockInvariant --------------------------
(***************************************************************************)
(* The inductive invariant of SixLock, and the lemmas its proof rests on:  *)
(* counting read references, the slots of the wait queue, what a step      *)
(* leaves alone, the steps that change no reference, the lending of reads  *)
(* and the start of an unlock.                                             *)
(*                                                                         *)
(* IInv ties the lock word to the references the tasks have: the reader    *)
(* count is the number of read references, HELD_INTENT says that one task  *)
(* has intent, and HELD_WRITE that one task has write or is waiting for it *)
(* with intent held.                                                       *)
(***************************************************************************)
EXTENDS SixLock, FiniteSetTheorems, WellFoundedInduction, TLAPS

-----------------------------------------------------------------------------
(* The inductive invariant *)

\* The read references of all tasks, one pair each
Refs(h) == UNION {{t} \X (1 .. h[t].read) : t \in Task}

\* The wait queues of n slots
FifosOf(n) == [data : [0 .. n - 1 -> Task \cup {NoTask}], nr : 0 .. n, hint : 0 .. n - 1]

Fifos == UNION {FifosOf(n) : n \in Nat \ {0}}

FifoType == fifo \in Fifos

\* The reader count of the lock word is the number of read references.
Counted == IsFiniteSet(Refs(hold)) /\ state.read = Cardinality(Refs(hold))

\* HELD_INTENT, and the recursion count of the task that has it
IntentInv ==
    /\ state.intent <=> \E t \in Task : hold[t].intent # 0
    /\ \A t, u \in Task : t # u /\ hold[t].intent # 0 => hold[u].intent = 0
    /\ \A t \in Task : hold[t].intent # 0 => hold[t].intent = recurse.intent + 1
    /\ ~state.intent => recurse.intent = 0

\* HELD_WRITE, and the recursion count of the task that has it
WriteInv ==
    /\ \A t \in Task :
          hold[t].write # 0 =>
             /\ state.write
             /\ hold[t].intent # 0
             /\ hold[t].write = recurse.write + 1
             /\ \A u \in Task \ {t} : hold[u].read = 0
    /\ (\A t \in Task : hold[t].write = 0) => recurse.write = 0

\* A task between its setting of HELD_WRITE and the grant
Pending(t) ==
    /\ op[t].want = "write"
    /\ ~op[t].acquired
    /\ op[t].pc \in {"enqueue", "retry", "parked", "cancel", "cancel_write"}

PendingInv == state.write => \E t \in Task : hold[t].write # 0 \/ Pending(t)

\* What a task has at each point of its operation
OpOk(t) ==
    /\ Pending(t) => state.write /\ hold[t].intent # 0 /\ hold[t].write = 0
    /\ At(t, "slow") /\ op[t].want = "write" => hold[t].intent # 0 /\ hold[t].write = 0
    /\ At(t, "lock_write") =>
          hold[t].intent # 0 /\ hold[t].write = 0 /\ hold[t].read = 0
    /\ At(t, "restore") => hold[t].write # 0 /\ hold[t].read = 0
    /\ op[t].lent # 0 =>
          \/ op[t].pc \in {"lock_write", "restore"}
          \/ /\ op[t].pc \in {"slow", "enqueue", "retry", "parked"}
             /\ op[t].want = "write"
             /\ hold[t].read = 0
    /\ op[t].acquired => op[t].pc \in {"parked", "cancel", "release", "restore"}
    /\ op[t].acquired \/ At(t, "release") =>
          /\ hold[t][op[t].want] # 0
          /\ op[t].want # "read" => recurse[op[t].want] = 0
          /\ op[t].want = "intent" => hold[t].write = 0
    /\ At(t, "cancel_write") => Pending(t)
    /\ op[t].pc \in {"relock_try", "relock"} => op[t].want # "write"
    /\ At(t, "relock") =>
          /\ hold[t][op[t].want] # 0
          /\ op[t].want = "intent" => hold[t].write = 0
    /\ At(t, "unlock") => hold[t].intent # 0 /\ hold[t].write = 0
    /\ op[t].pc \in {"wake", "scan", "clear"} => op[t].todo # <<>>

OpInv == \A t \in Task : OpOk(t)

\* A slot holds a parked waiter that has not been handed the lock, and the
\* waiter knows its slot.
QueueInv ==
    \A i \in DOMAIN fifo.data :
       LET w == fifo.data[i]
       IN  w # NoTask => /\ op[w].pc \in {"parked", "cancel"}
                         /\ ~op[w].acquired
                         /\ op[w].slot = i

\* The owner cell names the task that has intent, from the grant until the
\* unlock empties it.
OwnerInv ==
    \A t \in Task :
       owner = t <=> /\ hold[t].intent # 0
                     /\ ~(At(t, "release") /\ op[t].want = "intent")

IInv == /\ TypeOK /\ FifoType
        /\ Counted /\ IntentInv /\ WriteInv
        /\ PendingInv /\ OpInv /\ QueueInv /\ OwnerInv

-----------------------------------------------------------------------------
(* Least elements *)

\* Lowest picks the least element of a set of naturals (the slot loops of
\* six_lock_wait_fifo_insert, six_lock_wait_fifo_shrink and __six_lock_wakeup).
LEMMA LowestIsLeast ==
    ASSUME NEW S \in SUBSET Nat, S # {}
    PROVE  Lowest(S) \in S /\ \A j \in S : Lowest(S) <= j
<1> DEFINE L == OpToRel(<, Nat)
<1>1. IsWellFoundedOn(L, Nat)
    BY NatLessThanWellFounded, Zenon
<1>2. \A x, y \in Nat : <<y, x>> \in L <=> y < x
    BY DEF OpToRel
<1>3. PICK R : IsWellFoundedOn(R, Nat) /\ \A x, y \in Nat : <<y, x>> \in R <=> y < x
    BY <1>1, <1>2, Zenon
<1>4. PICK x \in S : \A y \in S : ~(<<y, x>> \in R)
    BY <1>3, WFMin, Zenon
<1>5. \A y \in S : x <= y
  <2> TAKE y \in S
  <2>1. x \in Nat /\ y \in Nat /\ ~(y < x)
    BY <1>3, <1>4, Zenon
  <2> QED
    BY <2>1
<1> QED
    BY <1>5, Zenon DEF Lowest

\* The waiter a wakeup hands the lock to is one of the queued ones: among the
\* waiters of the least start time there is one in the lowest slot.
LEMMA OldestIsQueued ==
    ASSUME TypeOK, FifoType, NEW k \in Type, Queued(fifo, k) # {},
           \A i \in Queued(fifo, k) : fifo.data[i] \in Task
    PROVE  Oldest(fifo, k) \in Queued(fifo, k)
<1> DEFINE S == Queued(fifo, k)
           T(i) == StartTime[fifo.data[i]]
           Times == {T(i) : i \in S}
           First == {i \in S : T(i) = Lowest(Times)}
<1>1. S \in SUBSET Nat
    BY DEF Queued
<1>2. \A i \in S : T(i) \in Nat
    BY SixAssumption
<1>3. Lowest(Times) \in Times /\ \A j \in Times : Lowest(Times) <= j
  <2>1. Times \in SUBSET Nat /\ Times # {}
    BY <1>2
  <2> HIDE DEF Times
  <2> QED
    BY <2>1, LowestIsLeast
<1>4. First \in SUBSET Nat /\ First # {}
    BY <1>1, <1>3, Zenon
<1>5. Lowest(First) \in First /\ \A j \in First : Lowest(First) <= j
  <2> HIDE DEF First
  <2> QED
    BY <1>4, LowestIsLeast
<1>6. \A j \in S \ {Lowest(First)} :
         \/ T(Lowest(First)) < T(j)
         \/ T(Lowest(First)) = T(j) /\ Lowest(First) < j
  <2> SUFFICES ASSUME NEW j \in S \ {Lowest(First)}
               PROVE  \/ T(Lowest(First)) < T(j)
                      \/ T(Lowest(First)) = T(j) /\ Lowest(First) < j
    BY ZenonT(40)
  <2>1. T(Lowest(First)) = Lowest(Times) /\ Lowest(Times) <= T(j)
    BY <1>3, <1>5
  <2>2. T(j) = Lowest(Times) => Lowest(First) <= j
    BY <1>5
  <2>3. Lowest(First) \in Nat /\ j \in Nat /\ Lowest(First) # j
    BY <1>1, <1>5
  <2>4. Lowest(Times) \in Nat /\ T(j) \in Nat
    BY <1>2, <1>3, SMTT(30), ZenonT(40)
  <2> HIDE DEF Times, First, T
  <2> QED
    BY <2>1, <2>2, <2>3, <2>4
<1>7. \E i \in S : \A j \in S \ {i} : T(i) < T(j) \/ (T(i) = T(j) /\ i < j)
    BY <1>5, <1>6, Zenon
<1> QED
    BY <1>7 DEF Oldest

-----------------------------------------------------------------------------
(* Counting read references *)

Holds == [Task -> References]

\* Which pairs are references
LEMMA RefsMember ==
    ASSUME NEW h \in Holds, NEW t \in Task, NEW i
    PROVE  <<t, i>> \in Refs(h) <=> i \in 1 .. h[t].read
BY DEF Refs, Holds, References

\* The n references a task takes after its first m
Block(t, m, n) == {t} \X (m + 1 .. m + n)

\* A block of n references has n members.
LEMMA BlockSize ==
    ASSUME NEW t, NEW m \in Nat, NEW n \in Nat
    PROVE  IsFiniteSet(Block(t, m, n)) /\ Cardinality(Block(t, m, n)) = n
<1> DEFINE I == m + 1 .. m + n
           B == {t} \X I
           f == [i \in I |-> <<t, i>>]
<1>1. IsFiniteSet(I) /\ Cardinality(I) = n
    BY FS_Interval
<1>2. f \in Bijection(I, B)
  <2>1. f \in [I -> B] /\ \A a, b \in I : f[a] = f[b] => a = b
    OBVIOUS
  <2>2. \A p \in B : \E i \in I : f[i] = p
    OBVIOUS
  <2> QED
    BY <2>1, <2>2, Zenon DEF Bijection, Injection, Surjection, IsInjective
<1>3. ExistsBijection(I, B)
    BY <1>2, Zenon DEF ExistsBijection
<1> QED
    BY <1>1, <1>3, FS_Bijection DEF Block

\* A task takes n more read references: the count grows by n.
LEMMA RefsAdded ==
    ASSUME NEW h \in Holds, NEW g \in Holds, NEW t \in Task, NEW n \in Nat,
           g[t].read = h[t].read + n,
           \A u \in Task \ {t} : g[u].read = h[u].read,
           IsFiniteSet(Refs(h))
    PROVE  /\ IsFiniteSet(Refs(g))
           /\ Cardinality(Refs(g)) = Cardinality(Refs(h)) + n
<1> DEFINE B == Block(t, h[t].read, n)
<1>1. h[t].read \in Nat
    BY DEF Holds, References
<1>2. IsFiniteSet(B) /\ Cardinality(B) = n
    BY <1>1, BlockSize
<1>3. Refs(g) = Refs(h) \cup B
    BY <1>1 DEF Refs, Holds, References, Block
<1>4. Refs(h) \cap B = {}
    BY <1>1 DEF Refs, Holds, References, Block
<1>5. Cardinality(Refs(h)) \in Nat
    BY FS_CardinalityType
<1> HIDE DEF B
<1>6. /\ IsFiniteSet(Refs(h) \cup B)
      /\ Cardinality(Refs(h) \cup B) = Cardinality(Refs(h)) + n - Cardinality(Refs(h) \cap B)
    BY <1>2, FS_Union
<1>7. Cardinality(Refs(h) \cap B) = 0
    BY <1>4, FS_EmptySet
<1> QED
    BY <1>3, <1>5, <1>6, <1>7

\* A task gives n read references back: the count shrinks by n.
LEMMA RefsRemoved ==
    ASSUME NEW h \in Holds, NEW g \in Holds, NEW t \in Task, NEW n \in Nat,
           h[t].read = g[t].read + n,
           \A u \in Task \ {t} : g[u].read = h[u].read,
           IsFiniteSet(Refs(h))
    PROVE  /\ IsFiniteSet(Refs(g))
           /\ Cardinality(Refs(h)) = Cardinality(Refs(g)) + n
           /\ Cardinality(Refs(g)) \in Nat
<1>1. Refs(g) \subseteq Refs(h)
    BY DEF Refs, Holds, References
<1>2. IsFiniteSet(Refs(g))
    BY <1>1, FS_Subset
<1> QED
    BY <1>2, RefsAdded, FS_CardinalityType

\* References of the other types do not count.
LEMMA RefsSame ==
    ASSUME NEW h \in Holds, NEW g \in Holds,
           \A u \in Task : g[u].read = h[u].read
    PROVE  Refs(g) = Refs(h)
BY DEF Refs, Holds, References

\* The count is zero only if no task has a read reference.
LEMMA NoReaders ==
    ASSUME TypeOK, Counted
    PROVE  state.read = 0 <=> \A t \in Task : hold[t].read = 0
<1>1. hold \in Holds
    BY DEF TypeOK, Holds
<1>2. Refs(hold) = {} <=> \A t \in Task : hold[t].read = 0
  <2>1. ASSUME NEW t \in Task, hold[t].read # 0
        PROVE  <<t, 1>> \in Refs(hold)
    BY <1>1, <2>1, RefsMember DEF Holds, References
  <2>2. ASSUME \A t \in Task : hold[t].read = 0
        PROVE  Refs(hold) = {}
    BY <1>1, <2>2 DEF Refs, Holds, References
  <2> QED
    BY <2>1, <2>2, Zenon
<1> QED
    BY <1>2, FS_EmptySet DEF Counted

-----------------------------------------------------------------------------
(* The wait slots *)

\* What a wait queue is made of
LEMMA FifoFacts ==
    ASSUME NEW f \in Fifos
    PROVE  /\ \A i \in DOMAIN f.data : f.data[i] \in Task \cup {NoTask}
           /\ \A i \in 0 .. f.nr - 1 : i \in DOMAIN f.data
           /\ f.nr \in Nat /\ f.hint \in Nat
           /\ DOMAIN f.data \in SUBSET Nat
<1>1. PICK n \in Nat \ {0} : f \in FifosOf(n)
    BY DEF Fifos
<1> QED
    BY <1>1 DEF FifosOf

\* six_lock_wait_fifo_shrink leaves the slots alone.
LEMMA ShrinkSlots ==
    ASSUME NEW f \in Fifos
    PROVE  Shrink(f) \in Fifos /\ Shrink(f).data = f.data
<1> DEFINE S == {n \in 0 .. f.nr : \A i \in n .. f.nr - 1 : f.data[i] = NoTask}
<1>1. PICK n \in Nat \ {0} : f \in FifosOf(n)
    BY DEF Fifos
<1>2. f.nr \in S /\ S \in SUBSET Nat /\ \A m \in S : m \in 0 .. f.nr
    BY <1>1 DEF FifosOf
<1>3. Lowest(S) \in 0 .. f.nr
  <2> HIDE DEF S
  <2> QED
    BY <1>2, LowestIsLeast, Zenon
<1>4. Shrink(f) = [f EXCEPT !.nr = Lowest(S),
                            !.hint = IF @ > Lowest(S) THEN Lowest(S) ELSE @]
    BY DEF Shrink
<1> HIDE DEF S
<1>5. Shrink(f) \in FifosOf(n) /\ Shrink(f).data = f.data
  <2> DEFINE m == Lowest(S)
             h == IF f.hint > m THEN m ELSE f.hint
  <2>1. m \in 0 .. n /\ h \in 0 .. n - 1
    BY <1>1, <1>3 DEF FifosOf
  <2>2. Shrink(f) = [f EXCEPT !.nr = m, !.hint = h]
    BY <1>1, <1>4 DEF FifosOf
  <2> HIDE DEF m, h
  <2> QED
    BY <1>1, <2>1, <2>2, Zenon DEF FifosOf
<1> QED
    BY <1>5 DEF Fifos

\* six_lock_wait_fifo_remove empties one slot.
LEMMA RemoveSlot ==
    ASSUME NEW f \in Fifos, NEW i \in Nat
    PROVE  /\ Remove(f, i) \in Fifos
           /\ DOMAIN Remove(f, i).data = DOMAIN f.data
           /\ \A j \in DOMAIN f.data :
                 Remove(f, i).data[j] = IF j = i THEN NoTask ELSE f.data[j]
<1>1. PICK n \in Nat \ {0} : f \in FifosOf(n)
    BY DEF Fifos
<1>2. Remove(f, i) = [f EXCEPT !.data = [f.data EXCEPT ![i] = NoTask],
                               !.hint = IF i < @ THEN i ELSE @]
    BY <1>1 DEF Remove, FifosOf
<1>3. [f.data EXCEPT ![i] = NoTask] \in [0 .. n - 1 -> Task \cup {NoTask}]
    BY <1>1, Zenon DEF FifosOf
<1>4. Remove(f, i) \in FifosOf(n)
  <2> DEFINE d == [f.data EXCEPT ![i] = NoTask]
             h == IF i < f.hint THEN i ELSE f.hint
  <2>1. h \in 0 .. n - 1
    BY <1>1 DEF FifosOf
  <2>2. Remove(f, i) = [f EXCEPT !.data = d, !.hint = h]
    BY <1>1, <1>2 DEF FifosOf
  <2> HIDE DEF d, h
  <2>3. d \in [0 .. n - 1 -> Task \cup {NoTask}]
    BY <1>3 DEF d
  <2> QED
    BY <1>1, <2>1, <2>2, <2>3, Zenon DEF FifosOf
<1> QED
    BY <1>1, <1>2, <1>4 DEF Fifos, FifosOf

\* six_lock_wait_fifo_insert puts the task in one slot; every other slot is
\* empty or as before.
LEMMA InsertSlot ==
    ASSUME NEW f \in Fifos, NEW t \in Task
    PROVE  /\ FreeSlot(f) \in Nat
           /\ Insert(f, t) \in Fifos
           /\ \A j \in DOMAIN Insert(f, t).data :
                 \/ j = FreeSlot(f) /\ Insert(f, t).data[j] = t
                 \/ Insert(f, t).data[j] = NoTask
                 \/ j \in DOMAIN f.data /\ Insert(f, t).data[j] = f.data[j]
<1>1. PICK n \in Nat \ {0} : f \in FifosOf(n)
    BY DEF Fifos
<1>2. Size(f) = n /\ DOMAIN f.data = 0 .. n - 1
  <2>1. Cardinality(0 .. n - 1) = n
    BY FS_Interval
  <2>2. DOMAIN f.data = 0 .. n - 1
    BY <1>1 DEF FifosOf
  <2> QED
    BY <2>1, <2>2 DEF Size
<1>3. FreeSlot(f) \in 0 .. n
  <2> DEFINE S == {i \in 0 .. f.nr : i = f.nr \/ f.data[i] = NoTask}
  <2>1. f.nr \in S /\ S \in SUBSET Nat /\ \A m \in S : m \in 0 .. n
    BY <1>1 DEF FifosOf
  <2>2. Lowest(S) \in 0 .. n
    <3> HIDE DEF S
    <3> QED
      BY <2>1, LowestIsLeast, ZenonT(40)
  <2> QED
    BY <1>1, <2>2 DEF FreeSlot, FifosOf
<1> DEFINE i    == FreeSlot(f)
           size == IF i = n THEN 2 * n ELSE n
           d    == [j \in 0 .. size - 1 |->
                      IF j = i THEN t ELSE IF j < n THEN f.data[j] ELSE NoTask]
<1>4. Insert(f, t) = [data |-> d, nr |-> IF i + 1 > f.nr THEN i + 1 ELSE f.nr,
                      hint |-> (i + 1) % size]
    BY <1>2 DEF Insert
<1>5. size \in Nat \ {0} /\ f.nr \in 0 .. n /\ i \in 0 .. n /\ i < size /\ n <= size
    BY <1>1, <1>3 DEF FifosOf
<1>6. d \in [0 .. size - 1 -> Task \cup {NoTask}]
    BY <1>1, <1>5 DEF FifosOf
<1>7. \A j \in 0 .. size - 1 :
         \/ j = i /\ d[j] = t
         \/ d[j] = NoTask
         \/ j \in 0 .. n - 1 /\ d[j] = f.data[j]
    BY <1>1, <1>5
<1> HIDE DEF i, size, d
<1>8. (i + 1) % size \in 0 .. size - 1
    BY <1>5
<1>9. Insert(f, t) \in FifosOf(size)
    BY <1>4, <1>5, <1>6, <1>8 DEF FifosOf
<1> QED
    BY <1>2, <1>3, <1>4, <1>5, <1>6, <1>7, <1>9 DEF i, Fifos

-----------------------------------------------------------------------------
(* Frames: what a step leaves alone *)

\* A task that a step does not touch keeps its part of the invariant, if the
\* step leaves alone the recursion counts of what the task has, and HELD_WRITE
\* if the task has set it.
LEMMA OpFrame ==
    ASSUME NEW u \in Task, OpOk(u), op \in [Task -> Operation],
           op'[u] = op[u], hold'[u] = hold[u],
           \A k \in {"intent", "write"} : hold[u][k] # 0 => recurse'[k] = recurse[k],
           Pending(u) => state'.write
    PROVE  OpOk(u)'
<1>1. op[u].want \in {"read", "intent", "write"}
    BY DEF Operation, Type
<1> QED
    BY <1>1 DEF OpOk, Pending, At

\* A step that moves only task t, which is not queued or stays queued, keeps
\* the queue's part of the invariant.
LEMMA QueueFrame ==
    ASSUME NEW t \in Task, QueueInv, FifoType, fifo' = fifo,
           \A u \in Task \ {t} : op'[u] = op[u],
           \/ op[t].pc \notin {"parked", "cancel"}
           \/ op[t].acquired
           \/ /\ op'[t].pc \in {"parked", "cancel"}
              /\ ~op'[t].acquired
              /\ op'[t].slot = op[t].slot
    PROVE  QueueInv'
<1>1. \A i \in DOMAIN fifo.data : fifo.data[i] \in Task \cup {NoTask}
    BY FifoFacts DEF FifoType
<1> QED
    BY <1>1 DEF QueueInv

\* A step that changes neither the references nor the bits that count them.
LEMMA CoreFrame ==
    ASSUME Counted, IntentInv, WriteInv, hold' = hold, recurse' = recurse,
           state'.read = state.read, state'.intent = state.intent,
           state.write => state'.write
    PROVE  Counted' /\ IntentInv' /\ WriteInv'
<1>1. Counted'
    BY DEF Counted, Refs
<1>2. IntentInv' /\ WriteInv'
    BY DEF IntentInv, WriteInv
<1> QED
    BY <1>1, <1>2

\* A step of t that moves t only.
LEMMA QuietStep ==
    ASSUME IInv, NEW t \in Task, TypeOK', FifoType',
           hold' = hold, recurse' = recurse, owner' = owner,
           state'.read = state.read, state'.intent = state.intent,
           state'.write = state.write,
           \A u \in Task \ {t} : op'[u] = op[u],
           OpOk(t)', Pending(t) => Pending(t)',
           At(t, "release") /\ op[t].want = "intent"
              <=> op'[t].pc = "release" /\ op'[t].want = "intent",
           QueueInv'
    PROVE  IInv'
<1>1. Counted' /\ IntentInv' /\ WriteInv'
    BY CoreFrame DEF IInv
<1>2. PendingInv'
    BY DEF IInv, PendingInv, Pending
<1>3. OpInv'
  <2>1. \A u \in Task \ {t} : OpOk(u)'
    BY OpFrame, ZenonT(40) DEF IInv, OpInv, TypeOK, OpOk
  <2> QED
    BY <2>1, SMTT(30), ZenonT(40) DEF OpInv
<1>4. OwnerInv'
    BY SMTT(30), ZenonT(40) DEF IInv, OwnerInv, At
<1> QED
    BY <1>1, <1>2, <1>3, <1>4 DEF IInv

-----------------------------------------------------------------------------
(* Types *)

\* The operations that the steps build are operations.
LEMMA Typed ==
    /\ Idle \in Operation
    /\ \A q \in Seq(Type) : WakeNext(q) \in Operation
    /\ \A r \in Operation, l \in PC : [r EXCEPT !.pc = l] \in Operation
    /\ \A r \in Operation, l \in PC, k \in Type :
          [r EXCEPT !.pc = l, !.want = k] \in Operation
<1>1. Idle \in Operation
    BY DEF Idle, Operation, PC, Type
<1>2. ASSUME NEW q \in Seq(Type) PROVE WakeNext(q) \in Operation
    BY <1>1, Zenon DEF WakeNext, Idle, Operation, PC, Type
<1>3. \A r \in Operation, l \in PC : [r EXCEPT !.pc = l] \in Operation
    BY DEF Operation
<1>4. \A r \in Operation, l \in PC, k \in Type :
          [r EXCEPT !.pc = l, !.want = k] \in Operation
    BY Zenon DEF Operation
<1> QED
    BY <1>1, <1>2, <1>3, <1>4, ZenonT(40)

\* What the invariant says of one task
LEMMA TaskFacts ==
    ASSUME IInv, NEW t \in Task
    PROVE  /\ OpOk(t) /\ op[t] \in Operation /\ hold[t] \in References
           /\ op[t].want \in Type /\ op[t].lent \in Nat /\ op[t].todo \in Seq(Type)
           /\ op[t].acquired \in BOOLEAN /\ op[t].slot \in Nat /\ op[t].scan \in Nat
<1>1. OpOk(t) /\ op[t] \in Operation /\ hold[t] \in References
    BY DEF IInv, OpInv, TypeOK
<1> QED
    BY <1>1 DEF Operation

\* The labels of the steps below
LEMMA Labels ==
    /\ "slow" \in PC /\ "enqueue" \in PC /\ "retry" \in PC /\ "parked" \in PC
    /\ "cancel" \in PC /\ "cancel_write" \in PC /\ "cancel_wake" \in PC
    /\ "release" \in PC /\ "scan" \in PC /\ "clear" \in PC /\ "relock_try" \in PC
    /\ "relock" \in PC /\ "restore" \in PC /\ "unlock" \in PC /\ "lock_write" \in PC
BY DEF PC

\* Beside the task that has intent no other has intent or write, or waits for
\* write.
LEMMA SoleIntent ==
    ASSUME IInv, NEW t \in Task, hold[t].intent # 0
    PROVE  \A u \in Task \ {t} : hold[u].intent = 0 /\ hold[u].write = 0 /\ ~Pending(u)
<1> TAKE u \in Task \ {t}
<1>1. hold[u].intent = 0
    BY DEF IInv, IntentInv
<1>2. hold[u].write = 0
    BY <1>1 DEF IInv, WriteInv
<1>3. OpOk(u)
    BY TaskFacts
<1>4. ~Pending(u)
    BY <1>1, <1>3 DEF OpOk
<1> QED
    BY <1>1, <1>2, <1>4

-----------------------------------------------------------------------------
(* Init *)

\* A fresh lock (six_lock_init) satisfies the invariant.
LEMMA InitIInv == Init => IInv
<1> SUFFICES ASSUME Init PROVE IInv
    BY SMTT(30), ZenonT(40)
<1> USE SixAssumption
<1>1. TypeOK
  <2>1. NoHold \in References /\ NoSnap \in [seq : Int, version : Nat]
    BY DEF NoHold, NoSnap, References
  <2>2. state \in Word
    BY DEF Init, Word
  <2> QED
    BY <2>1, <2>2, Typed, Zenon DEF Init, TypeOK
<1>2. FifoType
  <2>1. fifo \in FifosOf(InlineWaiters)
    BY DEF Init, FifosOf
  <2> QED
    BY <2>1 DEF FifoType, Fifos
<1>3. Counted
  <2>1. Refs(hold) = {}
    BY DEF Init, Refs, NoHold
  <2> QED
    BY <2>1, FS_EmptySet, Zenon DEF Counted, Init
<1>4. IntentInv /\ WriteInv /\ PendingInv /\ OwnerInv
    BY DEF Init, IntentInv, WriteInv, PendingInv, OwnerInv, NoHold
<1>5. OpInv /\ QueueInv
    BY DEF Init, OpInv, OpOk, QueueInv, Pending, At, Idle, NoHold
<1> QED
    BY <1>1, <1>2, <1>3, <1>4, <1>5 DEF IInv

-----------------------------------------------------------------------------
(* Steps that move one task and leave the references alone *)

\* Enqueue sets a waiting bit, which nothing else in the invariant reads.
LEMMA EnqueueIInv ==
    ASSUME IInv, NEW t \in Task, Enqueue(t) PROVE IInv'
<1> USE DEF IInv
<1>1. op' = [op EXCEPT ![t] = [op[t] EXCEPT !.pc = "retry"]]
    BY SMTT(30), ZenonT(40) DEF Enqueue, Goto, TypeOK
<1>2. TypeOK' /\ FifoType'
  <2>1. "retry" \in PC /\ state' \in Word
    BY TaskFacts, Labels, Zenon DEF Enqueue, TypeOK, Word
  <2> QED
    BY <1>1, <2>1, Typed, Zenon DEF Enqueue, TypeOK, FifoType
<1>3. op[t] \in Operation /\ op'[t] = [op[t] EXCEPT !.pc = "retry"]
      /\ \A u \in Task \ {t} : op'[u] = op[u]
    BY <1>1 DEF TypeOK
<1>4. OpOk(t) /\ At(t, "enqueue") /\ hold' = hold /\ recurse' = recurse
      /\ state'.read = state.read /\ state'.intent = state.intent /\ state'.write = state.write
    BY DEF Enqueue, OpInv, TypeOK, Word
<1>5. OpOk(t)' /\ (Pending(t) => Pending(t)')
    BY <1>3, <1>4 DEF OpOk, Pending, At, Operation
<1>6. QueueInv'
    BY <1>3, <1>4, QueueFrame DEF Enqueue, At
<1> QED
    BY <1>2, <1>3, <1>4, <1>5, <1>6, QuietStep DEF Enqueue, At, Operation

\* A task with nothing left to do, or about to wake the types in a queue.
LEMMA RestOk ==
    ASSUME NEW t \in Task, NEW q \in Seq(Type), op'[t] = WakeNext(q)
    PROVE  /\ OpOk(t)' /\ ~Pending(t)'
           /\ ~(op'[t].pc = "release" /\ op'[t].want = "intent")
<1>1. CASE q = <<>>
    BY <1>1 DEF WakeNext, Idle, OpOk, Pending, At
<1>2. CASE q # <<>>
    BY <1>2 DEF WakeNext, Idle, OpOk, Pending, At
<1> QED
    BY <1>1, <1>2

\* A task with nothing to wake is idle.
LEMMA IdleIsRest == WakeNext(<<>>) = Idle /\ <<>> \in Seq(Type)
BY DEF WakeNext

\* six_lock_wakeup has at most one type to wake.
LEMMA IfNeededSeq ==
    ASSUME NEW st, NEW k \in Type PROVE IfNeeded(st, k) \in Seq(Type)
BY DEF IfNeeded

\* What an unlock wakes is a type.
LEMMA UnlockWakeupType ==
    ASSUME NEW k \in Type PROVE UnlockWakeup(k) \in Type
BY DEF UnlockWakeup, Type

\* A step that only takes t, which is not pending, queued or releasing intent,
\* to rest.
LEMMA RestStep ==
    ASSUME IInv, NEW t \in Task, NEW q \in Seq(Type),
           op' = [op EXCEPT ![t] = WakeNext(q)],
           UNCHANGED <<state, seq, owner, recurse, fifo, hold, snap, version>>,
           waitLock' \in Task \cup {NoTask},
           op[t].pc \notin {"enqueue", "retry", "parked", "cancel", "cancel_write", "release"}
    PROVE  IInv'
<1>1. TypeOK' /\ FifoType'
    BY Typed, Zenon DEF IInv, TypeOK, FifoType
<1>2. op'[t] = WakeNext(q) /\ \A u \in Task \ {t} : op'[u] = op[u]
    BY DEF IInv, TypeOK
<1>3. /\ OpOk(t)' /\ ~Pending(t)' /\ ~Pending(t)
      /\ ~(op'[t].pc = "release" /\ op'[t].want = "intent")
    BY <1>2, RestOk DEF Pending
<1>4. QueueInv'
    BY <1>2, QueueFrame DEF IInv
<1> QED
    BY <1>1, <1>2, <1>3, <1>4, QuietStep, SMTT(30), ZenonT(40) DEF At

\* WakeupAll only decides which types to wake.
LEMMA WakeupAllIInv ==
    ASSUME IInv, NEW t \in Task, WakeupAll(t) PROVE IInv'
<1> DEFINE q == IfNeeded(state, "read") \o IfNeeded(state, "intent")
                   \o IfNeeded(state, "write")
<1>1. q \in Seq(Type)
  <2>1. \A k \in Type : IfNeeded(state, k) \in Seq(Type)
    BY IfNeededSeq
  <2> QED
    BY <2>1 DEF Type
<1>2. op' = [op EXCEPT ![t] = WakeNext(q)]
    BY DEF WakeupAll
<1> HIDE DEF q
<1> QED
    BY <1>1, <1>2, RestStep, Zenon DEF WakeupAll, At, IInv, TypeOK

\* CancelWake only decides whether to wake readers.
LEMMA CancelWakeIInv ==
    ASSUME IInv, NEW t \in Task, CancelWake(t) PROVE IInv'
<1>1. IfNeeded(state, "read") \in Seq(Type)
    BY IfNeededSeq DEF Type
<1> QED
    BY <1>1, RestStep, Zenon DEF CancelWake, At, IInv, TypeOK

\* RelockOk keeps what the trylock has taken.
LEMMA RelockOkIInv ==
    ASSUME IInv, NEW t \in Task, RelockOk(t) PROVE IInv'
BY IdleIsRest, RestStep, Zenon DEF RelockOk, Done, At, IInv, TypeOK

\* ReadSeq only copies the sequence number.
LEMMA ReadSeqIInv ==
    ASSUME IInv, NEW t \in Task, ReadSeq(t) PROVE IInv'
<1>0. /\ snap' = [snap EXCEPT ![t] = [seq |-> seq, version |-> version]]
      /\ UNCHANGED <<state, seq, owner, recurse, fifo, waitLock, op, hold, version>>
    BY DEF ReadSeq
<1>1. TypeOK' /\ FifoType'
    BY <1>0 DEF IInv, TypeOK, FifoType
<1>2. Counted' /\ IntentInv' /\ WriteInv'
    BY <1>0, CoreFrame DEF IInv
<1>3. PendingInv'
    BY <1>0 DEF IInv, PendingInv, Pending
<1>4. OpInv'
  <2>1. ASSUME NEW u \in Task PROVE OpOk(u)'
    <3>1. OpOk(u) /\ op \in [Task -> Operation]
      BY DEF IInv, OpInv, TypeOK
    <3>2. Pending(u) => state'.write
      BY <1>0, <3>1 DEF OpOk
    <3> QED
      BY <1>0, <3>1, <3>2, OpFrame
  <2> QED
    BY <2>1 DEF OpInv
<1>5. QueueInv' /\ OwnerInv'
    BY <1>0 DEF IInv, QueueInv, OwnerInv, At
<1> QED
    BY <1>1, <1>2, <1>3, <1>4, <1>5 DEF IInv

\* Moving with the type kept.
LEMMA KeepWant ==
    ASSUME TypeOK, NEW t \in Task, NEW l
    PROVE  [op EXCEPT ![t].pc = l] =
              [op EXCEPT ![t] = [op[t] EXCEPT !.pc = l, !.want = op[t].want]]
BY Zenon DEF TypeOK, Operation

\* Moving with the type set.
LEMMA SetWant ==
    ASSUME TypeOK, NEW t \in Task, NEW l, NEW k
    PROVE  [op EXCEPT ![t].pc = l, ![t].want = k] =
              [op EXCEPT ![t] = [op[t] EXCEPT !.pc = l, !.want = k]]
BY Zenon DEF TypeOK, Operation

\* The fields of a task that has moved
MovedTo(t, l, k) ==
    /\ op'[t].pc = l /\ op'[t].want = k
    /\ op'[t].acquired = op[t].acquired /\ op'[t].slot = op[t].slot
    /\ op'[t].lent = op[t].lent /\ op'[t].todo = op[t].todo
    /\ \A u \in Task \ {t} : op'[u] = op[u]

\* The fields after a move
LEMMA Moved ==
    ASSUME TypeOK, NEW t \in Task, NEW l, NEW k,
           op' = [op EXCEPT ![t] = [op[t] EXCEPT !.pc = l, !.want = k]]
    PROVE  MovedTo(t, l, k)
BY DEF TypeOK, Operation, MovedTo

\* A step that only moves t to another place, in a way that keeps t's part of
\* the invariant; t is not releasing intent.
LEMMA MoveStep ==
    ASSUME IInv, NEW t \in Task, NEW l \in PC, NEW k \in Type,
           op' = [op EXCEPT ![t] = [op[t] EXCEPT !.pc = l, !.want = k]],
           UNCHANGED <<state, seq, owner, recurse, fifo, hold, snap>>,
           waitLock' \in Task \cup {NoTask}, version' \in Nat,
           op[t].pc # "release", ~(l = "release" /\ k = "intent"),
           OpOk(t)', Pending(t) => Pending(t)',
           \/ op[t].pc \notin {"parked", "cancel"}
           \/ op[t].acquired
           \/ l \in {"parked", "cancel"}
    PROVE  IInv'
<1>1. TypeOK' /\ FifoType'
    BY Typed, Zenon DEF IInv, TypeOK, FifoType
<1>2. op[t] \in Operation /\ op'[t] = [op[t] EXCEPT !.pc = l, !.want = k]
      /\ \A u \in Task \ {t} : op'[u] = op[u]
    BY DEF IInv, TypeOK
<1>3. /\ op'[t].pc = l /\ op'[t].want = k
      /\ op'[t].slot = op[t].slot /\ op'[t].acquired = op[t].acquired
  <2>1. TypeOK
    BY SMTT(30), ZenonT(40) DEF IInv
  <2>2. MovedTo(t, l, k)
    BY <2>1, Moved, Zenon
  <2> QED
    BY <2>2 DEF MovedTo
<1>4. QueueInv'
    BY <1>2, <1>3, QueueFrame, SMTT(30), ZenonT(40) DEF IInv
<1> QED
    BY <1>1, <1>2, <1>3, <1>4, QuietStep, SMTT(30), ZenonT(40) DEF At

\* Wake takes wait_lock.
LEMMA WakeIInv ==
    ASSUME IInv, NEW t \in Task, Wake(t) PROVE IInv'
<1> USE DEF IInv
<1>1. op' = [op EXCEPT ![t] = [op[t] EXCEPT !.pc = "scan", !.want = op[t].want]]
    BY KeepWant, Zenon DEF Wake, Goto
<1>2. OpOk(t) /\ "scan" \in PC /\ op[t].want \in Type
    BY TaskFacts, Labels, SMTT(30), ZenonT(40)
<1>3. /\ MovedTo(t, "scan", op[t].want) /\ op[t].pc = "wake"
      /\ state' = state /\ hold' = hold /\ recurse' = recurse
    BY <1>1, Moved, ZenonT(60) DEF Wake, At
<1>4. OpOk(t)' /\ ~Pending(t)
    BY <1>2, <1>3, SMTT(30), ZenonT(40) DEF OpOk, Pending, At, MovedTo
<1> QED
    BY <1>1, <1>2, <1>3, <1>4, MoveStep, ZenonT(60) DEF Wake, TypeOK

\* Cancel leaves the waiter in its slot, with HELD_WRITE if it waits for write.
LEMMA CancelIInv ==
    ASSUME IInv, NEW t \in Task, Cancel(t) PROVE IInv'
<1> USE DEF IInv
<1>1. op' = [op EXCEPT ![t] = [op[t] EXCEPT !.pc = "cancel", !.want = op[t].want]]
    BY KeepWant, Zenon DEF Cancel, Goto
<1>2. OpOk(t) /\ "cancel" \in PC /\ op[t].want \in Type
    BY TaskFacts, Labels, SMTT(30), ZenonT(40)
<1>3. /\ MovedTo(t, "cancel", op[t].want) /\ op[t].pc = "parked"
      /\ ~op[t].acquired /\ op[t].lent = 0
      /\ state' = state /\ hold' = hold /\ recurse' = recurse
    BY <1>1, Moved, ZenonT(60) DEF Cancel, At
<1>4. OpOk(t)' /\ (Pending(t) => Pending(t)')
    BY <1>2, <1>3, SMTT(30), ZenonT(40) DEF OpOk, Pending, At, MovedTo
<1> QED
    BY <1>1, <1>2, <1>3, <1>4, MoveStep, ZenonT(60) DEF Cancel, TypeOK

\* Relock has only compared the sequence number.
LEMMA RelockIInv ==
    ASSUME IInv, NEW t \in Task, NEW k \in {"read", "intent"}, Relock(t, k)
    PROVE  IInv'
<1> USE DEF IInv
<1>1. op' = [op EXCEPT ![t] = [op[t] EXCEPT !.pc = "relock_try", !.want = k]]
    BY SetWant, ZenonT(40) DEF Relock
<1>2. OpOk(t) /\ "relock_try" \in PC /\ k \in Type
    BY TaskFacts, Labels, SMTT(30), ZenonT(40) DEF Type
<1>3. /\ MovedTo(t, "relock_try", k) /\ op[t].pc = "idle"
      /\ state' = state /\ hold' = hold /\ recurse' = recurse
    BY <1>1, Moved, ZenonT(40) DEF Relock, At
<1>4. OpOk(t)' /\ ~Pending(t)
    BY <1>2, <1>3 DEF OpOk, Pending, At, MovedTo
<1>5. /\ UNCHANGED <<seq, owner, fifo, snap>>
      /\ waitLock' \in Task \cup {NoTask} /\ version' \in Nat
    BY SMTT(30), ZenonT(40) DEF Relock, TypeOK
<1> QED
    BY <1>1, <1>2, <1>3, <1>4, <1>5, MoveStep, ZenonT(60)

\* Unparked: the waiter has been handed what it returns with.
LEMMA UnparkedIInv ==
    ASSUME IInv, NEW t \in Task, Unparked(t) PROVE IInv'
<1> USE DEF IInv
<1>1. OpOk(t) /\ op[t].want \in Type /\ version' \in Nat
    BY TaskFacts, SMTT(30), ZenonT(40) DEF TypeOK, Unparked, Enter
<1>2. CASE op[t].lent # 0
  <2>1. op' = [op EXCEPT ![t] = [op[t] EXCEPT !.pc = "restore", !.want = op[t].want]]
    BY <1>2, KeepWant, ZenonT(60) DEF Unparked, Return, Goto
  <2>2. /\ MovedTo(t, "restore", op[t].want) /\ op[t].pc = "parked" /\ op[t].acquired
        /\ state' = state /\ hold' = hold /\ recurse' = recurse
    BY <2>1, Moved, ZenonT(40) DEF Unparked, At
  <2>3. OpOk(t)' /\ ~Pending(t)
    BY <1>1, <1>2, <2>2 DEF OpOk, Pending, At, MovedTo
  <2>4. "restore" \in PC
    BY Labels
  <2> QED
    BY <1>1, <2>1, <2>2, <2>3, <2>4, MoveStep, ZenonT(60) DEF Unparked, TypeOK
<1>3. CASE op[t].lent = 0
  <2>1. op' = [op EXCEPT ![t] = Idle]
    BY <1>3, SMTT(30), ZenonT(40) DEF Unparked, Return, Done
  <2>2. TypeOK' /\ FifoType'
    BY <1>1, <2>1, Typed, Zenon DEF Unparked, TypeOK, FifoType
  <2>3. op'[t] = Idle /\ \A u \in Task \ {t} : op'[u] = op[u]
    BY <2>1 DEF TypeOK
  <2>4. OpOk(t)' /\ ~Pending(t) /\ ~(op'[t].pc = "release" /\ op'[t].want = "intent")
    BY <2>3, RestOk, IdleIsRest, Zenon DEF Pending, Unparked
  <2>5. QueueInv'
    BY <2>3, QueueFrame DEF Unparked
  <2> QED
    BY <2>2, <2>3, <2>4, <2>5, QuietStep DEF Unparked, At
<1> QED
    BY <1>2, <1>3

\* Clear: the waiting bit and the slots past the last waiter go.
LEMMA ClearIInv ==
    ASSUME IInv, NEW t \in Task, Clear(t) PROVE IInv'
<1> DEFINE q == Tail(op[t].todo)
<1>1. q \in Seq(Type) /\ op[t].pc = "clear"
  <2>1. op[t].pc = "clear"
    BY DEF At, Clear
  <2>2. op[t].todo \in Seq(Type) /\ OpOk(t)
    BY TaskFacts
  <2>3. op[t].todo # <<>>
    BY <2>1, <2>2 DEF OpOk
  <2> HIDE DEF q
  <2>4. q \in Seq(Type)
    BY <2>2, <2>3 DEF q
  <2> QED
    BY <2>1, <2>4
<1>2. /\ op' = [op EXCEPT ![t] = WakeNext(q)]
      /\ UNCHANGED <<seq, owner, recurse, hold, snap, version>>
      /\ waitLock' = NoTask /\ fifo' = Shrink(fifo)
      /\ state' = [state EXCEPT !.waiting = @ \ {Head(op[t].todo)}]
    BY DEF Clear
<1> HIDE DEF q
<1>3. /\ state' \in Word /\ state'.read = state.read
      /\ state'.intent = state.intent /\ state'.write = state.write
    BY <1>2 DEF IInv, TypeOK, Word
<1>4. fifo' \in Fifos /\ fifo'.data = fifo.data
    BY <1>2, ShrinkSlots, SMTT(30), ZenonT(40) DEF IInv, FifoType
<1>5. TypeOK' /\ FifoType'
    BY <1>1, <1>2, <1>3, <1>4, Typed, Zenon DEF IInv, TypeOK, FifoType
<1>6. op'[t] = WakeNext(q) /\ \A u \in Task \ {t} : op'[u] = op[u]
    BY <1>2 DEF IInv, TypeOK
<1>7. /\ OpOk(t)' /\ ~Pending(t)' /\ ~Pending(t)
      /\ ~(op'[t].pc = "release" /\ op'[t].want = "intent")
    BY <1>1, <1>6, RestOk DEF Pending
<1>8. QueueInv'
  <2>1. \A i \in DOMAIN fifo.data : fifo.data[i] \in Task \cup {NoTask}
    BY FifoFacts DEF IInv, FifoType
  <2> QED
    BY <1>1, <1>4, <1>6, <2>1 DEF QueueInv, IInv
<1> QED
    BY <1>1, <1>2, <1>3, <1>5, <1>6, <1>7, <1>8, QuietStep DEF At

\* Slow: the intent holder sets HELD_WRITE, and is the one that waits with it.
LEMMA SlowIInv ==
    ASSUME IInv, NEW t \in Task, Slow(t) PROVE IInv'
<1>1. /\ op' = [op EXCEPT ![t] = [op[t] EXCEPT !.pc = "enqueue", !.want = op[t].want]]
      /\ op[t].pc = "slow"
      /\ UNCHANGED <<seq, owner, recurse, fifo, waitLock, hold, snap, version>>
    BY KeepWant, Zenon DEF IInv, Slow, Goto, At
<1>2. /\ state' \in Word /\ state'.read = state.read /\ state'.intent = state.intent
      /\ state'.write = (state.write \/ op[t].want = "write")
    BY ZenonT(60) DEF Slow, Add, IInv, TypeOK, Word
<1>3. MovedTo(t, "enqueue", op[t].want) /\ OpOk(t) /\ op[t].want \in Type
    BY <1>1, Moved, TaskFacts, Zenon DEF IInv
<1>4. TypeOK' /\ FifoType'
    BY <1>1, <1>2, <1>3, Typed, Labels, Zenon DEF IInv, TypeOK, FifoType
<1>5. Counted' /\ IntentInv' /\ WriteInv'
    BY <1>1, <1>2, CoreFrame, Zenon DEF IInv
<1>6. OpInv'
  <2>1. OpOk(t)'
    BY <1>1, <1>2, <1>3, Zenon DEF OpOk, Pending, At, MovedTo
  <2>2. \A u \in Task \ {t} : OpOk(u)'
    BY <1>1, <1>2, <1>3, OpFrame, ZenonT(40) DEF IInv, OpInv, TypeOK, OpOk, MovedTo
  <2> QED
    BY <2>1, <2>2 DEF OpInv
<1>7. PendingInv'
  <2>1. CASE op[t].want = "write"
    <3>1. ~op[t].acquired
      BY <1>1, <1>3 DEF OpOk
    <3>2. /\ op'[t].want = "write" /\ op'[t].pc = "enqueue"
          /\ op'[t].acquired = op[t].acquired
      BY <1>3, <2>1 DEF MovedTo
    <3>3. Pending(t)'
      BY <3>1, <3>2 DEF Pending
    <3> QED
      BY <3>3 DEF PendingInv
  <2>2. CASE op[t].want # "write"
    <3>1. ~Pending(t) /\ \A u \in Task \ {t} : Pending(u)' = Pending(u)
      BY <1>3, <2>2 DEF Pending, MovedTo
    <3> QED
      BY <1>1, <1>2, <2>2, <3>1, ZenonT(60) DEF IInv, PendingInv
  <2> QED
    BY <2>1, <2>2
<1>8. QueueInv'
    BY <1>1, <1>3, QueueFrame DEF IInv, MovedTo
<1>9. OwnerInv'
    BY <1>1, <1>3 DEF IInv, OwnerInv, At, MovedTo
<1> QED
    BY <1>4, <1>5, <1>6, <1>7, <1>8, <1>9, SMTT(30), ZenonT(40) DEF IInv

\* CancelWrite: no other task has write or waits for it, so HELD_WRITE goes.
LEMMA CancelWriteIInv ==
    ASSUME IInv, NEW t \in Task, CancelWrite(t) PROVE IInv'
<1>1. /\ op' = [op EXCEPT ![t] = [op[t] EXCEPT !.pc = "cancel_wake", !.want = op[t].want]]
      /\ op[t].pc = "cancel_write"
      /\ UNCHANGED <<seq, owner, recurse, fifo, waitLock, hold, snap, version>>
    BY KeepWant, Zenon DEF IInv, CancelWrite, Goto, At
<1>2. /\ state' \in Word /\ state'.read = state.read /\ state'.intent = state.intent
      /\ state'.write = FALSE
    BY ZenonT(60) DEF CancelWrite, Sub, IInv, TypeOK, Word
<1>3. MovedTo(t, "cancel_wake", op[t].want) /\ OpOk(t) /\ op[t].want \in Type
    BY <1>1, Moved, TaskFacts, Zenon DEF IInv
<1>4. TypeOK' /\ FifoType'
    BY <1>1, <1>2, <1>3, Typed, Labels, Zenon DEF IInv, TypeOK, FifoType
<1>5. hold[t].intent # 0 /\ hold[t].write = 0
    BY <1>1, <1>3 DEF OpOk, At
<1>6. \A u \in Task \ {t} : hold[u].intent = 0 /\ hold[u].write = 0 /\ ~Pending(u)
    BY <1>5, SoleIntent
<1>7. Counted' /\ IntentInv' /\ WriteInv'
    BY <1>1, <1>2, <1>5, <1>6 DEF IInv, Counted, IntentInv, WriteInv, Refs
<1>8. OpInv'
  <2>1. OpOk(t)'
    BY <1>1, <1>2, <1>3 DEF OpOk, Pending, At, MovedTo
  <2>2. \A u \in Task \ {t} : OpOk(u)'
    BY <1>1, <1>3, <1>6, OpFrame DEF IInv, OpInv, TypeOK, MovedTo
  <2> QED
    BY <2>1, <2>2 DEF OpInv
<1>9. PendingInv'
    BY <1>2 DEF PendingInv
<1>10. QueueInv'
    BY <1>1, <1>3, QueueFrame DEF IInv, MovedTo
<1>11. OwnerInv'
    BY <1>1, <1>3 DEF IInv, OwnerInv, At, MovedTo
<1> QED
    BY <1>4, <1>7, <1>8, <1>9, <1>10, <1>11 DEF IInv

-----------------------------------------------------------------------------
(* Frames for steps that change the references of the task that takes them *)

\* The tasks other than t keep their part of the invariant when t changes its
\* own references only.
LEMMA OthersOk ==
    ASSUME IInv, NEW t \in Task, OpOk(t)',
           \A u \in Task \ {t} : op'[u] = op[u] /\ hold'[u] = hold[u],
           \A u \in Task \ {t}, k \in {"intent", "write"} :
              hold[u][k] # 0 => recurse'[k] = recurse[k],
           \A u \in Task \ {t} : Pending(u) => state'.write
    PROVE  OpInv'
<1>1. ASSUME NEW u \in Task \ {t} PROVE OpOk(u)'
  <2>1. OpOk(u) /\ op \in [Task -> Operation]
    BY TaskFacts DEF IInv, TypeOK
  <2> QED
    BY <2>1, OpFrame
<1> QED
    BY <1>1 DEF OpInv

\* The owner cell and who has intent are as before.
LEMMA OwnerFrame ==
    ASSUME OwnerInv, owner' = owner,
           \A u \in Task : hold'[u].intent = hold[u].intent,
           \A u \in Task : op'[u].pc = "release" /\ op'[u].want = "intent"
                              <=> op[u].pc = "release" /\ op[u].want = "intent"
    PROVE  OwnerInv'
BY DEF OwnerInv, At

\* Pending tasks have set HELD_WRITE.
LEMMA PendingSet ==
    ASSUME IInv, NEW u \in Task, Pending(u) PROVE state.write /\ hold[u].intent # 0
<1>1. OpOk(u)
    BY TaskFacts
<1> QED
    BY <1>1 DEF OpOk

-----------------------------------------------------------------------------
(* Lending and restoring reads, cancellation, and the calls that unlock *)

\* LendReads: the count shrinks by the task's own read references; nobody has
\* write.
LEMMA LendReadsIInv ==
    ASSUME IInv, NEW t \in Task, LendReads(t) PROVE IInv'
<1> DEFINE n == hold[t].read
<1>1. /\ op[t].pc = "idle" /\ n # 0 /\ hold[t].intent # 0 /\ hold[t].write = 0
      /\ state' = [state EXCEPT !.read = @ - n] /\ hold' = [hold EXCEPT ![t].read = 0]
      /\ op' = [op EXCEPT ![t].pc = "lock_write", ![t].lent = n]
      /\ UNCHANGED <<seq, owner, recurse, fifo, waitLock, snap, version>>
    BY DEF LendReads, At, MayTake
<1>2. /\ hold \in Holds /\ state \in Word /\ hold[t] \in References
      /\ op[t] \in Operation /\ OpOk(t) /\ op \in [Task -> Operation]
    BY TaskFacts DEF IInv, TypeOK, Holds
<1>3. n \in Nat
    BY <1>2 DEF References
<1> HIDE DEF n
<1>4. /\ hold'[t] = [hold[t] EXCEPT !.read = 0]
      /\ \A u \in Task \ {t} : hold'[u] = hold[u]
    BY <1>1, <1>2 DEF Holds
<1>5. /\ hold'[t].read = 0 /\ hold'[t].intent = hold[t].intent
      /\ hold'[t].write = hold[t].write /\ hold'[t] \in References
    BY <1>2, <1>4 DEF References
<1>6. hold' \in Holds
    BY <1>1, <1>2, <1>4, <1>5 DEF Holds
<1>7. /\ IsFiniteSet(Refs(hold'))
      /\ Cardinality(Refs(hold)) = Cardinality(Refs(hold')) + n
      /\ Cardinality(Refs(hold')) \in Nat
  <2>1. \A u \in Task \ {t} : hold'[u].read = hold[u].read
    BY <1>4
  <2>2. IsFiniteSet(Refs(hold)) /\ hold[t].read = hold'[t].read + n
    BY <1>3, <1>5 DEF IInv, Counted, n
  <2> QED
    BY <1>2, <1>3, <1>6, <2>1, <2>2, RefsRemoved
<1>8. /\ state' \in Word /\ state'.read = Cardinality(Refs(hold'))
      /\ state'.intent = state.intent /\ state'.write = state.write
  <2>1. state.read = Cardinality(Refs(hold)) /\ state'.read = state.read - n
    BY <1>1, <1>2 DEF IInv, Counted, Word
  <2>2. state'.read = Cardinality(Refs(hold'))
    BY <1>3, <1>7, <2>1
  <2> QED
    BY <1>1, <1>2, <1>7, <2>2 DEF Word
<1>9. Counted'
    BY <1>7, <1>8 DEF Counted, Refs
<1>10. IntentInv'
    BY <1>1, <1>4, <1>5, <1>8 DEF IInv, IntentInv
<1>11. WriteInv'
  <2>1. \A u \in Task \ {t} : hold[u].write = 0
    BY <1>1, SoleIntent
  <2> QED
    BY <1>1, <1>4, <1>5, <2>1 DEF IInv, WriteInv
<1>12. /\ op'[t].pc = "lock_write" /\ op'[t].acquired = op[t].acquired
       /\ \A u \in Task \ {t} : op'[u] = op[u]
    BY <1>1, <1>2 DEF Operation
<1>13. op' \in [Task -> Operation]
  <2>1. op' = [op EXCEPT ![t] = [op[t] EXCEPT !.pc = "lock_write", !.lent = n]]
    BY <1>1, <1>2, Zenon DEF Operation
  <2>2. [op[t] EXCEPT !.pc = "lock_write", !.lent = n] \in Operation
    BY <1>2, <1>3, Labels, Zenon DEF Operation
  <2> QED
    BY <1>2, <2>1, <2>2
<1>14. TypeOK' /\ FifoType'
    BY <1>1, <1>6, <1>8, <1>13 DEF IInv, TypeOK, FifoType, Holds
<1>15. OpOk(t)' /\ ~Pending(t)
    BY <1>1, <1>2, <1>5, <1>12 DEF OpOk, Pending, At
<1>16. OpInv'
    BY <1>1, <1>4, <1>8, <1>12, <1>15, OthersOk, PendingSet, Zenon
<1>17. PendingInv'
  <2>1. \A u \in Task : hold'[u].write = hold[u].write
    BY <1>4, <1>5, Zenon
  <2>2. \A u \in Task \ {t} : Pending(u)' = Pending(u)
    BY <1>12 DEF Pending
  <2> QED
    BY <1>8, <1>15, <2>1, <2>2 DEF IInv, PendingInv
<1>18. QueueInv'
    BY <1>1, <1>12, QueueFrame, Zenon DEF IInv
<1>19. OwnerInv'
  <2>1. \A u \in Task : hold'[u].intent = hold[u].intent
    BY <1>4, <1>5, Zenon
  <2>2. \A u \in Task : op'[u].pc = "release" /\ op'[u].want = "intent"
                           <=> op[u].pc = "release" /\ op[u].want = "intent"
    BY <1>1, <1>12, Zenon
  <2> QED
    BY <1>1, <2>1, <2>2, OwnerFrame, Zenon DEF IInv
<1> QED
    BY <1>9, <1>10, <1>11, <1>14, <1>16, <1>17, <1>18, <1>19 DEF IInv

\* RestoreReads: the writer's own read references count again; nobody else
\* has any.
LEMMA RestoreReadsIInv ==
    ASSUME IInv, NEW t \in Task, RestoreReads(t) PROVE IInv'
<1> DEFINE n == op[t].lent
<1>1. /\ op[t].pc = "restore" /\ state' = [state EXCEPT !.read = @ + n]
      /\ hold' = [hold EXCEPT ![t].read = n] /\ op' = [op EXCEPT ![t] = Idle]
      /\ UNCHANGED <<seq, owner, recurse, fifo, waitLock, snap, version>>
    BY DEF RestoreReads, At, Done
<1>2. /\ hold \in Holds /\ state \in Word /\ hold[t] \in References
      /\ OpOk(t) /\ op \in [Task -> Operation] /\ n \in Nat
    BY TaskFacts DEF IInv, TypeOK, Holds
<1>3. hold[t].write # 0 /\ hold[t].read = 0
    BY <1>1, <1>2 DEF OpOk, At
<1> HIDE DEF n
<1>4. /\ hold'[t] = [hold[t] EXCEPT !.read = n]
      /\ \A u \in Task \ {t} : hold'[u] = hold[u]
    BY <1>1, <1>2 DEF Holds
<1>5. /\ hold'[t].read = n /\ hold'[t].intent = hold[t].intent
      /\ hold'[t].write = hold[t].write /\ hold'[t] \in References
    BY <1>2, <1>4 DEF References
<1>6. hold' \in Holds
    BY <1>1, <1>2, <1>4, <1>5, SMTT(30), ZenonT(40) DEF Holds
<1>7. /\ IsFiniteSet(Refs(hold'))
      /\ Cardinality(Refs(hold')) = Cardinality(Refs(hold)) + n
  <2>1. \A u \in Task \ {t} : hold'[u].read = hold[u].read
    BY <1>4, SMTT(30), ZenonT(40)
  <2>2. IsFiniteSet(Refs(hold)) /\ hold'[t].read = hold[t].read + n
    BY <1>2, <1>3, <1>5 DEF IInv, Counted
  <2> QED
    BY <1>2, <1>6, <2>1, <2>2, RefsAdded
<1>8. /\ state' \in Word /\ state'.read = state.read + n
      /\ state'.intent = state.intent /\ state'.write = state.write
    BY <1>1, <1>2 DEF Word
<1>9. Counted'
    BY <1>7, <1>8 DEF IInv, Counted, Refs
<1>10. IntentInv'
    BY <1>1, <1>4, <1>5, <1>8 DEF IInv, IntentInv
<1>11. WriteInv'
  <2>1. hold[t].intent # 0
    BY <1>3 DEF IInv, WriteInv
  <2>2. \A u \in Task \ {t} : hold[u].write = 0
    BY <2>1, SoleIntent
  <2> QED
    BY <1>1, <1>4, <1>5, <1>8, <2>2 DEF IInv, WriteInv
<1>12. op'[t] = Idle /\ \A u \in Task \ {t} : op'[u] = op[u]
    BY <1>1, <1>2, SMTT(30), ZenonT(40)
<1>13. TypeOK' /\ FifoType'
    BY <1>1, <1>2, <1>6, <1>8, Typed, ZenonT(40) DEF IInv, TypeOK, FifoType, Holds
<1>14. OpOk(t)' /\ ~Pending(t) /\ ~(op'[t].pc = "release" /\ op'[t].want = "intent")
    BY <1>1, <1>12, RestOk, IdleIsRest, Zenon DEF Pending
<1>15. OpInv'
    BY <1>1, <1>4, <1>8, <1>12, <1>14, OthersOk, PendingSet
<1>16. PendingInv'
    BY <1>3, <1>5 DEF PendingInv
<1>17. QueueInv'
    BY <1>1, <1>12, QueueFrame DEF IInv
<1>18. OwnerInv'
    BY <1>1, <1>4, <1>5, <1>12, <1>14 DEF IInv, OwnerInv, At
<1> QED
    BY <1>9, <1>10, <1>11, <1>13, <1>15, <1>16, <1>17, <1>18 DEF IInv

\* A task sets out to release type k: the owner cell is emptied before the
\* lock word when k is intent.
LEMMA ReleasingStep ==
    ASSUME IInv, NEW t \in Task, NEW k \in Type,
           op' = [op EXCEPT ![t] = [op[t] EXCEPT !.pc = "release", !.want = k]],
           owner' = IF k = "intent" THEN NoTask ELSE owner,
           UNCHANGED <<state, recurse, fifo, waitLock, hold, snap, version>>,
           seq' \in Nat, op[t].pc # "release", ~Pending(t),
           op[t].pc \notin {"parked", "cancel"} \/ op[t].acquired,
           op[t].lent = 0,
           hold[t][k] # 0, k # "read" => recurse[k] = 0,
           k = "intent" => hold[t].write = 0
    PROVE  IInv'
<1>1. op[t] \in Operation
    BY TaskFacts, SMTT(30), ZenonT(40)
<1>2. MovedTo(t, "release", k)
    BY Moved, Zenon DEF IInv
<1>3. TypeOK' /\ FifoType'
  <2>1. [op[t] EXCEPT !.pc = "release", !.want = k] \in Operation
    BY <1>1, Typed, Labels, Zenon
  <2>2. op' \in [Task -> Operation] /\ owner' \in Task \cup {NoTask}
    BY <2>1 DEF IInv, TypeOK
  <2> QED
    BY <2>2, SMTT(30), ZenonT(40) DEF IInv, TypeOK, FifoType
<1>4. Counted' /\ IntentInv' /\ WriteInv'
    BY CoreFrame DEF IInv
<1>5. OpOk(t)'
    BY <1>2 DEF OpOk, Pending, At, MovedTo
<1>6. OpInv'
    BY <1>2, <1>5, OthersOk, PendingSet DEF MovedTo
<1>7. PendingInv'
  <2>1. \A u \in Task \ {t} : Pending(u)' = Pending(u)
    BY <1>2 DEF Pending, MovedTo
  <2> QED
    BY <2>1 DEF IInv, PendingInv
<1>8. QueueInv'
    BY <1>2, QueueFrame DEF IInv, MovedTo
<1>9. OwnerInv'
  <2>1. /\ op'[t].pc = "release" /\ op'[t].want = k
        /\ \A u \in Task \ {t} : op'[u] = op[u]
    BY <1>2 DEF MovedTo
  <2>2. CASE k = "intent"
    <3>1. \A u \in Task \ {t} : hold[u].intent = 0
      BY <2>2, SoleIntent
    <3>2. \A u \in Task : owner' # u
      BY <2>2, SixAssumption
    <3> QED
      BY <2>1, <2>2, <3>1, <3>2 DEF OwnerInv, At
  <2>3. CASE k # "intent"
    BY <2>1, <2>3 DEF IInv, OwnerInv, At
  <2> QED
    BY <2>2, <2>3
<1> QED
    BY <1>3, <1>4, <1>6, <1>7, <1>8, <1>9 DEF IInv

\* The queue when a waiter leaves its slot and no other slot changes.
LEMMA QueueLeaves ==
    ASSUME NEW t \in Task, QueueInv, fifo \in Fifos,
           op[t].pc = "cancel", DOMAIN fifo'.data = DOMAIN fifo.data,
           \A j \in DOMAIN fifo.data :
              fifo'.data[j] = IF j = op[t].slot THEN NoTask ELSE fifo.data[j],
           \A u \in Task \ {t} : op'[u] = op[u]
    PROVE  QueueInv'
<1>1. \A j \in DOMAIN fifo.data : fifo.data[j] \in Task \cup {NoTask}
    BY FifoFacts
<1>2. SUFFICES ASSUME NEW j \in DOMAIN fifo.data, fifo'.data[j] # NoTask
               PROVE  /\ op'[fifo'.data[j]].pc \in {"parked", "cancel"}
                      /\ ~op'[fifo'.data[j]].acquired
                      /\ op'[fifo'.data[j]].slot = j
    BY DEF QueueInv
<1>3. j # op[t].slot /\ fifo'.data[j] = fifo.data[j] /\ fifo.data[j] # NoTask
    BY <1>2
<1>4. /\ op[fifo.data[j]].pc \in {"parked", "cancel"}
      /\ ~op[fifo.data[j]].acquired /\ op[fifo.data[j]].slot = j
    BY <1>3 DEF QueueInv
<1>5. fifo.data[j] \in Task \ {t}
    BY <1>1, <1>3, <1>4
<1> QED
    BY <1>3, <1>4, <1>5

\* CancelLocked: the waiter gives back what it was handed meanwhile, or leaves
\* its slot; a writer still has HELD_WRITE to clear.
LEMMA CancelLockedIInv ==
    ASSUME IInv, NEW t \in Task, CancelLocked(t) PROVE IInv'
<1>1. /\ op[t].pc = "cancel"
      /\ UNCHANGED <<state, seq, recurse, waitLock, hold, snap, version>>
    BY DEF CancelLocked, At
<1>2. /\ OpOk(t) /\ op[t] \in Operation /\ op[t].want \in Type /\ op[t].slot \in Nat
      /\ fifo \in Fifos
    BY TaskFacts, SMTT(30), ZenonT(40) DEF IInv, FifoType
<1>3. op[t].lent = 0
    BY <1>1, <1>2, SMTT(30), ZenonT(40) DEF OpOk
<1>4. CASE op[t].acquired
  <2>1. /\ op' = [op EXCEPT ![t] = [op[t] EXCEPT !.pc = "release", !.want = op[t].want]]
        /\ owner' = (IF op[t].want = "intent" THEN NoTask ELSE owner) /\ fifo' = fifo
    BY <1>4, KeepWant, ZenonT(40) DEF CancelLocked, Goto, IInv
  <2>2. /\ hold[t][op[t].want] # 0
        /\ op[t].want # "read" => recurse[op[t].want] = 0
        /\ op[t].want = "intent" => hold[t].write = 0
    BY <1>2, <1>4 DEF OpOk
  <2>3. seq' \in Nat /\ ~Pending(t)
    BY <1>1, <1>4, SMTT(30), ZenonT(40) DEF IInv, TypeOK, Pending
  <2> QED
    BY <1>1, <1>2, <1>3, <1>4, <2>1, <2>2, <2>3, ReleasingStep, ZenonT(60)
<1>5. CASE ~op[t].acquired
  <2>1. /\ fifo' = Shrink(Remove(fifo, op[t].slot)) /\ owner' = owner
        /\ IF op[t].want = "write" THEN Goto(t, "cancel_write") ELSE Done(t)
    BY <1>5, ZenonT(40) DEF CancelLocked
  <2>2. /\ fifo' \in Fifos /\ DOMAIN fifo'.data = DOMAIN fifo.data
        /\ \A j \in DOMAIN fifo.data :
              fifo'.data[j] = IF j = op[t].slot THEN NoTask ELSE fifo.data[j]
    BY <1>2, <2>1, RemoveSlot, ShrinkSlots, SMTT(30), ZenonT(40)
  <2>3. /\ \A u \in Task \ {t} : op'[u] = op[u]
        /\ op' \in [Task -> Operation] /\ OpOk(t)' /\ op'[t].pc # "release"
        /\ Pending(t) => Pending(t)'
    <3>1. CASE op[t].want = "write"
      <4>1. op' = [op EXCEPT ![t] = [op[t] EXCEPT !.pc = "cancel_write", !.want = op[t].want]]
        BY <2>1, <3>1, KeepWant, ZenonT(60) DEF Goto, IInv
      <4>2. MovedTo(t, "cancel_write", op[t].want)
        BY <4>1, Moved, ZenonT(40) DEF IInv
      <4>3. Pending(t)' /\ Pending(t)
        BY <1>1, <1>5, <3>1, <4>2, SMTT(30), ZenonT(40) DEF Pending, MovedTo
      <4>4. OpOk(t)'
        BY <1>1, <1>2, <1>3, <1>5, <4>2, <4>3, ZenonT(60) DEF OpOk, At, MovedTo
      <4>5. op' \in [Task -> Operation]
        BY <1>2, <4>1, Typed, Labels, ZenonT(40) DEF IInv, TypeOK
      <4> QED
        BY <4>2, <4>3, <4>4, <4>5, SMTT(30), ZenonT(40) DEF MovedTo
    <3>2. CASE op[t].want # "write"
      <4>1. op' = [op EXCEPT ![t] = Idle] /\ ~Pending(t)
        BY <2>1, <3>2 DEF Done, Pending
      <4>2. op'[t] = Idle /\ \A u \in Task \ {t} : op'[u] = op[u]
        BY <4>1, SMTT(30), ZenonT(40) DEF IInv, TypeOK
      <4>3. OpOk(t)'
        BY <4>2, RestOk, IdleIsRest, ZenonT(60)
      <4>4. op' \in [Task -> Operation] /\ op'[t].pc # "release"
        BY <4>1, <4>2, Typed, Zenon DEF IInv, TypeOK, Idle
      <4> QED
        BY <4>1, <4>2, <4>3, <4>4
    <3> QED
      BY <3>1, <3>2
  <2>4. TypeOK' /\ FifoType'
    BY <1>1, <2>1, <2>2, <2>3, ZenonT(60) DEF IInv, TypeOK, FifoType
  <2>5. QueueInv'
    BY <1>1, <1>2, <2>2, <2>3, QueueLeaves DEF IInv
  <2> QED
    BY <1>1, <2>1, <2>3, <2>4, <2>5, QuietStep, SMTT(30), ZenonT(40) DEF At
<1> QED
    BY <1>4, <1>5

\* UnlockIp of intent that recursion has counted up.
LEMMA UnlockCountedIntent ==
    ASSUME IInv, NEW t \in Task, UnlockIp(t, "intent"), recurse.intent # 0,
           hold[t].intent # 0, op[t].pc \in {"idle", "relock", "unlock"}
    PROVE  IInv'
<1>1. /\ recurse' = [recurse EXCEPT !.intent = @ - 1]
      /\ hold' = [hold EXCEPT ![t].intent = @ - 1] /\ op' = [op EXCEPT ![t] = Idle]
      /\ UNCHANGED <<state, seq, owner, fifo, waitLock, snap, version>>
    BY DEF UnlockIp, Done
<1>2. /\ hold \in Holds /\ hold[t] \in References /\ op \in [Task -> Operation]
      /\ recurse \in [intent : Nat, write : Nat]
    BY TaskFacts DEF IInv, TypeOK, Holds
<1>3. hold[t].intent = recurse.intent + 1
    BY DEF IInv, IntentInv
<1>4. /\ hold'[t] = [hold[t] EXCEPT !.intent = @ - 1]
      /\ \A u \in Task \ {t} : hold'[u] = hold[u]
    BY <1>1, <1>2 DEF Holds
<1>5. /\ recurse' \in [intent : Nat, write : Nat]
      /\ recurse'.intent = recurse.intent - 1 /\ recurse'.write = recurse.write
    BY <1>1, <1>2
<1>6. /\ hold'[t].read = hold[t].read /\ hold'[t].intent = recurse'.intent + 1
      /\ hold'[t].intent # 0
      /\ hold'[t].write = hold[t].write /\ hold'[t] \in References
    BY <1>2, <1>3, <1>4, <1>5 DEF References
<1>7. hold' \in Holds
    BY <1>1, <1>2, <1>4, <1>6 DEF Holds
<1>8. \A u \in Task \ {t} : hold[u].intent = 0 /\ hold[u].write = 0 /\ ~Pending(u)
    BY SoleIntent
<1>9. Counted'
  <2>1. \A u \in Task : hold'[u].read = hold[u].read
    BY <1>4, <1>6, ZenonT(40)
  <2>2. Refs(hold') = Refs(hold)
    BY <1>2, <1>7, <2>1, RefsSame
  <2> QED
    BY <1>1, <2>2, Zenon DEF IInv, Counted, Refs
<1>10. IntentInv'
  <2>1. state.intent
    BY DEF IInv, IntentInv
  <2> QED
    BY <1>1, <1>4, <1>6, <1>8, <2>1, SMTT(30), ZenonT(40) DEF IntentInv
<1>11. WriteInv'
    BY <1>1, <1>4, <1>5, <1>6, <1>8 DEF IInv, WriteInv
<1>12. op'[t] = Idle /\ \A u \in Task \ {t} : op'[u] = op[u]
    BY <1>1, <1>2, SMTT(30), ZenonT(40)
<1>13. TypeOK' /\ FifoType'
    BY <1>1, <1>2, <1>5, <1>7, Typed, ZenonT(40) DEF IInv, TypeOK, FifoType, Holds
<1>14. OpOk(t)' /\ ~Pending(t) /\ ~(op'[t].pc = "release" /\ op'[t].want = "intent")
    BY <1>12, RestOk, IdleIsRest, ZenonT(40) DEF Pending
<1>15. OpInv'
    BY <1>4, <1>8, <1>12, <1>14, OthersOk
<1>16. PendingInv'
    BY <1>1, <1>6, <1>8, <1>14 DEF IInv, PendingInv
<1>17. QueueInv'
    BY <1>1, <1>12, QueueFrame DEF IInv
<1>18. OwnerInv'
    BY <1>1, <1>4, <1>6, <1>12, <1>14 DEF IInv, OwnerInv, At
<1> QED
    BY <1>9, <1>10, <1>11, <1>13, <1>15, <1>16, <1>17, <1>18 DEF IInv

\* UnlockIp of write that recursion has counted up.
LEMMA UnlockCountedWrite ==
    ASSUME IInv, NEW t \in Task, UnlockIp(t, "write"), recurse.write # 0,
           hold[t].write # 0, op[t].pc \in {"idle", "relock", "unlock"}
    PROVE  IInv'
<1>1. /\ recurse' = [recurse EXCEPT !.write = @ - 1]
      /\ hold' = [hold EXCEPT ![t].write = @ - 1] /\ op' = [op EXCEPT ![t] = Idle]
      /\ UNCHANGED <<state, seq, owner, fifo, waitLock, snap, version>>
    BY DEF UnlockIp, Done
<1>2. /\ hold \in Holds /\ hold[t] \in References /\ op \in [Task -> Operation]
      /\ recurse \in [intent : Nat, write : Nat]
    BY TaskFacts, SMTT(30), ZenonT(40) DEF IInv, TypeOK, Holds
<1>3. hold[t].write = recurse.write + 1 /\ hold[t].intent # 0 /\ state.write
      /\ \A u \in Task \ {t} : hold[u].read = 0
    BY DEF IInv, WriteInv
<1>4. /\ hold'[t] = [hold[t] EXCEPT !.write = @ - 1]
      /\ \A u \in Task \ {t} : hold'[u] = hold[u]
    BY <1>1, <1>2 DEF Holds
<1>5. /\ recurse' \in [intent : Nat, write : Nat]
      /\ recurse'.intent = recurse.intent /\ recurse'.write = recurse.write - 1
    BY <1>1, <1>2
<1>6. /\ hold'[t].read = hold[t].read /\ hold'[t].write = recurse'.write + 1
      /\ hold'[t].write # 0
      /\ hold'[t].intent = hold[t].intent /\ hold'[t] \in References
    BY <1>2, <1>3, <1>4, <1>5 DEF References
<1>7. hold' \in Holds
    BY <1>1, <1>2, <1>4, <1>6 DEF Holds
<1>8. \A u \in Task \ {t} : hold[u].intent = 0 /\ hold[u].write = 0 /\ ~Pending(u)
    BY <1>3, SoleIntent
<1>9. Counted'
  <2>1. \A u \in Task : hold'[u].read = hold[u].read
    BY <1>4, <1>6, ZenonT(40)
  <2>2. Refs(hold') = Refs(hold)
    BY <1>2, <1>7, <2>1, RefsSame
  <2> QED
    BY <1>1, <2>2, Zenon DEF IInv, Counted, Refs
<1>10. IntentInv'
    BY <1>1, <1>4, <1>5, <1>6 DEF IInv, IntentInv
<1>11. WriteInv'
    BY <1>1, <1>3, <1>4, <1>6, <1>8 DEF WriteInv
<1>12. op'[t] = Idle /\ \A u \in Task \ {t} : op'[u] = op[u]
    BY <1>1, <1>2, SMTT(30), ZenonT(40)
<1>13. TypeOK' /\ FifoType'
    BY <1>1, <1>2, <1>5, <1>7, Typed, ZenonT(40) DEF IInv, TypeOK, FifoType, Holds
<1>14. OpOk(t)' /\ ~(op'[t].pc = "release" /\ op'[t].want = "intent")
    BY <1>12, RestOk, IdleIsRest, Zenon
<1>15. OpInv'
    BY <1>4, <1>8, <1>12, <1>14, OthersOk
<1>16. PendingInv'
    BY <1>6 DEF PendingInv
<1>17. QueueInv'
    BY <1>1, <1>12, QueueFrame DEF IInv
<1>18. OwnerInv'
    BY <1>1, <1>4, <1>6, <1>12, <1>14 DEF IInv, OwnerInv, At
<1> QED
    BY <1>9, <1>10, <1>11, <1>13, <1>15, <1>16, <1>17, <1>18 DEF IInv

\* UnlockIp of a type that the task has: recursion counts down, or the task
\* sets out to release the lock word.
LEMMA UnlockIpIInv ==
    ASSUME IInv, NEW t \in Task, NEW k \in Type, UnlockIp(t, k), hold[t][k] # 0,
           k = "intent" => hold[t].intent > hold[t].write \/ hold[t].write = 0,
           op[t].pc \in {"idle", "relock", "unlock"}
    PROVE  IInv'
<1>1. CASE k # "read" /\ recurse[k] # 0
    BY <1>1, UnlockCountedIntent, UnlockCountedWrite, SMTT(30), ZenonT(40) DEF Type
<1>2. CASE ~(k # "read" /\ recurse[k] # 0)
  <2>1. /\ op' = [op EXCEPT ![t] = [op[t] EXCEPT !.pc = "release", !.want = k]]
        /\ owner' = (IF k = "intent" THEN NoTask ELSE owner)
        /\ seq' = (IF k = "write" THEN seq + 1 ELSE seq)
        /\ UNCHANGED <<state, recurse, fifo, waitLock, hold, snap, version>>
    BY <1>2, SetWant, ZenonT(40) DEF UnlockIp, IInv
  <2>2. OpOk(t) /\ hold[t] \in References /\ seq \in Nat
    BY TaskFacts, SMTT(30), ZenonT(40) DEF IInv, TypeOK
  <2>3. op[t].lent = 0 /\ ~Pending(t)
    BY <2>2, ZenonT(40) DEF OpOk, Pending
  <2>4. k = "intent" => hold[t].write = 0
    <3>1. k = "intent" => hold[t].intent = recurse.intent + 1 /\ recurse.intent = 0
      BY <1>2 DEF IInv, IntentInv
    <3> QED
      BY <2>2, <3>1 DEF References
  <2>5. seq' \in Nat
    BY <2>1, <2>2
  <2> QED
    BY <1>2, <2>1, <2>3, <2>4, <2>5, ReleasingStep, ZenonT(60)
<1> QED
    BY <1>1, <1>2

\* Unlock: the caller has what it unlocks.
LEMMA UnlockIInv ==
    ASSUME IInv, NEW t \in Task, NEW k \in Type, Unlock(t, k) PROVE IInv'
BY UnlockIpIInv DEF Unlock, At

\* RelockFail: the task has what it relocked.
LEMMA RelockFailIInv ==
    ASSUME IInv, NEW t \in Task, RelockFail(t) PROVE IInv'
<1>1. op[t].pc = "relock" /\ UnlockIp(t, op[t].want)
    BY DEF RelockFail, At
<1>2. OpOk(t) /\ op[t].want \in Type
    BY TaskFacts, SMTT(30), ZenonT(40)
<1>3. hold[t][op[t].want] # 0 /\ (op[t].want = "intent" => hold[t].write = 0)
    BY <1>1, <1>2, SMTT(30), ZenonT(40) DEF OpOk, At
<1> QED
    BY <1>1, <1>2, <1>3, UnlockIpIInv

\* DowngradeUnlock: the task still has intent, and not write.
LEMMA DowngradeUnlockIInv ==
    ASSUME IInv, NEW t \in Task, DowngradeUnlock(t) PROVE IInv'
<1>1. op[t].pc = "unlock" /\ UnlockIp(t, "intent") /\ "intent" \in Type
    BY SMTT(30), ZenonT(40) DEF DowngradeUnlock, At, Type
<1>2. OpOk(t)
    BY TaskFacts
<1>3. hold[t].intent # 0 /\ hold[t].write = 0
    BY <1>1, <1>2 DEF OpOk, At
<1> QED
    BY <1>1, <1>3, UnlockIpIInv

=============================================================================
