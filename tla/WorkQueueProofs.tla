-------------------------- MODULE WorkQueueProofs --------------------------
(***************************************************************************)
(* Proofs about WorkQueue for any finite set of clients and any work       *)
(* items: no item is lost or run twice, and the list is empty when         *)
(* destroy_workqueue returns.                                              *)
(***************************************************************************)
EXTENDS WorkQueue, FiniteSetTheorems, TLAPS

WorkerLabel == {"take", "exited", "block", "condvar", "current", "clear", "run",
                "done", "notify"}
ClientLabel == {"idle", "push", "wake", "flush", "flush_wait", "condvar", "remove",
                "cancel", "cancel_test", "drain", "block", "stop", "join",
                "destroyed"}
Holding == {"block", "cancel_test"}
Busy == {"push", "current", "clear", "run"}

Arg == [op : Operations \cup {"none"}, work : Work \cup {NoWork}]

(* A client at label l works on the operation and the item of a.             *)
Fits(l, a) ==
    /\ a.op \in {"queue", "flush", "cancel"} => a.work \in Work
    /\ l \in {"push", "wake"} => a.op = "queue"
    /\ l \in {"flush", "flush_wait"} => a.op = "flush"
    /\ l \in {"remove", "cancel", "cancel_test"} => a.op = "cancel"
    /\ l = "drain" => a.op = "drain"
    /\ l \in {"block", "condvar"} => a.op \in {"flush", "cancel", "drain"}

Labels ==
    /\ pc \in [Thread -> ClientLabel \cup WorkerLabel]
    /\ pc[Worker] \in WorkerLabel /\ \A c \in Client : pc[c] \in ClientLabel
    /\ mutex \in Thread \cup {Nobody}
    /\ \A t \in Thread : (mutex = t) <=> pc[t] \in Holding
    /\ waiting = {t \in Thread : pc[t] = "condvar"}
    /\ arg \in [Thread -> Arg] /\ \A c \in Client : Fits(pc[c], arg[c])
    /\ pc[Worker] \in {"current", "clear", "run"} => arg[Worker].work \in Work

Data ==
    /\ pending \in Seq(Work) /\ bit \in [Work -> BOOLEAN]
    /\ current \in Work \cup {NoWork} /\ shutdown \in BOOLEAN
    /\ ops \in [Client -> 0..MaxOps] /\ due \in [Client -> Nat]
    /\ ran \in [Work -> Nat] /\ accepted \in [Work -> Nat]
    /\ cancelled \in [Work -> Nat]

(* The places where an item can be.                                          *)
Listed(w) == \E i \in 1 .. Len(pending) : pending[i] = w
Pushed(w) == \E c \in Client : pc[c] = "push" /\ arg[c].work = w
Held(w) == pc[Worker] \in {"current", "clear"} /\ arg[Worker].work = w
Running(w) == pc[Worker] = "run" /\ arg[Worker].work = w

(* The list has no item twice, and no two clients push the same item.        *)
Distinct == \A i, j \in 1 .. Len(pending) : pending[i] = pending[j] => i = j
OnePusher == \A c, d \in Client : /\ pc[c] = "push" /\ pc[d] = "push"
                                  /\ arg[c].work = arg[d].work
                                  => c = d

Places ==
    /\ Distinct /\ OnePusher
    /\ \A w \in Work : /\ bit[w] <=> Listed(w) \/ Pushed(w) \/ Held(w)
                       /\ ~(Listed(w) /\ Pushed(w))
                       /\ ~(Listed(w) /\ Held(w))
                       /\ ~(Pushed(w) /\ Held(w))

(* Every accepted queueing has run, was cancelled, is in the list or is in   *)
(* the hands of the worker.                                                  *)
InList(w) == IF Listed(w) THEN 1 ELSE 0
InHand(w) == IF Held(w) \/ Running(w) THEN 1 ELSE 0
Runs == \A w \in Work : accepted[w] = ran[w] + cancelled[w] + InList(w) + InHand(w)

(* current_work is published only between its store and its reset.           *)
Quiet == pc[Worker] \notin {"clear", "run", "done"} => current = NoWork

(* Once the queue is shut down only its destroyer is active; the worker has  *)
(* exited only with an empty list, and is joined before the queue is gone.   *)
Shut ==
    /\ shutdown => \A c \in Client : pc[c] \in {"idle", "stop", "join", "destroyed"}
    /\ pc[Worker] = "exited" => shutdown /\ pending = << >>
    /\ \A c \in Client : pc[c] = "destroyed" => pc[Worker] = "exited"

IInv == Labels /\ Data /\ Places /\ Runs /\ Quiet /\ Shut

-----------------------------------------------------------------------------
\* A step in which nobody starts to push keeps the pushers apart.
LEMMA PushersKept ==
    ASSUME IInv,
           \A d \in Client : pc'[d] = "push" => pc[d] = "push" /\ arg'[d] = arg[d]
    PROVE  OnePusher'
<1>1. OnePusher
    BY DEF IInv, Places
<1> QED
    BY <1>1 DEF OnePusher

\* The equation of Runs for one item, with the types that the arithmetic needs.
LEMMA RunOf ==
    ASSUME IInv, NEW v \in Work
    PROVE  /\ accepted[v] \in Nat /\ ran[v] \in Nat /\ cancelled[v] \in Nat
           /\ InList(v) \in Nat /\ InHand(v) \in Nat
           /\ accepted[v] = ran[v] + cancelled[v] + InList(v) + InHand(v)
<1>1. accepted[v] \in Nat /\ ran[v] \in Nat /\ cancelled[v] \in Nat
    BY DEF IInv, Data
<1>2. InList(v) \in Nat /\ InHand(v) \in Nat
    BY DEF InList, InHand
<1> QED
    BY <1>1, <1>2 DEF IInv, Runs

\* Every entry of a client counts one operation, within the bound.
LEMMA EnterOps ==
    ASSUME IInv, NEW c \in Client, ops[c] < MaxOps, ops' = [ops EXCEPT ![c] = @ + 1]
    PROVE  ops' \in [Client -> 0..MaxOps]
<1>1. ops \in [Client -> 0..MaxOps] /\ MaxOps \in Nat
    BY WorkQueueAssumption DEF IInv, Data
<1>2. ops[c] + 1 \in 0..MaxOps /\ ops' = [ops EXCEPT ![c] = ops[c] + 1]
    BY <1>1
<1> QED
    BY <1>1, <1>2

(* A sequence without its i-th element.                                      *)
Without(s, i) == SubSeq(s, 1, i - 1) \o SubSeq(s, i + 1, Len(s))

\* Its length and its elements.
LEMMA WithoutFacts ==
    ASSUME NEW s \in Seq(Work), NEW i \in 1 .. Len(s)
    PROVE  /\ Without(s, i) \in Seq(Work) /\ Len(Without(s, i)) = Len(s) - 1
           /\ \A j \in 1 .. Len(s) - 1 :
                Without(s, i)[j] = IF j < i THEN s[j] ELSE s[j + 1]
<1> DEFINE a == SubSeq(s, 1, i - 1)
           b == SubSeq(s, i + 1, Len(s))
<1>1. /\ a \in Seq(Work) /\ Len(a) = i - 1
      /\ \A j \in 1 .. i - 1 : a[j] = s[j]
    OBVIOUS
<1>2. /\ b \in Seq(Work) /\ Len(b) = Len(s) - i
      /\ \A j \in 1 .. Len(s) - i : b[j] = s[i + j]
    OBVIOUS
<1> HIDE DEF a, b
<1>3. /\ a \o b \in Seq(Work) /\ Len(a \o b) = Len(a) + Len(b)
      /\ \A j \in 1 .. Len(a) + Len(b) :
           (a \o b)[j] = IF j <= Len(a) THEN a[j] ELSE b[j - Len(a)]
  <2>1. a \in Seq(Work) /\ b \in Seq(Work)
    BY <1>1, <1>2
  <2>2. a \o b \in Seq(Work)
    BY <2>1
  <2>3. Len(a \o b) = Len(a) + Len(b)
    BY <2>1
  <2>4. \A j \in 1 .. Len(a) + Len(b) :
           (a \o b)[j] = IF j <= Len(a) THEN a[j] ELSE b[j - Len(a)]
    BY <2>1
  <2> QED
    BY <2>2, <2>3, <2>4
<1>4. Len(s) \in Nat /\ Len(a) + Len(b) = Len(s) - 1
    BY <1>1, <1>2
<1>5. \A j \in 1 .. Len(s) - 1 : (a \o b)[j] = IF j < i THEN s[j] ELSE s[j + 1]
  <2> TAKE j \in 1 .. Len(s) - 1
  <2>1. CASE j < i
    BY <1>1, <1>3, <1>4, <2>1
  <2>2. CASE j >= i
    <3>1. j - (i - 1) \in 1 .. Len(s) - i /\ i + (j - (i - 1)) = j + 1
      BY <1>4, <2>2
    <3>2. (a \o b)[j] = b[j - (i - 1)]
      BY <1>1, <1>3, <1>4, <2>2
    <3> QED
      BY <1>2, <2>2, <3>1, <3>2
  <2> QED
    BY <1>4, <2>1, <2>2
<1> QED
    BY <1>3, <1>4, <1>5, Zenon DEF Without, a, b

\* Initially nothing is queued and every client is idle.
LEMMA InitIInv == Init => IInv
<1> SUFFICES ASSUME Init PROVE IInv
    OBVIOUS
<1> USE WorkQueueAssumption DEF Init
<1>1. /\ pc \in [Thread -> ClientLabel \cup WorkerLabel] /\ pc[Worker] = "take"
      /\ \A c \in Client : pc[c] = "idle"
    BY DEF Thread, ClientLabel, WorkerLabel
<1>2. Labels
  <2>1. \A t \in Thread : pc[t] \in {"take", "idle"}
    BY <1>1 DEF Thread
  <2>2. \A t \in Thread : (mutex = t) <=> pc[t] \in Holding
    BY <2>1 DEF Holding, Thread
  <2>3. waiting = {t \in Thread : pc[t] = "condvar"}
    BY <2>1
  <2>4. arg \in [Thread -> Arg] /\ \A c \in Client : arg[c].op = "none"
    BY DEF Thread, Arg
  <2>5. \A c \in Client : Fits(pc[c], arg[c])
    BY <1>1, <2>4 DEF Fits
  <2> QED
    BY <1>1, <2>2, <2>3, <2>4, <2>5 DEF Labels, ClientLabel, WorkerLabel
<1>3. Data
  <2>1. pending \in Seq(Work) /\ 0 \in 0..MaxOps
    OBVIOUS
  <2>2. bit \in [Work -> BOOLEAN] /\ shutdown \in BOOLEAN
    OBVIOUS
  <2> QED
    BY <2>1, <2>2 DEF Data
<1>4. \A w \in Work : ~Listed(w) /\ ~Pushed(w) /\ ~Held(w) /\ ~Running(w)
    BY <1>1 DEF Listed, Pushed, Held, Running
<1>5. Places
    BY <1>1, <1>4 DEF Places, Distinct, OnePusher
<1>6. Runs
    BY <1>4 DEF Runs, InList, InHand
<1>7. Quiet /\ Shut
    BY <1>1 DEF Quiet, Shut
<1> QED
    BY <1>2, <1>3, <1>5, <1>6, <1>7 DEF IInv

-----------------------------------------------------------------------------
(* Labels *)

(* The thread t goes to label l with argument a, and the waiting threads of  *)
(* W come back from the condition variable.                                  *)
Moves(t, l, a, W) ==
    /\ pc' = [u \in Thread |-> IF u = t THEN l
                               ELSE IF u \in W THEN Resume(u) ELSE pc[u]]
    /\ arg' = [arg EXCEPT ![t] = a] /\ a \in Arg
    /\ waiting' = {u \in waiting : u # t /\ u \notin W} \cup {u \in {t} : l = "condvar"}
    /\ IF l \in Holding THEN mutex' = t /\ mutex \in {t, Nobody}
       ELSE mutex' = IF mutex = t THEN Nobody ELSE mutex
    /\ IF t = Worker
       THEN l \in WorkerLabel /\ (l \in {"current", "clear", "run"} => a.work \in Work)
       ELSE l \in ClientLabel /\ Fits(l, a)

\* A client comes back to the operation it is in.
LEMMA ResumeClient ==
    ASSUME Labels, NEW c \in Client, c \in waiting
    PROVE  Resume(c) = arg[c].op /\ Resume(c) \in {"flush", "cancel", "drain"}
<1>1. c # Worker /\ arg[c].op \in {"flush", "cancel", "drain"}
    BY WorkQueueAssumption DEF Labels, Fits
<1> QED
    BY <1>1 DEF Resume

\* What such a step does to the labels.
LEMMA MovesLabels ==
    ASSUME Labels, NEW t \in Thread, NEW l, NEW a, NEW W \in SUBSET waiting,
           t \notin W, Moves(t, l, a, W)
    PROVE  /\ Labels' /\ pc'[t] = l /\ arg'[t] = a
           /\ \A u \in Thread \ {t} :
                /\ arg'[u] = arg[u]
                /\ \/ pc'[u] = pc[u]
                   \/ pc[u] = "condvar" /\ pc'[u] \in {"take", "flush", "cancel", "drain"}
<1> USE WorkQueueAssumption DEF Moves
<1>1. \A u \in Thread : /\ pc'[u] = IF u = t THEN l
                                    ELSE IF u \in W THEN Resume(u) ELSE pc[u]
                        /\ arg'[u] = IF u = t THEN a ELSE arg[u]
    BY DEF Labels
<1>2. \A u \in W : u \in Thread /\ pc[u] = "condvar"
    BY DEF Labels
<1>3. \A u \in W : IF u = Worker THEN Resume(u) = "take"
                   ELSE Resume(u) = arg[u].op /\ Resume(u) \in {"flush", "cancel", "drain"}
    BY <1>2, ResumeClient DEF Resume, Thread
<1>4. \A u \in Thread \ {t} :
        /\ arg'[u] = arg[u]
        /\ \/ pc'[u] = pc[u]
           \/ pc[u] = "condvar" /\ pc'[u] \in {"take", "flush", "cancel", "drain"}
    BY <1>1, <1>2, <1>3
<1>5. pc'[Worker] \in WorkerLabel /\ \A c \in Client : pc'[c] \in ClientLabel
    BY <1>1, <1>2, <1>3 DEF Labels, Thread, ClientLabel, WorkerLabel
<1>6. pc' \in [Thread -> ClientLabel \cup WorkerLabel]
    BY <1>5 DEF Thread
<1>7. waiting' = {u \in Thread : pc'[u] = "condvar"}
  <2>1. \A u \in W : pc'[u] # "condvar"
    BY <1>1, <1>2, <1>3
  <2> QED
    BY <1>1, <1>2, <2>1 DEF Labels
<1>8. mutex' \in Thread \cup {Nobody} /\ \A u \in Thread : (mutex' = u) <=> pc'[u] \in Holding
  <2>1. \A u \in Thread \ {t} : pc'[u] \in Holding <=> pc[u] \in Holding
    BY <1>4 DEF Holding
  <2>2. \A u \in Thread \ {t} : mutex' = u <=> mutex = u
    BY DEF Labels, Thread
  <2>3. mutex' = t <=> l \in Holding
    BY DEF Labels, Thread
  <2>4. mutex' \in Thread \cup {Nobody}
    BY DEF Labels
  <2> QED
    BY <1>1, <2>1, <2>2, <2>3, <2>4 DEF Labels
<1>9. arg' \in [Thread -> Arg]
    BY DEF Labels
<1>10. \A c \in Client : Fits(pc'[c], arg'[c])
  <2> TAKE c \in Client
  <2>1. c \in Thread /\ c # Worker
    BY DEF Thread
  <2>2. CASE c = t
    BY <1>1, <2>1, <2>2
  <2>3. CASE c # t /\ c \in W
    <3>1. pc'[c] = arg[c].op /\ pc'[c] \in {"flush", "cancel", "drain"} /\ arg'[c] = arg[c]
      BY <1>1, <1>3, <2>1, <2>3
    <3>2. Fits(pc[c], arg[c])
      BY DEF Labels
    <3> QED
      BY <3>1, <3>2 DEF Fits
  <2>4. CASE c # t /\ c \notin W
    BY <1>1, <2>1, <2>4 DEF Labels
  <2> QED
    BY <2>2, <2>3, <2>4
<1>11. pc'[Worker] \in {"current", "clear", "run"} => arg'[Worker].work \in Work
    BY <1>1, <1>3 DEF Labels, Thread
<1> QED
    BY <1>1, <1>4, <1>5, <1>6, <1>7, <1>8, <1>9, <1>10, <1>11 DEF Labels

\* Going to a label wakes nobody.
LEMMA GotoMoves ==
    ASSUME Labels, NEW t \in Thread, NEW l, Goto(t, l), pc[t] # "condvar",
           waiting' = waiting \cup {u \in {t} : l = "condvar"}
    PROVE  /\ pc' = [u \in Thread |-> IF u = t THEN l
                                      ELSE IF u \in {} THEN Resume(u) ELSE pc[u]]
           /\ waiting' = {u \in waiting : u # t /\ u \notin {}}
                         \cup {u \in {t} : l = "condvar"}
<1>1. t \notin waiting
    BY DEF Labels
<1> QED
    BY <1>1, Zenon DEF Labels, Goto

\* notify_one and notify_all wake threads of those that wait.
LEMMA NotifyMoves ==
    ASSUME Labels, NEW t \in Thread, NEW l, pc[t] # "condvar", l # "condvar",
           NotifyOne(t, l) \/ NotifyAll(t, l)
    PROVE  \E W \in SUBSET waiting :
             /\ t \notin W
             /\ pc' = [u \in Thread |-> IF u = t THEN l
                                        ELSE IF u \in W THEN Resume(u) ELSE pc[u]]
             /\ waiting' = {u \in waiting : u # t /\ u \notin W}
                           \cup {u \in {t} : l = "condvar"}
<1>1. t \notin waiting
    BY DEF Labels
<1>2. CASE waiting = {} /\ UNCHANGED waiting /\ Goto(t, l)
  <2>1. waiting' = waiting \cup {u \in {t} : l = "condvar"}
    BY <1>2
  <2> QED
    BY <1>1, <1>2, <2>1, GotoMoves
<1>3. ASSUME NEW w \in waiting, waiting' = waiting \ {w},
             pc' = [pc EXCEPT ![w] = Resume(w), ![t] = l]
      PROVE  /\ {w} \in SUBSET waiting /\ t \notin {w}
             /\ pc' = [u \in Thread |-> IF u = t THEN l
                                        ELSE IF u \in {w} THEN Resume(u) ELSE pc[u]]
             /\ waiting' = {u \in waiting : u # t /\ u \notin {w}}
                           \cup {u \in {t} : l = "condvar"}
  <2>1. w # t /\ w \in Thread
    BY <1>1, <1>3 DEF Labels
  <2>2. \A u \in Thread : pc'[u] = IF u = t THEN l ELSE IF u \in {w} THEN Resume(u) ELSE pc[u]
    BY <1>3, <2>1 DEF Labels
  <2>3. pc' = [u \in Thread |-> pc'[u]]
    BY <1>3, Zenon DEF Labels
  <2> QED
    BY <1>1, <1>3, <2>1, <2>2, <2>3, Zenon
<1>4. CASE NotifyAll(t, l)
  <2>1. waiting' = {u \in waiting : u # t /\ u \notin waiting} \cup {u \in {t} : l = "condvar"}
    BY <1>4 DEF NotifyAll
  <2> QED
    BY <1>1, <1>4, <2>1 DEF NotifyAll
<1>5. CASE \E w \in waiting : /\ waiting' = waiting \ {w}
                               /\ pc' = [pc EXCEPT ![w] = Resume(w), ![t] = l]
  <2> PICK w \in waiting : /\ waiting' = waiting \ {w}
                           /\ pc' = [pc EXCEPT ![w] = Resume(w), ![t] = l]
    BY <1>5, Zenon
  <2> WITNESS {w} \in SUBSET waiting
  <2> QED
    BY <1>3, Zenon
<1> QED
    BY <1>2, <1>4, <1>5 DEF NotifyOne

-----------------------------------------------------------------------------
(* Steps that move no item *)

(* The thread t neither pushes an item nor has one in its hands.             *)
Passive(t, l, a, W) ==
    /\ Moves(t, l, a, W) /\ t \notin W
    /\ l \notin Busy /\ pc[t] \notin Busy /\ pc[t] # "exited"
    /\ current' = IF t = Worker THEN NoWork ELSE current
    /\ \/ shutdown' = shutdown
       \/ t # Worker /\ \A d \in Client \ {t} : pc[d] = "idle"
    /\ t # Worker /\ shutdown' => l \in {"idle", "stop", "join", "destroyed"}
    /\ shutdown => shutdown'
    /\ l = "exited" => shutdown /\ pending = << >>
    /\ l = "destroyed" => pc[Worker] = "exited"
    /\ UNCHANGED <<pending, bit, ran, accepted, cancelled>>
    /\ shutdown' \in BOOLEAN /\ ops' \in [Client -> 0..MaxOps] /\ due' \in [Client -> Nat]

\* Such a step keeps the invariant.
LEMMA PassiveIInv ==
    ASSUME IInv, NEW t \in Thread, NEW l, NEW a, NEW W \in SUBSET waiting,
           Passive(t, l, a, W)
    PROVE  IInv'
<1> USE WorkQueueAssumption
<1>1. /\ Labels' /\ pc'[t] = l
      /\ \A u \in Thread \ {t} :
           /\ arg'[u] = arg[u]
           /\ \/ pc'[u] = pc[u]
              \/ pc[u] = "condvar" /\ pc'[u] \in {"take", "flush", "cancel", "drain"}
    BY MovesLabels DEF IInv, Passive
<1>2. Data'
    BY DEF IInv, Data, Passive
<1>3. \A u \in Thread : /\ pc'[u] \in Busy <=> pc[u] \in Busy
                        /\ pc[u] \in Busy => pc'[u] = pc[u] /\ arg'[u] = arg[u]
    BY <1>1 DEF Passive, Busy
<1>4. \A w \in Work : /\ Listed(w)' <=> Listed(w)
                      /\ Pushed(w)' <=> Pushed(w)
                      /\ Held(w)' <=> Held(w)
                      /\ Running(w)' <=> Running(w)
  <2> TAKE w \in Work
  <2>1. Listed(w)' <=> Listed(w)
    BY DEF Listed, Passive
  <2>2. Pushed(w)' <=> Pushed(w)
    BY <1>3 DEF Pushed, Busy, Thread
  <2>3. (Held(w)' <=> Held(w)) /\ (Running(w)' <=> Running(w))
    BY <1>3 DEF Held, Running, Busy, Thread
  <2> QED
    BY <2>1, <2>2, <2>3
<1>5. Places'
  <2>1. \A d \in Client : pc'[d] = "push" => pc[d] = "push" /\ arg'[d] = arg[d]
    BY <1>3 DEF Busy, Thread
  <2>2. OnePusher'
    BY <2>1, PushersKept
  <2>3. Distinct' /\ UNCHANGED bit
    BY DEF IInv, Places, Distinct, Passive
  <2> QED
    BY <1>4, <2>2, <2>3 DEF IInv, Places
<1>6. Runs'
    BY <1>4 DEF IInv, Runs, InList, InHand, Passive
<1>7. Quiet'
    BY <1>1, <1>3 DEF IInv, Quiet, Passive, Busy, Thread
<1>8. Shut'
  <2>1. shutdown' => \A c \in Client : pc'[c] \in {"idle", "stop", "join", "destroyed"}
    <3> SUFFICES ASSUME shutdown', NEW c \in Client
                 PROVE  pc'[c] \in {"idle", "stop", "join", "destroyed"}
      OBVIOUS
    <3>1. c \in Thread /\ c # Worker
      BY DEF Thread
    <3>2. CASE c = t
      BY <1>1, <3>1, <3>2 DEF Passive
    <3>3. CASE c # t
      <4>1. pc[c] \in {"idle", "stop", "join", "destroyed"}
        BY <3>1, <3>3, Zenon DEF Passive, IInv, Shut
      <4> QED
        BY <1>1, <3>1, <3>3, <4>1
    <3> QED
      BY <3>2, <3>3
  <2>2. pc'[Worker] = "exited" => shutdown' /\ pending' = << >>
    BY <1>1 DEF IInv, Shut, Passive, Thread
  <2>3. \A c \in Client : pc'[c] = "destroyed" => pc'[Worker] = "exited"
    <3> SUFFICES ASSUME NEW c \in Client, pc'[c] = "destroyed" PROVE pc'[Worker] = "exited"
      OBVIOUS
    <3>1. c \in Thread /\ c # Worker /\ Worker \in Thread
      BY DEF Thread
    <3>2. pc[Worker] = "exited"
      <4>1. CASE c = t
        BY <1>1, <3>1, <4>1 DEF Passive
      <4>2. CASE c # t
        <5>1. pc[c] = "destroyed"
          BY <1>1, <3>1, <4>2
        <5> QED
          BY <5>1 DEF IInv, Shut
      <4> QED
        BY <4>1, <4>2
    <3> QED
      BY <1>1, <3>1, <3>2 DEF Passive
  <2> QED
    BY <2>1, <2>2, <2>3 DEF Shut
<1> QED
    BY <1>1, <1>2, <1>5, <1>6, <1>7, <1>8 DEF IInv

\* The worker leaves, decides to wait, waits, and ends a run.
LEMMA WorkerPassiveIInv ==
    ASSUME IInv, WorkerExit \/ WorkerIdle \/ WorkerBlock \/ WorkerDone
    PROVE  IInv'
<1> USE WorkQueueAssumption
<1> DEFINE a == arg[Worker]
<1>1. Worker \in Thread /\ a \in Arg /\ arg = [arg EXCEPT ![Worker] = a]
    BY DEF IInv, Labels, Thread
<1>2. ASSUME NEW l \in {"exited", "block", "condvar", "notify"}, Goto(Worker, l),
             pc[Worker] \in {"take", "block", "done"}, current' = NoWork,
             waiting' = waiting \cup {u \in {Worker} : l = "condvar"},
             IF l \in Holding THEN mutex' = Worker /\ mutex \in {Worker, Nobody}
             ELSE mutex' = IF mutex = Worker THEN Nobody ELSE mutex,
             l = "exited" => shutdown /\ pending = << >>,
             UNCHANGED <<pending, bit, shutdown, arg, ops, history>>
      PROVE  IInv'
  <2>1. Moves(Worker, l, a, {})
    <3>1. l \in WorkerLabel /\ l \notin {"current", "clear", "run"}
      BY DEF WorkerLabel
    <3> QED
      BY <1>1, <1>2, <3>1, GotoMoves DEF Moves, IInv
  <2>2. l \notin Busy /\ pc[Worker] \notin Busy /\ pc[Worker] # "exited" /\ l # "destroyed"
    BY <1>2 DEF Busy
  <2>3. shutdown' \in BOOLEAN /\ ops' \in [Client -> 0..MaxOps] /\ due' \in [Client -> Nat]
    BY <1>2 DEF IInv, Data, history
  <2>4. Passive(Worker, l, a, {})
    BY <1>2, <2>1, <2>2, <2>3 DEF Passive, history
  <2> QED
    BY <1>1, <2>4, PassiveIInv
<1>3. pc[Worker] \in {"take", "block"} => current = NoWork
    BY DEF IInv, Quiet
<1>4. pc[Worker] \in {"take", "done"} => mutex # Worker
    BY <1>1 DEF IInv, Labels, Holding
<1> USE DEF queue, Holding
<1>5. CASE WorkerExit
  <2>1. waiting' = waiting \cup {u \in {Worker} : "exited" = "condvar"}
    BY <1>5 DEF WorkerExit
  <2> QED
    BY <1>2, <1>3, <1>4, <1>5, <2>1 DEF WorkerExit
<1>6. CASE WorkerIdle
  <2>1. waiting' = waiting \cup {u \in {Worker} : "block" = "condvar"}
    BY <1>6 DEF WorkerIdle
  <2> QED
    BY <1>2, <1>3, <1>6, <2>1 DEF WorkerIdle
<1>7. CASE WorkerBlock
  <2>1. waiting' = waiting \cup {u \in {Worker} : "condvar" = "condvar"}
    BY <1>7 DEF WorkerBlock, Block
  <2> QED
    BY <1>2, <1>3, <1>7, <2>1 DEF WorkerBlock, Block
<1>8. CASE WorkerDone
  <2>1. waiting' = waiting \cup {u \in {Worker} : "notify" = "condvar"}
    BY <1>8 DEF WorkerDone
  <2> QED
    BY <1>2, <1>4, <1>8, <2>1 DEF WorkerDone
<1> QED
    BY <1>5, <1>6, <1>7, <1>8

\* A client that goes to a label without an item to push.
LEMMA ClientGoes ==
    ASSUME IInv, NEW c \in Client, NEW l \in ClientLabel \ Busy, NEW a \in Arg, Goto(c, l),
           pc[c] \notin Busy \cup {"condvar"}, arg' = [arg EXCEPT ![c] = a], Fits(l, a),
           waiting' = waiting \cup {u \in {c} : l = "condvar"},
           IF l \in Holding THEN mutex' = c /\ mutex \in {c, Nobody}
           ELSE mutex' = IF mutex = c THEN Nobody ELSE mutex,
           shutdown' = shutdown \/ \A d \in Client \ {c} : pc[d] = "idle",
           shutdown' => l \in {"idle", "stop", "join", "destroyed"},
           shutdown => shutdown', shutdown' \in BOOLEAN,
           l = "destroyed" => pc[Worker] = "exited",
           UNCHANGED <<pending, bit, current, ran, accepted, cancelled>>,
           ops' \in [Client -> 0..MaxOps], due' \in [Client -> Nat]
    PROVE  IInv'
<1>1. c \in Thread /\ c # Worker
    BY WorkQueueAssumption DEF Thread
<1>2. Moves(c, l, a, {})
    BY <1>1, GotoMoves DEF Moves, IInv
<1>3. l \notin Busy /\ pc[c] \notin Busy /\ pc[c] # "exited" /\ l # "exited"
    BY DEF ClientLabel, IInv, Labels
<1>4. Passive(c, l, a, {})
    BY <1>1, <1>2, <1>3 DEF Passive
<1> QED
    BY <1>1, <1>4, PassiveIInv

\* The calls of a client that queue nothing.
LEMMA CallIInv ==
    ASSUME IInv, NEW c \in Client,
           \/ \E w \in Work : FlushWork(c, w) \/ CancelWork(c, w)
           \/ DrainWorkqueue(c) \/ DestroyWorkqueue(c)
    PROVE  IInv'
<1> USE WorkQueueAssumption
<1>1. ASSUME NEW l \in {"flush", "remove", "drain", "stop"}, NEW operation,
             NEW w \in Work \cup {NoWork}, Enter(c, operation, w), Goto(c, l),
             Fits(l, [op |-> operation, work |-> w]),
             UNCHANGED <<pending, bit, current, mutex, waiting, ran, accepted, cancelled>>,
             \/ UNCHANGED shutdown
             \/ l = "stop" /\ shutdown' = TRUE /\ \A d \in Client \ {c} : pc[d] = "idle",
             due' \in [Client -> Nat]
      PROVE  IInv'
  <2>1. pc[c] = "idle" /\ ~shutdown /\ c \in Thread
    BY <1>1 DEF Enter, Thread
  <2>2. [op |-> operation, work |-> w] \in Arg
    BY <1>1 DEF Enter, Arg
  <2>3. ops' \in [Client -> 0..MaxOps]
    BY <1>1, EnterOps, Zenon DEF Enter
  <2>4. l \in ClientLabel \ Busy /\ pc[c] \notin Busy \cup {"condvar"} /\ l \notin Holding
        /\ l \notin {"condvar", "destroyed"}
    BY <2>1 DEF ClientLabel, Busy, Holding
  <2>5. mutex # c
    BY <2>1 DEF IInv, Labels, Holding
  <2>6. waiting' = waiting \cup {u \in {c} : l = "condvar"}
    BY <1>1, <2>4
  <2>7. shutdown' \in BOOLEAN /\ (shutdown' => l = "stop")
    <3>1. CASE UNCHANGED shutdown
      BY <2>1, <3>1 DEF IInv, Data
    <3>2. CASE l = "stop" /\ shutdown' = TRUE
      BY <3>2
    <3> QED
      BY <1>1, <3>1, <3>2, Zenon
  <2>8. arg' = [arg EXCEPT ![c] = [op |-> operation, work |-> w]]
    BY <1>1 DEF Enter
  <2> QED
    BY <1>1, <2>1, <2>2, <2>3, <2>4, <2>5, <2>6, <2>7, <2>8, ClientGoes, Zenon
<1>2. ASSUME NEW w \in Work, FlushWork(c, w) PROVE IInv'
  <2>1. due' \in [Client -> Nat]
    BY <1>2 DEF FlushWork, IInv, Data
  <2> QED
    BY <1>1, <1>2, <2>1 DEF FlushWork, Fits, queue
<1>3. ASSUME NEW w \in Work, CancelWork(c, w) PROVE IInv'
    BY <1>1, <1>3 DEF CancelWork, Fits, queue, history, IInv, Data
<1>4. CASE DrainWorkqueue(c)
    BY <1>1, <1>4, Zenon DEF DrainWorkqueue, Fits, queue, history, IInv, Data
<1>5. CASE DestroyWorkqueue(c)
    BY <1>1, <1>5, Zenon DEF DestroyWorkqueue, Fits, history, IInv, Data
<1> QED
    BY <1>2, <1>3, <1>4, <1>5

\* The steps of a call that only move the client.
LEMMA ClientPassiveIInv ==
    ASSUME IInv, NEW c \in Client,
           \/ FlushScan(c) \/ FlushWait(c) \/ CancelLock(c) \/ CancelTest(c)
           \/ DrainTest(c) \/ ClientBlock(c) \/ DestroyJoin(c)
    PROVE  IInv'
<1> USE WorkQueueAssumption
<1> DEFINE a == arg[c]
<1>1. /\ c \in Thread /\ c # Worker /\ c # Nobody /\ a \in Arg
      /\ arg = [arg EXCEPT ![c] = a] /\ Fits(pc[c], a)
    BY DEF IInv, Labels, Thread
<1>2. /\ ops \in [Client -> 0..MaxOps] /\ due \in [Client -> Nat]
      /\ shutdown \in BOOLEAN
    BY DEF IInv, Data
<1>3. (mutex = c) <=> pc[c] \in Holding
    BY <1>1 DEF IInv, Labels
<1>4. pc[c] \notin {"idle", "stop", "join", "destroyed"} => ~shutdown
    BY DEF IInv, Shut
<1>5. ASSUME NEW l \in {"idle", "flush_wait", "condvar", "cancel_test", "block", "destroyed"},
             Goto(c, l), pc[c] \notin {"push", "condvar"}, Fits(l, a),
             waiting' = waiting \cup {u \in {c} : l = "condvar"},
             IF l \in Holding THEN mutex' = c /\ mutex \in {c, Nobody}
             ELSE mutex' = IF mutex = c THEN Nobody ELSE mutex,
             l # "destroyed" => ~shutdown,
             l = "destroyed" => pc[Worker] = "exited",
             UNCHANGED <<queue, arg, ops, history>>
      PROVE  IInv'
  <2>1. l \in ClientLabel \ Busy /\ pc[c] \notin Busy \cup {"condvar"}
    BY <1>5 DEF ClientLabel, Busy, IInv, Labels
  <2>2. shutdown' = shutdown /\ shutdown' \in BOOLEAN
    BY <1>2, <1>5, Zenon DEF queue
  <2>3. shutdown' => l \in {"idle", "stop", "join", "destroyed"}
    BY <1>5, <2>2, Zenon
  <2>4. UNCHANGED <<pending, bit, current, ran, accepted, cancelled, ops, due, arg>>
    BY <1>5, Zenon DEF queue, history
  <2> QED
    BY <1>1, <1>2, <1>5, <2>1, <2>2, <2>3, <2>4, ClientGoes
<1> USE DEF Holding
<1>6. ASSUME NEW l \in {"idle", "flush_wait", "cancel_test", "block", "destroyed"}, UNCHANGED waiting
      PROVE  waiting' = waiting \cup {u \in {c} : l = "condvar"}
    BY <1>6
<1>7. Fits("idle", a) /\ Fits("destroyed", a)
    BY <1>1 DEF Fits
<1>8. CASE FlushScan(c)
  <2>1. Fits("flush_wait", a)
    BY <1>1, <1>8 DEF Fits, FlushScan
  <2> QED
    BY <1>3, <1>4, <1>5, <1>6, <1>7, <1>8, <2>1 DEF FlushScan
<1>9. CASE FlushWait(c)
  <2>1. Fits("condvar", a)
    BY <1>1, <1>9 DEF Fits, FlushWait
  <2>2. waiting' = waiting \cup {u \in {c} : "condvar" = "condvar"}
    BY <1>9 DEF FlushWait
  <2> QED
    BY <1>3, <1>4, <1>5, <1>9, <2>1, <2>2 DEF FlushWait
<1>10. CASE CancelLock(c)
  <2>1. Fits("cancel_test", a)
    BY <1>1, <1>10 DEF Fits, CancelLock
  <2> QED
    BY <1>3, <1>4, <1>5, <1>6, <1>10, <2>1 DEF CancelLock
<1>11. CASE CancelTest(c)
  <2>1. Fits("block", a)
    BY <1>1, <1>11 DEF Fits, CancelTest
  <2> QED
    BY <1>3, <1>4, <1>5, <1>6, <1>7, <1>11, <2>1 DEF CancelTest, Return
<1>12. CASE DrainTest(c)
  <2>1. Fits("block", a)
    BY <1>1, <1>12 DEF Fits, DrainTest
  <2> QED
    BY <1>3, <1>4, <1>5, <1>6, <1>7, <1>12, <2>1 DEF DrainTest, Return
<1>13. CASE ClientBlock(c)
  <2>1. Fits("condvar", a)
    BY <1>1, <1>13 DEF Fits, ClientBlock
  <2>2. waiting' = waiting \cup {u \in {c} : "condvar" = "condvar"}
    BY <1>13 DEF ClientBlock, Block
  <2> QED
    BY <1>3, <1>4, <1>5, <1>13, <2>1, <2>2 DEF ClientBlock, Block
<1>14. CASE DestroyJoin(c)
    BY <1>3, <1>5, <1>6, <1>7, <1>14 DEF DestroyJoin
<1> QED
    BY <1>8, <1>9, <1>10, <1>11, <1>12, <1>13, <1>14

\* The notifications, by the worker and by the clients.
LEMMA NotifyIInv ==
    ASSUME IInv, NEW t \in Thread,
           \/ t = Worker /\ WorkerNotify
           \/ t \in Client /\ (QueueWake(t) \/ DestroyNotify(t))
    PROVE  IInv'
<1> USE WorkQueueAssumption
<1>1. PICK l \in {"take", "idle", "join"} :
        /\ NotifyOne(t, l) \/ NotifyAll(t, l)
        /\ IF t = Worker THEN l = "take" /\ pc[t] = "notify"
           ELSE \/ l = "idle" /\ pc[t] = "wake"
                \/ l = "join" /\ pc[t] = "stop"
        /\ UNCHANGED <<queue, mutex, arg, ops, history>>
    BY DEF WorkerNotify, QueueWake, DestroyNotify
<1>2. PICK W \in SUBSET waiting :
        /\ t \notin W
        /\ pc' = [u \in Thread |-> IF u = t THEN l
                                   ELSE IF u \in W THEN Resume(u) ELSE pc[u]]
        /\ waiting' = {u \in waiting : u # t /\ u \notin W} \cup {u \in {t} : l = "condvar"}
    BY <1>1, NotifyMoves DEF IInv
<1>3. Moves(t, l, arg[t], W)
  <2>1. arg[t] \in Arg /\ arg' = [arg EXCEPT ![t] = arg[t]]
    BY <1>1 DEF IInv, Labels
  <2>2. mutex # t /\ l \notin Holding
    BY <1>1 DEF IInv, Labels, Holding
  <2>3. t # Worker => l \in ClientLabel /\ Fits(l, arg[t])
    BY <1>1 DEF IInv, Labels, Fits, ClientLabel, Thread
  <2>4. l = "take" => l \in WorkerLabel /\ l \notin {"current", "clear", "run"}
    BY DEF WorkerLabel
  <2> QED
    BY <1>1, <1>2, <2>1, <2>2, <2>3, <2>4, Zenon DEF Moves
<1>4. Passive(t, l, arg[t], W)
  <2>1. l \notin Busy /\ pc[t] \notin Busy /\ pc[t] # "exited" /\ l \notin {"exited", "destroyed"}
    BY <1>1 DEF Busy
  <2>2. current' = IF t = Worker THEN NoWork ELSE current
    BY <1>1 DEF IInv, Quiet, queue
  <2>3. shutdown' \in BOOLEAN /\ ops' \in [Client -> 0..MaxOps] /\ due' \in [Client -> Nat]
    BY <1>1 DEF IInv, Data, queue, history
  <2>4. shutdown' = shutdown /\ UNCHANGED <<pending, bit, ran, accepted, cancelled>>
    BY <1>1 DEF queue, history
  <2>5. t # Worker => l \in {"idle", "join"}
    BY <1>1
  <2> QED
    BY <1>2, <1>3, <2>1, <2>2, <2>3, <2>4, <2>5 DEF Passive
<1> QED
    BY <1>4, PassiveIInv

\* A thread leaves the condition variable for no reason.
LEMMA SpuriousIInv ==
    ASSUME IInv, NEW t \in Thread, Spurious(t)
    PROVE  IInv'
<1> USE WorkQueueAssumption
<1> DEFINE l == Resume(t)
<1>1. /\ pc[t] = "condvar" /\ t \in waiting
      /\ UNCHANGED <<queue, mutex, arg, ops, history>>
    BY DEF Spurious, IInv, Labels
<1>2. IF t = Worker THEN l = "take"
      ELSE l = arg[t].op /\ l \in {"flush", "cancel", "drain"}
    BY <1>1, ResumeClient DEF Resume, IInv, Thread
<1> HIDE DEF l
<1>3. Moves(t, l, arg[t], {})
  <2>1. arg[t] \in Arg /\ arg' = [arg EXCEPT ![t] = arg[t]]
    BY <1>1 DEF IInv, Labels
  <2>2. mutex # t /\ l \notin Holding
    BY <1>1, <1>2 DEF IInv, Labels, Holding
  <2>3. t # Worker => l \in ClientLabel /\ Fits(l, arg[t])
    BY <1>1, <1>2 DEF IInv, Labels, Fits, ClientLabel, Thread
  <2>4. l = "take" => l \in WorkerLabel /\ l \notin {"current", "clear", "run"}
    BY DEF WorkerLabel
  <2>5. pc' = [u \in Thread |-> IF u = t THEN l ELSE IF u \in {} THEN Resume(u) ELSE pc[u]]
    BY Zenon DEF Spurious, Goto, IInv, Labels, l
  <2>6. waiting' = {u \in waiting : u # t /\ u \notin {}} \cup {u \in {t} : l = "condvar"}
    BY <1>2 DEF Spurious
  <2> QED
    BY <1>1, <1>2, <2>1, <2>2, <2>3, <2>4, <2>5, <2>6, Zenon DEF Moves
<1>4. Passive(t, l, arg[t], {})
  <2>1. l \notin Busy /\ pc[t] \notin Busy /\ pc[t] # "exited" /\ l \notin {"exited", "destroyed"}
    BY <1>1, <1>2 DEF Busy
  <2>2. current' = IF t = Worker THEN NoWork ELSE current
    BY <1>1 DEF IInv, Quiet, queue
  <2>3. shutdown' \in BOOLEAN /\ ops' \in [Client -> 0..MaxOps] /\ due' \in [Client -> Nat]
    BY <1>1 DEF IInv, Data, queue, history
  <2>4. shutdown' = shutdown /\ UNCHANGED <<pending, bit, ran, accepted, cancelled>>
    BY <1>1 DEF queue, history
  <2>5. t # Worker => ~shutdown
    BY <1>1 DEF IInv, Shut, Thread
  <2> QED
    BY <1>3, <2>1, <2>2, <2>3, <2>4, <2>5 DEF Passive
<1> QED
    BY <1>4, PassiveIInv

-----------------------------------------------------------------------------
(* Steps that move an item *)

\* What the step of one thread does to labels and shutdown.
LEMMA ActiveStep ==
    ASSUME IInv, NEW t \in Thread, NEW l, NEW a \in Arg, Goto(t, l),
           arg' = [arg EXCEPT ![t] = a], UNCHANGED <<waiting, shutdown>>,
           pc[t] # "condvar", l \notin {"condvar", "exited", "destroyed"},
           IF l \in Holding THEN mutex' = t /\ mutex \in {t, Nobody}
           ELSE mutex' = IF mutex = t THEN Nobody ELSE mutex,
           IF t = Worker
           THEN /\ pc[Worker] # "exited" /\ l \in WorkerLabel
                /\ l \in {"current", "clear", "run"} => a.work \in Work
           ELSE ~shutdown /\ l \in ClientLabel /\ Fits(l, a)
    PROVE  /\ Labels' /\ Shut' /\ pc'[t] = l /\ arg'[t] = a
           /\ \A u \in Thread \ {t} : pc'[u] = pc[u] /\ arg'[u] = arg[u]
<1> USE WorkQueueAssumption
<1>1. Moves(t, l, a, {})
  <2>1. waiting' = waiting \cup {u \in {t} : l = "condvar"}
    OBVIOUS
  <2> QED
    BY <2>1, GotoMoves DEF Moves, IInv
<1>2. Labels' /\ pc'[t] = l /\ arg'[t] = a
  <2>1. Labels /\ {} \in SUBSET waiting
    BY DEF IInv
  <2> HIDE DEF Labels
  <2>2. Labels' /\ pc'[t] = l
    BY <1>1, <2>1, MovesLabels
  <2>3. arg'[t] = a
    BY <2>1 DEF Labels
  <2> QED
    BY <2>2, <2>3
<1>3. \A u \in Thread \ {t} : pc'[u] = pc[u] /\ arg'[u] = arg[u]
    BY DEF IInv, Labels, Goto
<1>4. pc[Worker] # "exited" /\ \A c \in Client : pc[c] # "destroyed"
    BY DEF IInv, Shut
<1>5. pc'[Worker] # "exited" /\ \A c \in Client : pc'[c] # "destroyed"
    BY <1>2, <1>3, <1>4 DEF Thread
<1>6. shutdown' => \A c \in Client : pc'[c] \in {"idle", "stop", "join", "destroyed"}
    BY <1>3 DEF IInv, Shut, Thread
<1> QED
    BY <1>2, <1>3, <1>5, <1>6 DEF Shut

\* queue_work sets the bit of an item that is nowhere, or finds it set.
LEMMA QueueWorkIInv ==
    ASSUME IInv, NEW c \in Client, NEW w \in Work, QueueWork(c, w)
    PROVE  IInv'
<1> USE WorkQueueAssumption
<1> DEFINE a == [op |-> "queue", work |-> w]
<1>1. /\ c \in Thread /\ c # Worker /\ Worker \in Thread /\ pc[c] = "idle" /\ ~shutdown
      /\ mutex # c
    BY DEF QueueWork, Enter, Thread, IInv, Labels, Holding
<1>2. a \in Arg /\ arg' = [arg EXCEPT ![c] = a] /\ a.op = "queue" /\ a.work = w
    BY DEF QueueWork, Enter, Arg
<1>3. ops' \in [Client -> 0..MaxOps]
    BY EnterOps, Zenon DEF QueueWork, Enter
<1>4. /\ UNCHANGED <<pending, current, shutdown, mutex, waiting>>
      /\ UNCHANGED <<ran, accepted, cancelled, due>>
      /\ bit' = [bit EXCEPT ![w] = TRUE]
    BY DEF QueueWork, history
<1> HIDE DEF a
<1>5. CASE bit[w]
  <2>1. bit' = bit
    <3>1. bit[w] = TRUE
      BY <1>5 DEF IInv, Data
    <3> QED
      BY <1>4, <3>1 DEF IInv, Data
  <2>2. Goto(c, "idle")
    BY <1>5 DEF QueueWork
  <2>3. "idle" \in ClientLabel \ Busy /\ pc[c] \notin Busy \cup {"condvar"} /\ "idle" \notin Holding
    BY <1>1 DEF ClientLabel, Busy, Holding
  <2>4. Fits("idle", a)
    BY <1>2 DEF Fits
  <2>5. shutdown' \in BOOLEAN /\ due' \in [Client -> Nat]
    BY <1>4 DEF IInv, Data
  <2>6. waiting' = waiting \cup {u \in {c} : "idle" = "condvar"}
    BY <1>4
  <2> QED
    BY <1>1, <1>2, <1>3, <1>4, <2>1, <2>2, <2>3, <2>4, <2>5, <2>6, ClientGoes, Zenon
<1>6. CASE ~bit[w]
  <2>1. Goto(c, "push")
    BY <1>6 DEF QueueWork
  <2>2. /\ Labels' /\ Shut' /\ pc'[c] = "push" /\ arg'[c] = a
        /\ \A u \in Thread \ {c} : pc'[u] = pc[u] /\ arg'[u] = arg[u]
    <3>1. "push" \in ClientLabel /\ Fits("push", a) /\ "push" \notin Holding
      BY <1>2 DEF ClientLabel, Fits, Holding
    <3> QED
      BY <1>1, <1>2, <1>4, <2>1, <3>1, ActiveStep, Zenon
  <2>3. ~Listed(w) /\ ~Pushed(w) /\ ~Held(w)
    BY <1>6 DEF IInv, Places
  <2>4. \A v \in Work : /\ Listed(v)' <=> Listed(v)
                        /\ Pushed(v)' <=> Pushed(v) \/ v = w
                        /\ Held(v)' <=> Held(v)
                        /\ Running(v)' <=> Running(v)
    <3> TAKE v \in Work
    <3>1. Listed(v)' <=> Listed(v)
      BY <1>4 DEF Listed
    <3>2. Pushed(v)' <=> Pushed(v) \/ v = w
      BY <1>1, <1>2, <2>2 DEF Pushed, Thread
    <3>3. (Held(v)' <=> Held(v)) /\ (Running(v)' <=> Running(v))
      BY <1>1, <2>2 DEF Held, Running
    <3> QED
      BY <3>1, <3>2, <3>3
  <2>5. Data'
    <3>1. bit' \in [Work -> BOOLEAN]
      BY <1>4 DEF IInv, Data
    <3> QED
      BY <1>3, <1>4, <3>1 DEF IInv, Data
  <2>6. Places'
    <3>1. OnePusher' /\ Distinct'
      <4>1. \A d \in Client \ {c} : pc'[d] = pc[d] /\ arg'[d] = arg[d]
        BY <2>2 DEF Thread
      <4>2. \A d \in Client \ {c} : pc[d] = "push" => arg[d].work # w
        BY <2>3 DEF Pushed
      <4>3. OnePusher
        BY DEF IInv, Places
      <4>4. ASSUME NEW d \in Client, NEW e \in Client, pc'[d] = "push", pc'[e] = "push",
                   arg'[d].work = arg'[e].work
            PROVE  d = e
        <5>1. arg'[c].work = w
          BY <1>2, <2>2
        <5>2. CASE d # c /\ e # c
          BY <4>1, <4>3, <4>4, <5>2 DEF OnePusher
        <5>3. CASE d = c \/ e = c
          BY <4>1, <4>2, <4>4, <5>1, <5>3
        <5> QED
          BY <5>2, <5>3
      <4>5. Distinct'
        BY <1>4 DEF IInv, Places, Distinct
      <4> QED
        BY <4>4, <4>5 DEF OnePusher
    <3>2. \A v \in Work : bit'[v] <=> bit[v] \/ v = w
      BY <1>4 DEF IInv, Data
    <3>3. \A v \in Work : /\ bit'[v] <=> Listed(v)' \/ Pushed(v)' \/ Held(v)'
                          /\ ~(Listed(v)' /\ Pushed(v)')
                          /\ ~(Listed(v)' /\ Held(v)')
                          /\ ~(Pushed(v)' /\ Held(v)')
      BY <2>3, <2>4, <3>2 DEF IInv, Places
    <3> QED
      BY <3>1, <3>3 DEF Places
  <2>7. Runs' /\ Quiet'
    BY <1>1, <1>4, <2>2, <2>4, Zenon DEF IInv, Runs, InList, InHand, Quiet
  <2> QED
    BY <2>2, <2>5, <2>6, <2>7 DEF IInv
<1> QED
    BY <1>5, <1>6

\* The push moves the item from the hands of the client to the list.
LEMMA QueuePushIInv ==
    ASSUME IInv, NEW c \in Client, QueuePush(c)
    PROVE  IInv'
<1> USE WorkQueueAssumption
<1> DEFINE w == arg[c].work
<1>1. /\ c \in Thread /\ c # Worker /\ Worker \in Thread /\ pc[c] = "push" /\ mutex # c
      /\ arg[c] \in Arg /\ Fits("push", arg[c]) /\ w \in Work
    BY DEF QueuePush, Thread, IInv, Labels, Fits
<1>2. /\ UNCHANGED <<bit, current, shutdown, mutex, waiting, arg, ops, ran, cancelled, due>>
      /\ pending' = Append(pending, w) /\ accepted' = [accepted EXCEPT ![w] = @ + 1]
      /\ Goto(c, "wake")
    BY DEF QueuePush
<1>3. ~shutdown
    BY <1>1 DEF IInv, Shut
<1>4. /\ Labels' /\ Shut' /\ pc'[c] = "wake"
      /\ \A u \in Thread \ {c} : pc'[u] = pc[u] /\ arg'[u] = arg[u]
  <2>1. "wake" \in ClientLabel /\ Fits("wake", arg[c]) /\ "wake" \notin Holding
    BY <1>1 DEF ClientLabel, Fits, Holding
  <2>2. arg' = [arg EXCEPT ![c] = arg[c]]
    BY <1>2 DEF IInv, Labels
  <2> QED
    BY <1>1, <1>2, <1>3, <2>1, <2>2, ActiveStep, Zenon
<1>5. Pushed(w) /\ ~Listed(w) /\ ~Held(w)
    BY <1>1 DEF IInv, Places, Pushed
<1>6. /\ pending \in Seq(Work) /\ pending' \in Seq(Work) /\ Len(pending) \in Nat
      /\ Len(pending') = Len(pending) + 1
      /\ \A i \in 1 .. Len(pending) : pending'[i] = pending[i]
      /\ pending'[Len(pending) + 1] = w
  <2>1. pending \in Seq(Work)
    BY DEF IInv, Data
  <2> DEFINE s == Append(pending, w)
  <2>2. /\ s \in Seq(Work) /\ Len(pending) \in Nat /\ Len(s) = Len(pending) + 1
        /\ \A i \in 1 .. Len(pending) : s[i] = pending[i]
        /\ s[Len(pending) + 1] = w
    <3> HIDE DEF w
    <3>1. s \in Seq(Work) /\ Len(pending) \in Nat /\ Len(s) = Len(pending) + 1
      BY <1>1, <2>1
    <3>2. s[Len(pending) + 1] = w
      BY <1>1, <2>1
    <3>3. \A i \in 1 .. Len(pending) : s[i] = pending[i]
      BY <1>1, <2>1
    <3> QED
      BY <3>1, <3>2, <3>3
  <2>3. pending' = s
    BY <1>2
  <2> HIDE DEF s
  <2> QED
    BY <2>1, <2>2, <2>3
<1>7. accepted' \in [Work -> Nat]
      /\ \A v \in Work : accepted'[v] = IF v = w THEN accepted[v] + 1 ELSE accepted[v]
  <2>1. accepted \in [Work -> Nat] /\ accepted' = [accepted EXCEPT ![w] = accepted[w] + 1]
    BY <1>2 DEF IInv, Data
  <2> HIDE DEF w
  <2>2. accepted' \in [Work -> Nat]
    BY <1>1, <2>1
  <2>3. ASSUME NEW v \in Work
        PROVE  accepted'[v] = IF v = w THEN accepted[v] + 1 ELSE accepted[v]
    <3>1. CASE v = w
      BY <2>1, <3>1
    <3>2. CASE v # w
      BY <2>1, <3>2
    <3> QED
      BY <3>1, <3>2
  <2> QED
    BY <2>2, <2>3
<1> HIDE DEF w
<1>8. \A v \in Work : /\ Listed(v)' <=> Listed(v) \/ v = w
                      /\ Pushed(v)' <=> Pushed(v) /\ v # w
                      /\ Held(v)' <=> Held(v)
                      /\ Running(v)' <=> Running(v)
  <2> TAKE v \in Work
  <2>1. Listed(v)' <=> Listed(v) \/ v = w
    BY <1>6 DEF Listed
  <2>2. Pushed(v)' <=> Pushed(v) /\ v # w
    <3>1. \A d \in Client : pc'[d] = "push" <=> pc[d] = "push" /\ d # c
      BY <1>4 DEF Thread
    <3>2. \A d \in Client : pc[d] = "push" /\ arg[d].work = w => d = c
      BY <1>1 DEF IInv, Places, OnePusher, w
    <3> QED
      BY <1>2, <3>1, <3>2 DEF Pushed, w
  <2>3. (Held(v)' <=> Held(v)) /\ (Running(v)' <=> Running(v))
    BY <1>1, <1>4 DEF Held, Running
  <2> QED
    BY <2>1, <2>2, <2>3
<1>9. Data'
    BY <1>2, <1>6, <1>7 DEF IInv, Data
<1>10. Places'
  <2>1. Distinct'
    <3> SUFFICES ASSUME NEW i \in 1 .. Len(pending'), NEW j \in 1 .. Len(pending'),
                        pending'[i] = pending'[j]
                 PROVE  i = j
      BY DEF Distinct
    <3>1. CASE i \in 1 .. Len(pending) /\ j \in 1 .. Len(pending)
      BY <1>6, <3>1 DEF IInv, Places, Distinct
    <3>2. CASE i = Len(pending) + 1 /\ j \in 1 .. Len(pending)
      BY <1>5, <1>6, <3>2 DEF Listed
    <3>3. CASE j = Len(pending) + 1 /\ i \in 1 .. Len(pending)
      BY <1>5, <1>6, <3>3 DEF Listed
    <3> QED
      BY <1>6, <3>1, <3>2, <3>3
  <2>2. OnePusher'
    <3>1. \A d \in Client : pc'[d] = "push" => pc[d] = "push" /\ arg'[d] = arg[d]
      BY <1>1, <1>4 DEF Thread
    <3> QED
      BY <3>1, PushersKept
  <2>3. \A v \in Work : /\ bit'[v] <=> Listed(v)' \/ Pushed(v)' \/ Held(v)'
                        /\ ~(Listed(v)' /\ Pushed(v)')
                        /\ ~(Listed(v)' /\ Held(v)')
                        /\ ~(Pushed(v)' /\ Held(v)')
    BY <1>2, <1>5, <1>8 DEF IInv, Places
  <2> QED
    BY <2>1, <2>2, <2>3 DEF Places
<1>11. Runs'
  <2> SUFFICES ASSUME NEW v \in Work
               PROVE  accepted'[v] = ran'[v] + cancelled'[v] + InList(v)' + InHand(v)'
    BY DEF Runs
  <2>0. /\ accepted[v] \in Nat /\ ran[v] \in Nat /\ cancelled[v] \in Nat
        /\ InList(v) \in Nat /\ InHand(v) \in Nat
        /\ accepted[v] = ran[v] + cancelled[v] + InList(v) + InHand(v)
    BY RunOf
  <2>1. /\ ran'[v] = ran[v] /\ cancelled'[v] = cancelled[v]
        /\ accepted'[v] = IF v = w THEN accepted[v] + 1 ELSE accepted[v]
        /\ Listed(v)' <=> Listed(v) \/ v = w
        /\ Held(v)' \/ Running(v)' <=> Held(v) \/ Running(v)
        /\ v = w => ~Listed(v)
    BY <1>2, <1>5, <1>7, <1>8
  <2>2. CASE v = w
    <3>1. InList(v) = 0 /\ InList(v)' = 1 /\ InHand(v)' = InHand(v)
          /\ accepted'[v] = accepted[v] + 1 /\ ran'[v] = ran[v] /\ cancelled'[v] = cancelled[v]
      BY <2>1, <2>2 DEF InList, InHand
    <3>2. InList(v) = 0
      BY <3>1
    <3>3. accepted[v] + 1 = ran[v] + cancelled[v] + 1 + InHand(v)
      BY <2>0, <3>2
    <3> QED
      BY <3>1, <3>3
  <2>3. CASE v # w
    <3>1. InList(v)' = InList(v) /\ InHand(v)' = InHand(v)
          /\ accepted'[v] = accepted[v] /\ ran'[v] = ran[v] /\ cancelled'[v] = cancelled[v]
      BY <2>1, <2>3 DEF InList, InHand
    <3> QED
      BY <2>0, <3>1
  <2> QED
    BY <2>2, <2>3
<1>12. Quiet'
    BY <1>1, <1>2, <1>4 DEF IInv, Quiet
<1> QED
    BY <1>4, <1>9, <1>10, <1>11, <1>12 DEF IInv

\* One element leaves the list: the others stay, each once.
LEMMA ListLoses ==
    ASSUME pending \in Seq(Work), pending' \in Seq(Work), NEW i \in 1 .. Len(pending),
           Distinct, Len(pending') = Len(pending) - 1,
           \A j \in 1 .. Len(pending) - 1 :
              pending'[j] = IF j < i THEN pending[j] ELSE pending[j + 1]
    PROVE  /\ Distinct'
           /\ \A v \in Work : Listed(v)' <=> Listed(v) /\ v # pending[i]
<1>1. Len(pending) \in Nat
    OBVIOUS
<1> DEFINE at(j) == IF j < i THEN j ELSE j + 1
<1>2. \A j \in 1 .. Len(pending') : /\ at(j) \in 1 .. Len(pending) /\ at(j) # i
                                    /\ pending'[j] = pending[at(j)]
  <2> TAKE j \in 1 .. Len(pending')
  <2>1. j \in 1 .. Len(pending) - 1 /\ at(j) \in 1 .. Len(pending) /\ at(j) # i
    BY <1>1
  <2>2. pending'[j] = IF j < i THEN pending[j] ELSE pending[j + 1]
    BY <2>1
  <2> QED
    BY <2>1, <2>2
<1>3. \A j, k \in 1 .. Len(pending') : at(j) = at(k) => j = k
    BY <1>1
<1>4. \A k \in 1 .. Len(pending) : k # i => \E j \in 1 .. Len(pending') : at(j) = k
  <2> SUFFICES ASSUME NEW k \in 1 .. Len(pending), k # i
               PROVE  \E j \in 1 .. Len(pending') : at(j) = k
    OBVIOUS
  <2>1. CASE k < i
    <3>1. k \in 1 .. Len(pending') /\ at(k) = k
      BY <1>1, <2>1
    <3> QED
      BY <3>1
  <2>2. CASE k > i
    <3>1. k - 1 \in 1 .. Len(pending') /\ at(k - 1) = k
      BY <1>1, <2>2
    <3> QED
      BY <3>1, Zenon
  <2> QED
    BY <1>1, <2>1, <2>2
<1> HIDE DEF at
<1>5. Distinct'
    BY <1>2, <1>3 DEF Distinct
<1>6. \A v \in Work : Listed(v)' <=> Listed(v) /\ v # pending[i]
  <2> TAKE v \in Work
  <2>1. ASSUME Listed(v)' PROVE Listed(v) /\ v # pending[i]
    BY <1>2, <2>1 DEF Listed, Distinct
  <2>2. ASSUME Listed(v), v # pending[i] PROVE Listed(v)'
    <3>1. PICK k \in 1 .. Len(pending) : pending[k] = v
      BY <2>2 DEF Listed
    <3>2. PICK j \in 1 .. Len(pending') : at(j) = k
      BY <1>4, <2>2, <3>1
    <3>3. pending'[j] = v
      BY <1>2, <3>1, <3>2
    <3> QED
      BY <3>3 DEF Listed
  <2> QED
    BY <2>1, <2>2
<1> QED
    BY <1>5, <1>6

\* cancel_work_sync takes the item out of the list with its bit, if it is there.
LEMMA CancelRemoveIInv ==
    ASSUME IInv, NEW c \in Client, CancelRemove(c)
    PROVE  IInv'
<1> USE WorkQueueAssumption
<1> DEFINE w == arg[c].work
<1>1. /\ c \in Thread /\ c # Worker /\ Worker \in Thread /\ pc[c] = "remove"
      /\ arg[c] \in Arg /\ Fits("remove", arg[c]) /\ w \in Work
      /\ arg = [arg EXCEPT ![c] = arg[c]]
    BY Zenon DEF CancelRemove, Thread, IInv, Labels, Fits
<1>2. /\ UNCHANGED <<current, shutdown, waiting, arg, ops, ran, accepted, due>>
      /\ mutex = Nobody /\ mutex' = c /\ Goto(c, "cancel_test")
    BY DEF CancelRemove
<1>3. ~shutdown
    BY <1>1 DEF IInv, Shut
<1>4. /\ "cancel_test" \in ClientLabel \ Busy /\ "cancel_test" \in Holding
      /\ pc[c] \notin Busy \cup {"condvar"} /\ Fits("cancel_test", arg[c])
    BY <1>1 DEF ClientLabel, Busy, Holding, Fits
<1>5. CASE ~Queued(w)
  <2>1. UNCHANGED <<pending, bit, cancelled>>
    BY <1>5, Zenon DEF CancelRemove
  <2>2. waiting' = waiting \cup {u \in {c} : "cancel_test" = "condvar"}
    BY <1>2
  <2>3. shutdown' \in BOOLEAN /\ ops' \in [Client -> 0..MaxOps] /\ due' \in [Client -> Nat]
    BY <1>2 DEF IInv, Data
  <2> QED
    BY <1>1, <1>2, <1>3, <1>4, <2>1, <2>2, <2>3, ClientGoes
<1>6. CASE Queued(w)
  <2>1. PICK i \in DOMAIN pending : pending[i] = w /\ pending' = Without(pending, i)
    BY <1>6, Zenon DEF CancelRemove, Without
  <2>2. bit' = [bit EXCEPT ![w] = FALSE] /\ cancelled' = [cancelled EXCEPT ![w] = @ + 1]
    BY <1>6 DEF CancelRemove
  <2>3. /\ Labels' /\ Shut' /\ pc'[c] = "cancel_test"
        /\ \A u \in Thread \ {c} : pc'[u] = pc[u] /\ arg'[u] = arg[u]
    BY <1>1, <1>2, <1>3, <1>4, ActiveStep
  <2>4. pending \in Seq(Work) /\ i \in 1 .. Len(pending) /\ Len(pending) \in Nat
    <3>1. pending \in Seq(Work)
      BY DEF IInv, Data
    <3>2. DOMAIN pending = 1 .. Len(pending) /\ Len(pending) \in Nat
      BY <3>1
    <3> QED
      BY <3>1, <3>2
  <2>5. /\ pending' \in Seq(Work)
        /\ Distinct'
        /\ \A v \in Work : Listed(v)' <=> Listed(v) /\ v # w
    <3>1. /\ pending' \in Seq(Work) /\ Len(pending') = Len(pending) - 1
          /\ \A j \in 1 .. Len(pending) - 1 :
               pending'[j] = IF j < i THEN pending[j] ELSE pending[j + 1]
      BY <2>1, <2>4, WithoutFacts, Zenon
    <3>2. Distinct
      BY DEF IInv, Places
    <3>3. Distinct' /\ \A v \in Work : Listed(v)' <=> Listed(v) /\ v # pending[i]
      BY <2>4, <3>1, <3>2, ListLoses, Zenon
    <3> QED
      BY <2>1, <3>1, <3>3
  <2>6. Listed(w) /\ ~Pushed(w) /\ ~Held(w)
    BY <1>1, <2>1, <2>4 DEF IInv, Places, Listed
  <2>7. /\ cancelled' \in [Work -> Nat]
        /\ \A v \in Work : cancelled'[v] = IF v = w THEN cancelled[v] + 1 ELSE cancelled[v]
    <3>1. cancelled \in [Work -> Nat] /\ cancelled' = [cancelled EXCEPT ![w] = cancelled[w] + 1]
      BY <2>2 DEF IInv, Data
    <3> HIDE DEF w
    <3>2. cancelled' \in [Work -> Nat]
      BY <1>1, <3>1
    <3>3. \A v \in Work : cancelled'[v] = IF v = w THEN cancelled[v] + 1 ELSE cancelled[v]
      BY <1>1, <3>1
    <3> QED
      BY <3>2, <3>3
  <2>8. bit' \in [Work -> BOOLEAN] /\ \A v \in Work : bit'[v] <=> bit[v] /\ v # w
    BY <1>1, <2>2, Zenon DEF IInv, Data
  <2> HIDE DEF w
  <2>9. \A v \in Work : /\ Pushed(v)' <=> Pushed(v)
                        /\ Held(v)' <=> Held(v)
                        /\ Running(v)' <=> Running(v)
    <3> TAKE v \in Work
    <3>1. Pushed(v)' <=> Pushed(v)
      BY <1>1, <2>3 DEF Pushed, Thread
    <3>2. (Held(v)' <=> Held(v)) /\ (Running(v)' <=> Running(v))
      BY <1>1, <2>3 DEF Held, Running
    <3> QED
      BY <3>1, <3>2
  <2>10. Data'
    BY <1>2, <2>5, <2>7, <2>8, Zenon DEF IInv, Data
  <2>11. Places'
    <3>1. OnePusher'
      <4>1. \A d \in Client : pc'[d] = "push" => pc[d] = "push" /\ arg'[d] = arg[d]
        BY <1>1, <1>2, <2>3 DEF Thread
      <4> QED
        BY <4>1, PushersKept
    <3>2. \A v \in Work : /\ bit'[v] <=> Listed(v)' \/ Pushed(v)' \/ Held(v)'
                          /\ ~(Listed(v)' /\ Pushed(v)')
                          /\ ~(Listed(v)' /\ Held(v)')
                          /\ ~(Pushed(v)' /\ Held(v)')
      BY <2>5, <2>6, <2>8, <2>9 DEF IInv, Places
    <3> QED
      BY <2>5, <3>1, <3>2 DEF Places
  <2>12. Runs'
    <3> SUFFICES ASSUME NEW v \in Work
                 PROVE  accepted'[v] = ran'[v] + cancelled'[v] + InList(v)' + InHand(v)'
      BY DEF Runs
    <3>0. /\ accepted[v] \in Nat /\ ran[v] \in Nat /\ cancelled[v] \in Nat
          /\ InList(v) \in Nat /\ InHand(v) \in Nat
          /\ accepted[v] = ran[v] + cancelled[v] + InList(v) + InHand(v)
      BY RunOf
    <3>1. accepted'[v] = accepted[v] /\ ran'[v] = ran[v] /\ InHand(v)' = InHand(v)
      BY <1>2, <2>9 DEF InHand
    <3>2. CASE v = w
      <4>1. InList(v) = 1 /\ InList(v)' = 0 /\ cancelled'[v] = cancelled[v] + 1
        BY <2>5, <2>6, <2>7, <3>2 DEF InList
      <4>2. InList(v) = 1
        BY <4>1
      <4>3. accepted[v] = ran[v] + (cancelled[v] + 1) + 0 + InHand(v)
        BY <3>0, <4>2
      <4> QED
        BY <3>1, <4>1, <4>3
    <3>3. CASE v # w
      <4>1. InList(v)' = InList(v) /\ cancelled'[v] = cancelled[v]
        BY <2>5, <2>7, <3>3 DEF InList
      <4> QED
        BY <3>0, <3>1, <4>1
    <3> QED
      BY <3>2, <3>3
  <2>13. Quiet'
    BY <1>1, <1>2, <2>3 DEF IInv, Quiet
  <2> QED
    BY <2>3, <2>10, <2>11, <2>12, <2>13 DEF IInv
<1> QED
    BY <1>5, <1>6

\* The worker takes the first item.
LEMMA WorkerTakeIInv ==
    ASSUME IInv, WorkerTake
    PROVE  IInv'
<1> USE WorkQueueAssumption
<1> DEFINE w == Head(pending)
           a == [arg[Worker] EXCEPT !.work = w]
<1>1. /\ pending \in Seq(Work) /\ pending # << >> /\ Len(pending) \in Nat /\ 1 \in 1 .. Len(pending)
      /\ w = pending[1] /\ w \in Work
    BY DEF WorkerTake, IInv, Data
<1>2. /\ UNCHANGED <<bit, current, shutdown, mutex, waiting, ops, ran, accepted, cancelled, due>>
      /\ pc[Worker] = "take" /\ Goto(Worker, "current")
      /\ pending' = Tail(pending) /\ Worker \in Thread
    BY DEF WorkerTake, history, Thread
<1>3. a \in Arg /\ a.work = w /\ arg' = [arg EXCEPT ![Worker] = a]
    BY <1>1, <1>2, Zenon DEF WorkerTake, IInv, Labels, Arg
<1>4. /\ pending' \in Seq(Work)
      /\ Distinct'
      /\ \A v \in Work : Listed(v)' <=> Listed(v) /\ v # w
  <2>1. /\ pending' \in Seq(Work) /\ Len(pending') = Len(pending) - 1
        /\ \A j \in 1 .. Len(pending) - 1 : pending'[j] = pending[j + 1]
    <3> DEFINE s == Tail(pending)
    <3>1. s \in Seq(Work)
      BY <1>1
    <3>2. Len(s) = Len(pending) - 1
      BY <1>1
    <3>3. \A j \in 1 .. Len(pending) - 1 : s[j] = pending[j + 1]
      BY <1>1
    <3> QED
      BY <1>2, <3>1, <3>2, <3>3
  <2>2. \A j \in 1 .. Len(pending) - 1 :
          pending'[j] = IF j < 1 THEN pending[j] ELSE pending[j + 1]
    BY <1>1, <2>1
  <2>3. Distinct
    BY DEF IInv, Places
  <2>4. Distinct' /\ \A v \in Work : Listed(v)' <=> Listed(v) /\ v # pending[1]
    BY <1>1, <2>1, <2>2, <2>3, ListLoses
  <2> QED
    BY <1>1, <2>1, <2>4
<1>5. Listed(w) /\ ~Pushed(w) /\ bit[w]
    BY <1>1 DEF IInv, Places, Listed
<1> HIDE DEF w, a
<1>6. /\ Labels' /\ Shut' /\ pc'[Worker] = "current" /\ arg'[Worker] = a
      /\ \A u \in Thread \ {Worker} : pc'[u] = pc[u] /\ arg'[u] = arg[u]
  <2>1. "current" \in WorkerLabel /\ "current" \notin Holding /\ mutex # Worker
    BY <1>2 DEF WorkerLabel, Holding, IInv, Labels
  <2>2. a.work \in Work /\ pc[Worker] \notin {"condvar", "exited"}
    BY <1>1, <1>2, <1>3
  <2> QED
    BY <1>2, <1>3, <2>1, <2>2, ActiveStep, Zenon
<1>7. \A v \in Work : /\ Pushed(v)' <=> Pushed(v)
                      /\ ~Held(v) /\ ~Running(v) /\ ~Running(v)'
                      /\ Held(v)' <=> v = w
  <2> TAKE v \in Work
  <2>1. Pushed(v)' <=> Pushed(v)
    BY <1>6 DEF Pushed, Thread
  <2> QED
    BY <1>2, <1>3, <1>6, <2>1 DEF Held, Running
<1>8. Data'
    BY <1>2, <1>4 DEF IInv, Data
<1>9. Places'
  <2>1. OnePusher'
    <3>1. \A d \in Client : pc'[d] = "push" => pc[d] = "push" /\ arg'[d] = arg[d]
      BY <1>2, <1>6 DEF Thread
    <3> QED
      BY <3>1, PushersKept
  <2>2. \A v \in Work : /\ bit'[v] <=> Listed(v)' \/ Pushed(v)' \/ Held(v)'
                        /\ ~(Listed(v)' /\ Pushed(v)')
                        /\ ~(Listed(v)' /\ Held(v)')
                        /\ ~(Pushed(v)' /\ Held(v)')
    BY <1>2, <1>4, <1>5, <1>7, Zenon DEF IInv, Places
  <2> QED
    BY <1>4, <2>1, <2>2 DEF Places
<1>10. Runs'
  <2> SUFFICES ASSUME NEW v \in Work
               PROVE  accepted'[v] = ran'[v] + cancelled'[v] + InList(v)' + InHand(v)'
    BY DEF Runs
  <2>0. /\ accepted[v] \in Nat /\ ran[v] \in Nat /\ cancelled[v] \in Nat
        /\ InList(v) \in Nat /\ InHand(v) \in Nat
        /\ accepted[v] = ran[v] + cancelled[v] + InList(v) + InHand(v)
    BY RunOf
  <2>1. /\ accepted'[v] = accepted[v] /\ ran'[v] = ran[v] /\ cancelled'[v] = cancelled[v]
        /\ Listed(v)' <=> Listed(v) /\ v # w
        /\ ~Held(v) /\ ~Running(v) /\ (Held(v)' \/ Running(v)' <=> v = w)
        /\ v = w => Listed(v)
    BY <1>2, <1>4, <1>5, <1>7
  <2>2. CASE v = w
    <3>1. InList(v) = 1 /\ InList(v)' = 0 /\ InHand(v) = 0 /\ InHand(v)' = 1
          /\ accepted'[v] = accepted[v] /\ ran'[v] = ran[v] /\ cancelled'[v] = cancelled[v]
      BY <2>1, <2>2 DEF InList, InHand
    <3>2. InList(v) = 1 /\ InHand(v) = 0
      BY <3>1
    <3>3. accepted[v] = ran[v] + cancelled[v] + 0 + 1
      BY <2>0, <3>2
    <3> QED
      BY <3>1, <3>3
  <2>3. CASE v # w
    <3>1. InList(v)' = InList(v) /\ InHand(v)' = InHand(v)
          /\ accepted'[v] = accepted[v] /\ ran'[v] = ran[v] /\ cancelled'[v] = cancelled[v]
      BY <2>1, <2>3 DEF InList, InHand
    <3> QED
      BY <2>0, <3>1
  <2> QED
    BY <2>2, <2>3
<1>11. Quiet'
    BY <1>2, <1>6 DEF IInv, Quiet
<1> QED
    BY <1>6, <1>8, <1>9, <1>10, <1>11 DEF IInv

\* The worker publishes the item it has taken.
LEMMA WorkerCurrentIInv ==
    ASSUME IInv, WorkerCurrent
    PROVE  IInv'
<1> USE WorkQueueAssumption
<1>1. /\ UNCHANGED <<pending, bit, shutdown, mutex, waiting, arg, ops>>
      /\ UNCHANGED <<ran, accepted, cancelled, due>>
      /\ pc[Worker] = "current" /\ Goto(Worker, "clear") /\ current' = arg[Worker].work
      /\ Worker \in Thread
    BY DEF WorkerCurrent, history, Thread
<1>2. arg[Worker] \in Arg /\ arg' = [arg EXCEPT ![Worker] = arg[Worker]] /\ arg[Worker].work \in Work
    BY <1>1 DEF IInv, Labels
<1>3. /\ Labels' /\ Shut' /\ pc'[Worker] = "clear" /\ arg'[Worker] = arg[Worker]
      /\ \A u \in Thread \ {Worker} : pc'[u] = pc[u] /\ arg'[u] = arg[u]
  <2>1. "clear" \in WorkerLabel /\ "clear" \notin Holding /\ mutex # Worker
    BY <1>1 DEF WorkerLabel, Holding, IInv, Labels
  <2> QED
    BY <1>1, <1>2, <2>1, ActiveStep, Zenon
<1>4. \A v \in Work : /\ Listed(v)' <=> Listed(v)
                      /\ Pushed(v)' <=> Pushed(v)
                      /\ Held(v)' <=> Held(v)
                      /\ ~Running(v) /\ ~Running(v)'
  <2> TAKE v \in Work
  <2>1. Pushed(v)' <=> Pushed(v)
    BY <1>3 DEF Pushed, Thread
  <2>2. Listed(v)' <=> Listed(v)
    BY <1>1 DEF Listed
  <2> QED
    BY <1>1, <1>3, <2>1, <2>2 DEF Held, Running
<1>5. Data'
    BY <1>1, <1>2 DEF IInv, Data
<1>6. Places'
  <2>1. OnePusher'
    <3>1. \A d \in Client : pc'[d] = "push" => pc[d] = "push" /\ arg'[d] = arg[d]
      BY <1>3 DEF Thread
    <3> QED
      BY <3>1, PushersKept
  <2> QED
    BY <1>1, <1>4, <2>1 DEF IInv, Places, Distinct
<1>7. Runs'
    BY <1>1, <1>4 DEF IInv, Runs, InList, InHand
<1>8. Quiet'
    BY <1>3 DEF Quiet
<1> QED
    BY <1>3, <1>5, <1>6, <1>7, <1>8 DEF IInv

\* The worker clears the bit before it runs the item: it may be queued again.
LEMMA WorkerClearIInv ==
    ASSUME IInv, WorkerClear
    PROVE  IInv'
<1> USE WorkQueueAssumption
<1> DEFINE w == arg[Worker].work
<1>1. /\ UNCHANGED <<pending, current, shutdown, mutex, waiting, arg, ops>>
      /\ UNCHANGED <<ran, accepted, cancelled, due>>
      /\ pc[Worker] = "clear" /\ Goto(Worker, "run") /\ bit' = [bit EXCEPT ![w] = FALSE]
      /\ Worker \in Thread
    BY DEF WorkerClear, history, Thread
<1>2. arg[Worker] \in Arg /\ arg' = [arg EXCEPT ![Worker] = arg[Worker]] /\ w \in Work
    BY <1>1 DEF IInv, Labels
<1>3. /\ Labels' /\ Shut' /\ pc'[Worker] = "run" /\ arg'[Worker] = arg[Worker]
      /\ \A u \in Thread \ {Worker} : pc'[u] = pc[u] /\ arg'[u] = arg[u]
  <2>1. "run" \in WorkerLabel /\ "run" \notin Holding /\ mutex # Worker
    BY <1>1 DEF WorkerLabel, Holding, IInv, Labels
  <2> QED
    BY <1>1, <1>2, <2>1, ActiveStep, Zenon
<1>4. \A v \in Work : /\ Listed(v)' <=> Listed(v)
                      /\ Pushed(v)' <=> Pushed(v)
                      /\ Held(v) <=> v = w
                      /\ Running(v)' <=> v = w
                      /\ ~Held(v)' /\ ~Running(v)
  <2> TAKE v \in Work
  <2>1. Pushed(v)' <=> Pushed(v)
    BY <1>3, Zenon DEF Pushed, Thread
  <2>2. Listed(v)' <=> Listed(v)
    BY <1>1 DEF Listed
  <2> QED
    BY <1>1, <1>3, <2>1, <2>2 DEF Held, Running
<1>5. bit' \in [Work -> BOOLEAN] /\ \A v \in Work : bit'[v] <=> bit[v] /\ v # w
    BY <1>1, <1>2 DEF IInv, Data
<1> HIDE DEF w
<1>6. Data'
    BY <1>1, <1>5 DEF IInv, Data
<1>7. Places'
  <2>1. OnePusher'
    <3>1. \A d \in Client : pc'[d] = "push" => pc[d] = "push" /\ arg'[d] = arg[d]
      BY <1>3 DEF Thread
    <3> QED
      BY <3>1, PushersKept
  <2>2. \A v \in Work : /\ bit'[v] <=> Listed(v)' \/ Pushed(v)' \/ Held(v)'
                        /\ ~(Listed(v)' /\ Pushed(v)')
    BY <1>4, <1>5 DEF IInv, Places
  <2> QED
    BY <1>1, <1>4, <2>1, <2>2, Zenon DEF IInv, Places, Distinct
<1>8. Runs'
    BY <1>1, <1>4 DEF IInv, Runs, InList, InHand
<1>9. Quiet'
    BY <1>3 DEF Quiet
<1> QED
    BY <1>3, <1>6, <1>7, <1>8, <1>9 DEF IInv

\* The item runs, and leaves the hands of the worker.
LEMMA WorkerRunIInv ==
    ASSUME IInv, WorkerRun
    PROVE  IInv'
<1> USE WorkQueueAssumption
<1> DEFINE w == arg[Worker].work
           a == [arg[Worker] EXCEPT !.work = NoWork]
<1>1. /\ UNCHANGED <<pending, bit, current, shutdown, mutex, waiting, ops>>
      /\ UNCHANGED <<accepted, cancelled, due>>
      /\ pc[Worker] = "run" /\ Goto(Worker, "done") /\ ran' = [ran EXCEPT ![w] = @ + 1]
      /\ Worker \in Thread
    BY DEF WorkerRun, queue, Thread
<1>2. a \in Arg /\ arg' = [arg EXCEPT ![Worker] = a] /\ w \in Work
    BY <1>1 DEF WorkerRun, IInv, Labels, Arg
<1>3. \A v \in Work : Running(v) <=> v = w
    BY <1>1 DEF Running
<1>4. ran \in [Work -> Nat]
    BY DEF IInv, Data
<1>5. \A v \in Work : ran'[v] = IF v = w THEN ran[v] + 1 ELSE ran[v]
    BY <1>1, <1>2, <1>4
<1>6. ran' \in [Work -> Nat]
    BY <1>1, <1>2, <1>4
<1> HIDE DEF w, a
<1>7. /\ Labels' /\ Shut' /\ pc'[Worker] = "done" /\ arg'[Worker] = a
      /\ \A u \in Thread \ {Worker} : pc'[u] = pc[u] /\ arg'[u] = arg[u]
  <2>1. "done" \in WorkerLabel /\ "done" \notin Holding /\ mutex # Worker
    BY <1>1 DEF WorkerLabel, Holding, IInv, Labels
  <2> QED
    BY <1>1, <1>2, <2>1, ActiveStep, Zenon
<1>8. \A v \in Work : /\ Listed(v)' <=> Listed(v)
                      /\ Pushed(v)' <=> Pushed(v)
                      /\ ~Held(v) /\ ~Held(v)' /\ ~Running(v)'
  <2> TAKE v \in Work
  <2>1. Pushed(v)' <=> Pushed(v)
    BY <1>7 DEF Pushed, Thread
  <2>2. Listed(v)' <=> Listed(v)
    BY <1>1 DEF Listed
  <2> QED
    BY <1>1, <1>7, <2>1, <2>2, Zenon DEF Held, Running
<1>9. Data'
    BY <1>1, <1>6 DEF IInv, Data
<1>10. Places'
  <2>1. OnePusher'
    <3>1. \A d \in Client : pc'[d] = "push" => pc[d] = "push" /\ arg'[d] = arg[d]
      BY <1>7 DEF Thread
    <3> QED
      BY <3>1, PushersKept
  <2> QED
    BY <1>1, <1>8, <2>1, Zenon DEF IInv, Places, Distinct
<1>11. Runs'
  <2> SUFFICES ASSUME NEW v \in Work
               PROVE  accepted'[v] = ran'[v] + cancelled'[v] + InList(v)' + InHand(v)'
    BY DEF Runs
  <2>0. /\ accepted[v] \in Nat /\ ran[v] \in Nat /\ cancelled[v] \in Nat
        /\ InList(v) \in Nat /\ InHand(v) \in Nat
        /\ accepted[v] = ran[v] + cancelled[v] + InList(v) + InHand(v)
    BY RunOf
  <2>1. /\ accepted'[v] = accepted[v] /\ cancelled'[v] = cancelled[v]
        /\ ran'[v] = IF v = w THEN ran[v] + 1 ELSE ran[v]
        /\ Listed(v)' <=> Listed(v)
        /\ ~(Held(v)' \/ Running(v)') /\ (Held(v) \/ Running(v) <=> v = w)
    BY <1>1, <1>3, <1>5, <1>8
  <2>2. CASE v = w
    <3>1. InHand(v) = 1 /\ InHand(v)' = 0 /\ InList(v)' = InList(v)
          /\ ran'[v] = ran[v] + 1 /\ accepted'[v] = accepted[v] /\ cancelled'[v] = cancelled[v]
      BY <2>1, <2>2 DEF InList, InHand
    <3>2. InHand(v) = 1
      BY <3>1
    <3>3. accepted[v] = (ran[v] + 1) + cancelled[v] + InList(v) + 0
      BY <2>0, <3>2
    <3> QED
      BY <3>1, <3>3
  <2>3. CASE v # w
    <3>1. InList(v)' = InList(v) /\ InHand(v)' = InHand(v)
          /\ accepted'[v] = accepted[v] /\ ran'[v] = ran[v] /\ cancelled'[v] = cancelled[v]
      BY <2>1, <2>3 DEF InList, InHand
    <3> QED
      BY <2>0, <3>1
  <2> QED
    BY <2>2, <2>3
<1>12. Quiet'
    BY <1>7 DEF Quiet
<1> QED
    BY <1>7, <1>9, <1>10, <1>11, <1>12 DEF IInv

-----------------------------------------------------------------------------
\* Every step of the worker, of a client and of the condition variable keeps
\* the inductive invariant.
LEMMA StepIInv == IInv /\ [Next]_vars => IInv'
<1> SUFFICES ASSUME IInv, [Next]_vars PROVE IInv'
    OBVIOUS
<1>1. CASE UNCHANGED vars
  <2> USE <1>1 DEF vars, queue, history
  <2>1. \A w \in Work : /\ Listed(w)' <=> Listed(w)
                        /\ Pushed(w)' <=> Pushed(w)
                        /\ Held(w)' <=> Held(w)
                        /\ Running(w)' <=> Running(w)
    BY DEF Listed, Pushed, Held, Running
  <2>2. Labels' /\ Data'
    BY DEF IInv, Labels, Data
  <2>3. Distinct' /\ OnePusher'
    BY Zenon DEF IInv, Places, Distinct, OnePusher
  <2>4. Places'
    BY <2>1, <2>3 DEF IInv, Places
  <2>5. Runs'
    BY <2>1 DEF IInv, Runs, InList, InHand
  <2>6. Quiet' /\ Shut'
    BY DEF IInv, Quiet, Shut
  <2> QED
    BY <2>2, <2>4, <2>5, <2>6 DEF IInv
<1>2. CASE WorkerStep
  <2>1. Worker \in Thread
    BY DEF Thread
  <2> QED
    BY <1>2, <2>1, WorkerPassiveIInv, NotifyIInv, WorkerTakeIInv, WorkerCurrentIInv,
       WorkerClearIInv, WorkerRunIInv DEF WorkerStep
<1>3. ASSUME NEW c \in Client, Call(c) PROVE IInv'
    BY <1>3, CallIInv, QueueWorkIInv DEF Call
<1>4. ASSUME NEW c \in Client, ClientStep(c) PROVE IInv'
  <2>1. c \in Thread
    BY DEF Thread
  <2> QED
    BY <1>4, <2>1, QueuePushIInv, NotifyIInv, CancelRemoveIInv, ClientPassiveIInv
       DEF ClientStep
<1>5. ASSUME NEW t \in Thread, Spurious(t) PROVE IInv'
    BY <1>5, SpuriousIInv
<1> QED
    BY <1>1, <1>2, <1>3, <1>4, <1>5 DEF Next

\* The counts of the properties are the places of the invariant.
LEMMA Counts ==
    ASSUME IInv, NEW w \in Work
    PROVE  /\ Occurrences(w) = IF Listed(w) THEN 1 ELSE 0
           /\ Pushing(w) = IF Pushed(w) THEN 1 ELSE 0
<1> DEFINE I == {i \in DOMAIN pending : pending[i] = w}
           P == {c \in Client : pc[c] = "push" /\ arg[c].work = w}
<1>1. DOMAIN pending = 1 .. Len(pending)
    BY DEF IInv, Data
<1>2. Cardinality({}) = 0 /\ \A x : Cardinality({x}) = 1
    BY FS_EmptySet, FS_Singleton, Zenon
<1>3. Cardinality(I) = IF Listed(w) THEN 1 ELSE 0
  <2>1. CASE Listed(w)
    <3>1. PICK i \in 1 .. Len(pending) : pending[i] = w
      BY <2>1 DEF Listed
    <3>2. I = {i}
      BY <1>1, <3>1 DEF IInv, Places, Distinct
    <3> QED
      BY <1>2, <2>1, <3>2, Zenon
  <2>2. CASE ~Listed(w)
    <3>1. I = {}
      BY <1>1, <2>2 DEF Listed
    <3> QED
      BY <1>2, <2>2, <3>1
  <2> QED
    BY <2>1, <2>2
<1>4. Cardinality(P) = IF Pushed(w) THEN 1 ELSE 0
  <2>1. CASE Pushed(w)
    <3>1. PICK c \in Client : pc[c] = "push" /\ arg[c].work = w
      BY <2>1 DEF Pushed
    <3>2. P = {c}
      BY <3>1 DEF IInv, Places, OnePusher
    <3> QED
      BY <1>2, <2>1, <3>2, Zenon
  <2>2. CASE ~Pushed(w)
    <3>1. P = {}
      BY <2>2 DEF Pushed
    <3> QED
      BY <1>2, <2>2, <3>1
  <2> QED
    BY <2>1, <2>2
<1> QED
    BY <1>3, <1>4 DEF Occurrences, Pushing

\* No item is lost or run twice, whatever the interleaving of queue_work, the
\* worker and cancel_work_sync: the bit tells where the item is, and every
\* accepted queueing is one run, one cancellation or still under way.
THEOREM ItemsAccountedAlways == Spec => []ItemsAccounted
<1>1. IInv => ItemsAccounted
  <2> SUFFICES ASSUME IInv PROVE ItemsAccounted
    OBVIOUS
  <2>1. TypeOK
    BY DEF TypeOK, IInv, Labels, Data, Arg, Holding
  <2>2. \A w \in Work : /\ Taken(w, {"current", "clear"}) = IF Held(w) THEN 1 ELSE 0
                        /\ Taken(w, {"current", "clear", "run"})
                             = IF Held(w) \/ Running(w) THEN 1 ELSE 0
    BY DEF Taken, Held, Running
  <2>3. PendingExact
    <3> SUFFICES ASSUME NEW w \in Work
                 PROVE  Pushing(w) + Occurrences(w) + Taken(w, {"current", "clear"})
                          = IF bit[w] THEN 1 ELSE 0
      BY DEF PendingExact
    <3>1. /\ bit[w] <=> Listed(w) \/ Pushed(w) \/ Held(w)
          /\ ~(Listed(w) /\ Pushed(w)) /\ ~(Listed(w) /\ Held(w)) /\ ~(Pushed(w) /\ Held(w))
      BY DEF IInv, Places
    <3>2. /\ Occurrences(w) = IF Listed(w) THEN 1 ELSE 0
          /\ Pushing(w) = IF Pushed(w) THEN 1 ELSE 0
          /\ Taken(w, {"current", "clear"}) = IF Held(w) THEN 1 ELSE 0
      BY <2>2, Counts
    <3>3. CASE bit[w]
      <4>1. \/ Listed(w) /\ ~Pushed(w) /\ ~Held(w)
            \/ ~Listed(w) /\ Pushed(w) /\ ~Held(w)
            \/ ~Listed(w) /\ ~Pushed(w) /\ Held(w)
        BY <3>1, <3>3
      <4> QED
        BY <3>2, <3>3, <4>1
    <3>4. CASE ~bit[w]
      BY <3>1, <3>2, <3>4
    <3> QED
      BY <3>3, <3>4
  <2>4. RunsAccounted
    BY <2>2, Counts DEF RunsAccounted, IInv, Runs, InList, InHand
  <2> QED
    BY <2>1, <2>3, <2>4 DEF ItemsAccounted
<1> QED
    BY <1>1, InitIInv, StepIInv, PTL DEF Spec

\* The assertion of destroy_workqueue: when it returns the list is empty and
\* nothing runs, for any history of the queue.
THEOREM DestroyedEmptyAlways == Spec => []DestroyedEmpty
<1>1. IInv => DestroyedEmpty
    BY DEF DestroyedEmpty, IInv, Shut, Quiet
<1> QED
    BY <1>1, InitIInv, StepIInv, PTL DEF Spec
=============================================================================
