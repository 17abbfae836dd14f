------------------------------ MODULE NodeCache ------------------------------
(***************************************************************************)
(* The btree node cache of btree/cache.rs above the hash table, with the   *)
(* operations of io.rs and interior.rs that take nodes from it and give    *)
(* them back: reading a child, split, merge, rewrite, commit, write,       *)
(* eviction and shutdown.                                                  *)
(*                                                                         *)
(* A parent's key holds, beside the sequence number that the table hashes, *)
(* the address of the child's struct (mem_ptr), and a traversal follows it *)
(* without a look at the table.  The tree is abstracted to these keys: a   *)
(* root and leaves below it.  The engine lock lets one operation run at a  *)
(* time; the rehash worker runs beside it.  Interior nodes other than the  *)
(* root and the two lock kinds that keep their structs apart are left out. *)
(***************************************************************************)
EXTENDS RHashTable

CONSTANTS
    Node,        \* the structs memory has room for: 1..n
    Key,         \* pointer sequence numbers, 1 the root's
    OnDisk,      \* keys of the leaves the tree starts with, none of them in memory
    MaxOps,      \* operations
    MaxFaults    \* failed reads, failed sector allocations, data allocations
                 \* that find no memory

VARIABLES
    bc,      \* the cache: structs, lists, counters and table
    root,    \* the root's key
    ptr,     \* the struct each key of the tree points to, or None
    op,      \* the operation that runs
    hist     \* what happened so far

vars == <<bc, root, ptr, op, hist>>

None == 0

Absent == [state |-> "absent", key |-> 0, hash |-> 0, data |-> FALSE,
           dirty |-> FALSE, permanent |-> FALSE, pinned |-> FALSE]

btree_node_state_hashed(s) == s \in {"clean", "dirty"}

btree_node_state_has_buffer(s) == btree_node_state_hashed(s) \/ s = "freeable"

(* An index of `live'.                                                       *)
Pinned(n) == IF n.pinned THEN 2 ELSE 1

HashVals(c) == [b \in Node |-> c.node[b].hash]

(* rhashtable_lookup_fast on the cache's table.                              *)
Lookup(c, k) == rhashtable_lookup_fast(c.tbl, HashVals(c), k)

-----------------------------------------------------------------------------
(* State transitions of a node.                                              *)

(* The counter and the list of the old state; list_del_init.                 *)
Unlist(c, b) ==
    LET n == c.node[b]
        p == Pinned(n)
    IN  CASE n.state = "clean" ->
               [c EXCEPT !.nr.clean[p] = @ - 1, !.clean[1] = Remove(@, b),
                         !.clean[2] = Remove(@, b)]
          [] n.state = "dirty" ->
               [c EXCEPT !.nr.dirty[p] = @ - 1, !.dirty[1] = Remove(@, b),
                         !.dirty[2] = Remove(@, b)]
          [] n.state = "freeable" ->
               [c EXCEPT !.nr.freeable = @ - 1, !.freeable = Remove(@, b)]
          [] OTHER -> [c EXCEPT !.freed = Remove(@, b)]

(* The counter and the list of the new state, and bch2_btree_node_data_free. *)
Enlist(c, b, new) ==
    LET p == Pinned(c.node[b])
        d == [c EXCEPT !.node[b].state = new]
    IN  CASE new = "clean" ->
               [d EXCEPT !.nr.clean[p] = @ + 1, !.clean[p] = Append(@, b)]
          [] new = "dirty" ->
               [d EXCEPT !.nr.dirty[p] = @ + 1, !.dirty[p] = Append(@, b)]
          [] new = "freeable" ->
               [d EXCEPT !.nr.freeable = @ + 1, !.freeable = <<b>> \o @]
          [] new = "freed" ->
               [d EXCEPT !.node[b].data = FALSE, !.freed = Append(@, b)]
          [] OTHER -> d

(* The table half: a node that becomes live is inserted under its key and is *)
(* freeable when the table refuses it, one that stops being live is removed. *)
Rehashed(c, b, new) ==
    LET n   == c.node[b]
        val == [HashVals(c) EXCEPT ![b] = n.key]
        ins == rhashtable_lookup_insert_fast(c.tbl, val, b)
        del == rhashtable_remove_fast(c.tbl, HashVals(c), b)
    IN  IF btree_node_state_hashed(new) = btree_node_state_hashed(n.state)
        THEN [c |-> [c EXCEPT !.ret = 0], new |-> new]
        ELSE IF btree_node_state_hashed(n.state)
        THEN [c |-> [c EXCEPT !.tbl = del.t, !.node[b].hash = 0, !.ret = 0,
                              !.ok = @ /\ del.ret = 0],
              new |-> new]
        ELSE IF ins.ret = 0
        THEN [c |-> [c EXCEPT !.tbl = ins.t, !.node[b].hash = n.key, !.ret = 0],
              new |-> new]
        ELSE [c |-> [c EXCEPT !.tbl = ins.t, !.ret = ins.ret], new |-> "freeable"]

(* `ok' records that no assertion failed.                                    *)
bch2_btree_node_transition_state(c, b, new) ==
    LET n    == c.node[b]
        full == \E s \in {n.state, new} : btree_node_state_has_buffer(s)
        ok   == /\ full => n.data
                /\ btree_node_state_hashed(new) \/ ~n.dirty
        r    == Rehashed([c EXCEPT !.ok = @ /\ ok], b, new)
    IN  IF n.state = new THEN [c EXCEPT !.ret = 0]
        ELSE Enlist(Unlist(r.c, b), b, r.new)

bch2_btree_node_set_dirty(c, b) ==
    LET d == [c EXCEPT !.node[b].dirty = TRUE]
    IN  IF c.node[b].dirty THEN c
        ELSE IF btree_node_state_hashed(c.node[b].state)
        THEN bch2_btree_node_transition_state(d, b, "dirty")
        ELSE d

btree_node_live_state(n) == IF n.dirty THEN "dirty" ELSE "clean"

bch2_btree_node_write_done_clean(c, b) ==
    IF btree_node_state_hashed(c.node[b].state)
    THEN bch2_btree_node_transition_state(c, b, btree_node_live_state(c.node[b]))
    ELSE c

(* A node write that succeeds; `saved' are the keys with nothing to write.   *)
Written(c, b) ==
    bch2_btree_node_write_done_clean(
        [c EXCEPT !.node[b].dirty = FALSE, !.saved = @ \cup {c.node[b].key}], b)

bch2_node_pin(c, b) ==
    LET d == [c EXCEPT !.node[b].pinned = TRUE]
    IN  CASE c.node[b].state = "clean" ->
               [d EXCEPT !.nr.clean = <<@[1] - 1, @[2] + 1>>,
                         !.clean = <<Remove(@[1], b), Append(Remove(@[2], b), b)>>]
          [] c.node[b].state = "dirty" ->
               [d EXCEPT !.nr.dirty = <<@[1] - 1, @[2] + 1>>,
                         !.dirty = <<Remove(@[1], b), Append(Remove(@[2], b), b)>>]
          [] OTHER -> d

(* Mutant: only the clean list is searched for nodes to unpin.               *)
UnpinClean(c) ==
    [c EXCEPT !.node = [b \in Node |->
                 [@[b] EXCEPT !.pinned = @ /\ b \notin ToSet(c.clean[2])]],
              !.clean = <<@[1] \o @[2], <<>>>>, !.dirty = <<@[1] \o @[2], <<>>>>,
              !.nr.clean = <<@[1] + @[2], 0>>, !.nr.dirty = <<@[1] + @[2], 0>>]

bch2_btree_cache_unpin(c) ==
    LET out == ToSet(c.clean[2]) \cup ToSet(c.dirty[2])
    IN  [c EXCEPT !.node = [b \in Node |->
                     [@[b] EXCEPT !.pinned = @ /\ b \notin out]],
                  !.clean = <<@[1] \o @[2], <<>>>>, !.dirty = <<@[1] \o @[2], <<>>>>,
                  !.nr.clean = <<@[1] + @[2], 0>>, !.nr.dirty = <<@[1] + @[2], 0>>]

-----------------------------------------------------------------------------
(* Allocation.  `held' are the structs locked by the operation.              *)

(* flags, written, nsets and the rest of a reused struct are reset.          *)
Reset(c, b) ==
    [c EXCEPT !.node[b].dirty = FALSE, !.node[b].permanent = FALSE,
              !.node[b].pinned = FALSE, !.node[b].data = TRUE, !.got = b]

(* The freeable structs whose lock can be taken.                             *)
Reusable(c, held) == SelectSeq(c.freeable, LAMBDA b : b \notin held)

(* btree_node_reclaim over the clean lists.                                  *)
Reclaimable(c, held) ==
    SelectSeq(c.clean[1] \o c.clean[2],
              LAMBDA b : b \notin held /\ ~c.node[b].permanent /\ ~c.node[b].dirty)

Unused(c) == {b \in Node : c.node[b].state = "absent"}

(* `mem': the allocation of a data buffer succeeds.  A struct nothing uses   *)
(* must be left when the lists are empty: a bound of the model.              *)
bch2_btree_node_mem_alloc(c, held, mem) ==
    LET reuse(b) == Reset(bch2_btree_node_transition_state(c, b, "none"), b)
    IN  IF Reusable(c, held) # <<>> THEN reuse(Head(Reusable(c, held)))
        ELSE IF ~mem /\ Reclaimable(c, held) = <<>> THEN [c EXCEPT !.got = None]
        ELSE IF ~mem THEN reuse(Head(Reclaimable(c, held)))
        ELSE IF c.freed # <<>> THEN reuse(Head(c.freed))
        ELSE Reset([c EXCEPT !.node[Min(Unused(c))] = [Absent EXCEPT !.state = "none"]],
                   Min(Unused(c)))

bch2_btree_node_mem_free(c, b) == [c EXCEPT !.node[b] = Absent]

MayAlloc(c, held) == Reusable(c, held) # <<>> \/ c.freed # <<>> \/ Unused(c) # {}

(* The scratch fields of a call are cleared when it is over.                 *)
Settled(c) == [c EXCEPT !.ret = 0, !.got = None]

-----------------------------------------------------------------------------
Idle == [pc |-> "idle", kind |-> "none", keys |-> {}, new |-> <<>>, at |-> 1,
         held |-> {}]

(* next: the next sequence number; lost: keys whose struct was taken from    *)
(* under their pointer; refused: the table refused a node that an update     *)
(* then linked.                                                              *)
Init ==
    /\ root = 1 /\ op = Idle
    /\ ptr = [k \in {1} \cup OnDisk |-> IF k = 1 THEN 1 ELSE None]
    /\ hist = [next |-> Max(OnDisk) + 1, ops |-> 0, faults |-> 0, lost |-> {},
               refused |-> FALSE]
    /\ \E seed \in Seeds :
         bc = [node |-> [b \in Node |-> IF b # 1 THEN Absent ELSE
                          [Absent EXCEPT !.state = "clean", !.key = 1, !.hash = 1,
                                         !.data = TRUE, !.permanent = TRUE]],
               clean |-> <<<<1>>, <<>>>>, dirty |-> <<<<>>, <<>>>>,
               freeable |-> <<>>, freed |-> <<>>,
               nr |-> [clean |-> <<1, 0>>, dirty |-> <<0, 0>>, freeable |-> 0],
               tbl |-> rhashtable_lookup_insert_fast(
                          bucket_table_alloc(MinSize, seed),
                          [b \in Node |-> b], 1).t,
               saved |-> {1} \cup OnDisk, ok |-> TRUE, ret |-> 0, got |-> None]

Begin == op = Idle /\ hist.ops < MaxOps

Fault == hist.faults < MaxFaults

(* History after an allocation: the struct may be one that reclaim took.     *)
Took(h, c, b, mem) ==
    [h EXCEPT !.faults = IF mem THEN @ ELSE @ + 1,
              !.lost = IF b \in ToSet(c.clean[1] \o c.clean[2])
                       THEN @ \cup {k \in DOMAIN ptr : ptr[k] = b} ELSE @]

-----------------------------------------------------------------------------
(* A traversal to a child the parent has no struct for.                      *)

(* The struct is stored in the parent's key, unless the pointer came from    *)
(* the journal keys of a replay.                                             *)
Store(k, b) == \/ ptr' = [ptr EXCEPT ![k] = b]
               \/ b # None /\ UNCHANGED ptr

Get(k) ==
    /\ Begin /\ ptr[k] = None
    /\ IF Lookup(bc, k) # None THEN Store(k, Lookup(bc, k)) /\ op' = Idle
       ELSE op' = [Idle EXCEPT !.pc = "fill", !.keys = {k}] /\ UNCHANGED ptr
    /\ hist' = [hist EXCEPT !.ops = @ + 1]
    /\ UNCHANGED <<bc, root>>

(* The struct is hashed before it is read.                                   *)
Fill(mem) ==
    LET c == bch2_btree_node_mem_alloc(bc, {}, mem)
        b == c.got
        k == CHOOSE x \in op.keys : TRUE
        d == bch2_btree_node_transition_state([c EXCEPT !.node[b].key = k], b, "clean")
    IN  /\ op.pc = "fill"
        /\ IF mem THEN MayAlloc(bc, {}) ELSE Fault /\ Reusable(bc, {}) = <<>>
        /\ IF b = None THEN op' = Idle /\ bc' = Settled(c)
           ELSE /\ bc' = Settled(d)
                /\ op' = [op EXCEPT !.pc = IF d.ret = 0 THEN "read" ELSE "raced",
                                    !.new = <<b>>]
        /\ hist' = Took(hist, bc, b, mem)
        /\ UNCHANGED <<root, ptr>>

(* The table refused the struct: another one may be found now.               *)
Raced ==
    LET k == CHOOSE x \in op.keys : TRUE
    IN  /\ op.pc = "raced" /\ op' = Idle
        /\ bc' = Settled(bch2_btree_node_transition_state(bc, op.new[1], "freed"))
        /\ Store(k, Lookup(bc, k))
        /\ UNCHANGED <<root, hist>>

(* Mutant: the parent gets the struct before the read is known to be good.   *)
ReadDoneUnchecked(good) ==
    LET k == CHOOSE x \in op.keys : TRUE
        b == op.new[1]
    IN  /\ op.pc = "read" /\ op' = Idle /\ ptr' = [ptr EXCEPT ![k] = b]
        /\ good \/ Fault
        /\ bc' = IF good THEN bc
                 ELSE Settled(bch2_btree_node_transition_state(bc, b, "freeable"))
        /\ hist' = IF good THEN hist ELSE [hist EXCEPT !.faults = @ + 1]
        /\ UNCHANGED root

ReadDone(good) ==
    LET k == CHOOSE x \in op.keys : TRUE
        b == op.new[1]
    IN  /\ op.pc = "read" /\ op' = Idle
        /\ IF good THEN Store(k, b) /\ UNCHANGED <<bc, hist>>
           ELSE /\ Fault /\ UNCHANGED ptr
                /\ hist' = [hist EXCEPT !.faults = @ + 1]
                /\ bc' = Settled(bch2_btree_node_transition_state(bc, b, "freeable"))
        /\ UNCHANGED root

-----------------------------------------------------------------------------
(* Updates of the tree: new nodes are allocated, hashed and linked, and the  *)
(* ones they replace are retired.                                            *)

InMemory(k) == k \in DOMAIN ptr \ hist.lost /\ ptr[k] # None

NewNodes(kind) == IF kind = "split" THEN 2 ELSE 1

(* split_leaf, bch2_foreground_maybe_merge or bch2_btree_node_rewrite has    *)
(* locked the nodes and decided to go ahead.                                 *)
BeginUpdate(kind, keys) ==
    /\ Begin /\ \A k \in keys \cup {root} : InMemory(k)
    /\ Cardinality(keys) = IF kind = "merge" THEN 2 ELSE 1
    /\ kind # "rewrite" => root \notin keys
    /\ hist.next + NewNodes(kind) - 1 \in Key
    /\ op' = [Idle EXCEPT !.pc = "alloc", !.kind = kind, !.keys = keys,
                          !.held = {ptr[k] : k \in keys \cup {root}}]
    /\ hist' = [hist EXCEPT !.ops = @ + 1]
    /\ UNCHANGED <<bc, root, ptr>>

release_node(c, b) ==
    bch2_btree_node_transition_state([c EXCEPT !.node[b].dirty = FALSE], b, "freeable")

(* allocate_node.  A rewrite without a struct returns -12, the others assert *)
(* that there is one; a rewrite takes over the extent of the old node.       *)
AllocateNode(mem) ==
    LET c == bch2_btree_node_mem_alloc(bc, op.held, mem)
        b == c.got
    IN  /\ op.pc = "alloc"
        /\ IF mem THEN MayAlloc(bc, op.held)
           ELSE Fault /\ Reusable(bc, op.held) = <<>>
        /\ b = None => op.kind = "rewrite"
        /\ bc' = Settled(c)
        /\ op' = IF b = None THEN Idle
                 ELSE [op EXCEPT !.new = Append(@, b), !.held = @ \cup {b},
                                 !.pc = IF Len(op.new) + 1 = NewNodes(op.kind)
                                        THEN "hash" ELSE "alloc"]
        /\ hist' = Took(hist, bc, b, mem)
        /\ UNCHANGED <<root, ptr>>

(* bch2_btree_node_alloc_sectors fails: the struct is freed and the ones     *)
(* allocated before it are released.                                         *)
AllocateFails ==
    LET c == bch2_btree_node_mem_alloc(bc, op.held, TRUE)
    IN  /\ op.pc = "alloc" /\ op.kind # "rewrite" /\ Fault
        /\ MayAlloc(bc, op.held)
        /\ bc' = Settled(FoldLeft(release_node, bch2_btree_node_mem_free(c, c.got), op.new))
        /\ op' = Idle
        /\ hist' = [hist EXCEPT !.faults = @ + 1]
        /\ UNCHANGED <<root, ptr>>

(* The leaves of a split and a new root are hashed and dirty.  A merged leaf *)
(* and a rewritten one are neither inserted in the table nor listed.         *)
Hashes == op.kind = "split" \/ root \in op.keys

HashNode ==
    LET b == op.new[op.at]
        k == hist.next
        c == [bc EXCEPT !.node[b].key = k]
        d == bch2_btree_node_transition_state(c, b, "clean")
    IN  /\ op.pc = "hash"
        /\ bc' = Settled(IF Hashes THEN bch2_btree_node_set_dirty(d, b) ELSE c)
        /\ op' = [op EXCEPT !.at = @ + 1,
                            !.pc = IF op.at = Len(op.new) THEN "link" ELSE "hash"]
        /\ hist' = [hist EXCEPT !.next = @ + 1,
                                !.refused = @ \/ (Hashes /\ d.ret # 0),
                                !.lost = IF Hashes /\ d.ret # 0 THEN @ \cup {k} ELSE @]
        /\ UNCHANGED <<root, ptr>>

retire_node(c, b) ==
    bch2_btree_node_transition_state(
        [c EXCEPT !.node[b].permanent = FALSE, !.node[b].dirty = FALSE], b, "freeable")

(* The parent points to the new nodes, or there is a new root; the old ones  *)
(* are retired and all locks dropped.                                        *)
LinkNodes ==
    LET new   == {bc.node[b].key : b \in ToSet(op.new)}
        first == op.new[1]
        above == IF root \in op.keys THEN [bc EXCEPT !.node[first].permanent = TRUE]
                 ELSE bch2_btree_node_set_dirty(bc, ptr[root])
        dirty == IF op.kind = "merge" THEN bch2_btree_node_set_dirty(above, first)
                 ELSE above
        clean == op.kind = "rewrite" /\ root \notin op.keys
        old   == SetToSeq({ptr[k] : k \in op.keys})
    IN  /\ op.pc = "link" /\ op' = Idle
        /\ root' = IF root \in op.keys THEN Max(new) ELSE root
        /\ bc' = [Settled(FoldLeft(retire_node, dirty, old)) EXCEPT
                     !.saved = ((@ \ op.keys) \cup (IF clean THEN new ELSE {})) \ {root'}]
        /\ ptr' = [k \in (DOMAIN ptr \ op.keys) \cup new |->
                     IF k \notin new THEN ptr[k]
                     ELSE CHOOSE b \in ToSet(op.new) : bc.node[b].key = k]
        /\ UNCHANGED hist

-----------------------------------------------------------------------------
(* The other calls of the engine and of the cache's interface.               *)

Call(c) == /\ Begin /\ bc' = Settled(c) /\ UNCHANGED <<root, ptr, op>>

Used == [hist EXCEPT !.ops = @ + 1]

(* The struct a traversal to a key ends at.                                  *)
Reached(k) == IF k \in hist.lost THEN None
              ELSE IF ptr[k] # None THEN ptr[k] ELSE Lookup(bc, k)

Commit(k) ==
    /\ Reached(k) # None /\ hist' = Used
    /\ Call(bch2_btree_node_set_dirty([bc EXCEPT !.saved = @ \ {k}], Reached(k)))

Write(k) ==
    /\ Reached(k) # None /\ bc.node[Reached(k)].dirty
    /\ Call(Written(bc, Reached(k))) /\ hist' = Used

Pin(k) ==
    /\ InMemory(k) /\ k # root /\ ~bc.node[ptr[k]].pinned
    /\ Call(bch2_node_pin(bc, ptr[k])) /\ hist' = Used

Unpin == /\ \E b \in Node : bc.node[b].pinned
         /\ Call(bch2_btree_cache_unpin(bc)) /\ hist' = Used

(* Mutant: a dirty node is dropped.                                          *)
EvictedUnwritten(c, b) ==
    bch2_btree_node_transition_state([c EXCEPT !.node[b].dirty = FALSE], b, "freed")

(* A dirty node is written first.                                            *)
Evicted(c, b) ==
    bch2_btree_node_transition_state(IF c.node[b].dirty THEN Written(c, b) ELSE c,
                                     b, "freed")

bch2_btree_node_evict(k) ==
    LET b == Lookup(bc, k)
    IN  /\ k # root /\ b # None /\ ~bc.node[b].permanent
        /\ Call(Evicted(bc, b))
        /\ hist' = [Used EXCEPT !.lost = IF ptr[k] = b THEN @ \cup {k} ELSE @]

(* bch2_fs_btree_cache_exit: every listed struct is freed, and the table.    *)
Exit ==
    LET listed == bc.clean[1] \o bc.clean[2] \o bc.freeable
        free(c, b) == bch2_btree_node_transition_state(
                          [c EXCEPT !.node[b].permanent = FALSE], b, "freed")
        c == FoldLeft(free, bc, listed)
    IN  /\ Begin /\ bc.nr.dirty = <<0, 0>>
        /\ bc' = [FoldLeft(bch2_btree_node_mem_free, c, c.freed) EXCEPT
                     !.freed = <<>>, !.tbl = bucket_table_alloc(MinSize, c.tbl.seed)]
        /\ op' = [Idle EXCEPT !.pc = "exited"]
        /\ ptr' = [k \in DOMAIN ptr |-> None]
        /\ hist' = Used /\ UNCHANGED root

(* rht_deferred_worker on the system work queue.                             *)
Worker ==
    /\ bc.tbl.work
    /\ \E t \in rht_deferred_worker(bc.tbl, HashVals(bc)) : bc' = [bc EXCEPT !.tbl = t]
    /\ UNCHANGED <<root, ptr, op, hist>>

Update(keys) == \E kind \in {"split", "merge", "rewrite"} : BeginUpdate(kind, keys)

Next ==
    \/ \E k \in DOMAIN ptr : Get(k) \/ Commit(k) \/ Write(k) \/ Pin(k)
                             \/ bch2_btree_node_evict(k)
    \/ \E j, k \in DOMAIN ptr : Update({j, k})
    \/ \E mem \in BOOLEAN : Fill(mem) \/ AllocateNode(mem)
    \/ \E good \in BOOLEAN : ReadDone(good)
    \/ Raced \/ AllocateFails \/ HashNode \/ LinkNodes \/ Unpin \/ Exit \/ Worker

Spec == Init /\ [][Next]_vars

-----------------------------------------------------------------------------
ListOf(b) ==
    LET n == bc.node[b]
        p == Pinned(n)
    IN  CASE n.state = "clean" -> bc.clean[p]
          [] n.state = "dirty" -> bc.dirty[p]
          [] n.state = "freeable" -> bc.freeable
          [] n.state = "freed" -> bc.freed
          [] OTHER -> <<>>

Lists == <<bc.clean[1], bc.clean[2], bc.dirty[1], bc.dirty[2], bc.freeable, bc.freed>>

InState(s) == {b \in Node : bc.node[b].state = s}

(* The cache's bookkeeping agrees with the nodes whatever the order of       *)
(* pinning, dirtying, writing, refusing, reclaiming and evicting: each       *)
(* struct is on the list of its state and pin and no other, the counters are *)
(* the lengths of the lists, the table holds exactly the live nodes under    *)
(* their keys, buffers exist where the state says so, and no assertion of    *)
(* bch2_btree_node_transition_state fails unless the table refused a node    *)
(* that split or rewrite linked all the same.                                *)
CacheSound ==
    /\ root \in Key /\ DOMAIN ptr \subseteq Key
    /\ bc.ok \/ hist.refused
    /\ \A b \in Node :
         LET n == bc.node[b]
         IN  /\ n.hash = IF btree_node_state_hashed(n.state) THEN n.key ELSE 0
             /\ n.data <=> n.state \notin {"freed", "absent"}
             /\ n.state = "dirty" => n.dirty
             /\ n.state = "clean" => ~n.dirty
    /\ \A i \in 1..6 : IsInjective(Lists[i]) /\ \A b \in ToSet(Lists[i]) : ListOf(b) = Lists[i]
    /\ Cardinality(UNION {ToSet(Lists[i]) : i \in 1..6})
         = Cardinality(Node \ (InState("none") \cup InState("absent")))
    /\ bc.nr = [clean |-> <<Len(bc.clean[1]), Len(bc.clean[2])>>,
                dirty |-> <<Len(bc.dirty[1]), Len(bc.dirty[2])>>,
                freeable |-> Len(bc.freeable)]
    /\ TableOk(bc.tbl, HashVals(bc))
    /\ Elements(bc.tbl) = InState("clean") \cup InState("dirty")

(* A key of the tree has at most one live struct, although a search of a     *)
(* long chain gives up before it has seen every element, and a node that was *)
(* replaced can no longer be found.                                          *)
OneCopy ==
    /\ \A a, b \in Elements(bc.tbl) : bc.node[a].hash = bc.node[b].hash => a = b
    /\ \A b \in Elements(bc.tbl) :
         bc.node[b].hash \in DOMAIN ptr \/ b \in ToSet(op.new)

(* A traversal follows the struct a parent key points to without comparing   *)
(* it with the key: the struct holds that key, its buffer is there and it is *)
(* on no free list, after any sequence of splits, merges, rewrites, failed   *)
(* reads and reuses, but for the leaves that eviction or reclaim under       *)
(* memory pressure took and the nodes the table refused.                     *)
HintsExact ==
    \A k \in DOMAIN ptr \ hist.lost :
        ptr[k] # None => /\ bc.node[ptr[k]].key = k /\ bc.node[ptr[k]].data
                         /\ bc.node[ptr[k]].state \notin {"freeable", "freed"}

(* What was committed to a node and not yet written stays in a dirty struct: *)
(* neither reclaim nor eviction nor reuse drops it.                          *)
DirtyKept ==
    \A k \in DOMAIN ptr \ bc.saved :
        \/ hist.refused /\ k \in hist.lost
        \/ \E b \in Node : bc.node[b].key = k /\ bc.node[b].dirty /\ bc.node[b].data
=============================================================================
