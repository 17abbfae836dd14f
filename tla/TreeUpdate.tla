----------------------------- MODULE TreeUpdate -----------------------------
(* The shape of a btree (interior.rs): leaves that split, parents that split *)
(* or take the new pointers, new roots, foreground merges and rewrites, the  *)
(* node structs and extents they take and give back (cache.rs, alloc.rs),    *)
(* the pins that keep the journal until nodes are written (journal.rs), and  *)
(* recovery: the root the journal names is read, and the retained journal    *)
(* keys are replayed through the same commits (journal.rs, io.rs).           *)
(*                                                                           *)
(* Positions are 0 (POS_MIN) to MaxPos (SPOS_MAX).  A value of 0 deletes.    *)
(* Sizes are counted in u64s; headers are left out, and BtreeNode models the *)
(* sets inside one node.  A generation numbers the nodes that have used one  *)
(* extent: it stands for the sequence number in a node's header, which a new *)
(* extent draws at random.                                                   *)
EXTENDS Integers, Sequences, FiniteSets, FiniteSetsExt, SequencesExt

CONSTANTS
    MaxPos,      \* SPOS_MAX
    Workloads,   \* the sequences of updates [k, v] a run may start with
    NodeU64s,    \* room of a node of the superblock's size
    Block,       \* what a write is rounded up to
    KeyU64s,     \* size of a leaf key
    PtrU64s,     \* size of a pointer with its extent
    WhU64s,      \* size of a whiteout or a deleted key
    MaxOrder,    \* how often a node may double its room
    FailAt,      \* the allocations of one attempt that may fail
    Reads,       \* the positions that are looked up
    Pauses,      \* the numbers of updates to come at which the journal is
                 \* written and reclaimed
    MaxFlushes,  \* bound on the journal writes
    AfterCrash,  \* bound on the updates that follow a crash
    MaxFaults    \* bound on the failing allocations and crashes, together

ASSUME TreeUpdateAssumption ==
    /\ {MaxPos, NodeU64s, Block, KeyU64s, PtrU64s, WhU64s} \subseteq Nat \ {0}
    /\ {MaxOrder, MaxFlushes, AfterCrash, MaxFaults} \subseteq Nat
    /\ NodeU64s % Block = 0 /\ 2 * PtrU64s <= NodeU64s
    /\ FailAt \subseteq Nat \ {0} /\ Reads \subseteq 0..MaxPos

VARIABLES
    fs,       \* the nodes in memory, the root, the device; see FsOf
    jnl,      \* the journal: open sequence, first retained one, and the root
              \* in the newest record
    log,      \* the journalled updates, in order
    todo,     \* the updates at hand: one of the engine, or those of a replay
    mode,     \* "run", "replay", or "failed" once a replay has given up
    script,   \* the updates still to come
    want,     \* history: what the engine has acknowledged
    budget    \* faults, journal writes, and restarts of
              \* the update at hand, so far

vars == <<fs, jnl, log, todo, mode, script, want, budget>>

Positions == 0..MaxPos
MaxSib    == 65535          \* u16::MAX: no neighbour to merge with
MaxDepth  == 4              \* BTREE_MAX_DEPTH
MaxTries  == MaxOrder + MaxDepth + 1   \* where the count of restarts stops
NoPath    == [l \in 0..MaxDepth |-> 0]

-----------------------------------------------------------------------------
(* Nodes.                                                                    *)

Size(n) == IF n.level = 0 THEN KeyU64s ELSE PtrU64s
Cap(n)  == NodeU64s * 2^n.order
live_u64s(n) == Size(n) * Cardinality(DOMAIN n.keys)

bch2_btree_keys_u64s_remaining(n) ==
    IF n.open THEN Cap(n) - n.written - Size(n) * Cardinality(n.fresh)
                   - WhU64s * Cardinality(n.wh)
    ELSE 0

bch2_btree_node_insert_fits(n, u64s) ==
    ~n.rewrite /\ u64s <= bch2_btree_keys_u64s_remaining(n)

want_new_bset(n) == ~n.open /\ n.written + Block <= Cap(n)

(* A node none of whose keys are written: the keys, their `fresh' positions, *)
(* those the device has too (`nw': needs_whiteout), the unwritten whiteouts, *)
(* the estimates for merging, and the journal sequences of the open set and  *)
(* of all sets.                                                              *)
NewNode(level, min, max, ext, gen, order, keys, seq) ==
    [level |-> level, min |-> min, max |-> max, ext |-> ext, gen |-> gen,
     order |-> order, keys |-> keys, fresh |-> DOMAIN keys, nw |-> {},
     wh |-> {}, written |-> 0, open |-> TRUE, sib |-> <<0, 0>>, dirty |-> FALSE,
     rewrite |-> FALSE, jset |-> seq, jmax |-> seq, used |-> TRUE]

btree_node_reset_sib_u64s(n) ==
    [n EXCEPT !.sib = <<IF n.min # 0 THEN live_u64s(n) ELSE MaxSib,
                        IF n.max # MaxPos THEN live_u64s(n) ELSE MaxSib>>]

(* The pointer a parent holds, and what the slot of the root holds.          *)
child_ptr(id, n) == [b |-> id, ext |-> n.ext, gen |-> n.gen, min |-> n.min]
RootKey(n) == [level |-> n.level, ext |-> n.ext, gen |-> n.gen, min |-> n.min]

(* The pointers of an interior node cover its range without gaps.            *)
bch2_btree_node_check_topology(n, isRoot) ==
    /\ isRoot => n.min = 0 /\ n.max = MaxPos
    /\ n.level > 0 =>
         /\ n.max \in DOMAIN n.keys
         /\ \A p \in DOMAIN n.keys :
              LET before == {q \in DOMAIN n.keys : q < p}
              IN  n.keys[p].min = IF before = {} THEN n.min
                                  ELSE Max(before) + 1

-----------------------------------------------------------------------------
(* The state of the file system, passed from step to step: `mem' and `pins'  *)
(* belong to the node structs, `free' lists the structs for reuse, `disk'    *)
(* maps extents to images, `queue' holds the nodes to rewrite, `exposed' is  *)
(* history (see Settle), `wedged' ends the run: locks that stay taken,       *)
(* memory used after it was freed, or a node that has grown past its extent  *)
(* and is written.  The fields from `path' on are those of one attempt.      *)
FsOf(mem, root, disk, next, ondisk, exposed) ==
    [mem |-> mem, pins |-> [i \in DOMAIN mem |-> [seq |-> 0, done |-> FALSE,
                                                  owed |-> {}]],
     free |-> <<>>, root |-> root, slot |-> RootKey(mem[root]),
     disk |-> disk, next |-> next, queue |-> <<>>, exposed |-> exposed,
     ondisk |-> ondisk, wedged |-> FALSE, ok |-> TRUE,
     path |-> NoPath, new |-> 0, ret |-> 0, allocs |-> 0, fail |-> 0,
     srcs |-> <<>>, merges |-> 0, dropped |-> {}, logged |-> FALSE]

(* bch2_btree_set_root_for_read: the slot of the root keeps a copy of the    *)
(* node's key, which every journal record repeats.                           *)
bch2_btree_set_root_for_read(t, id) ==
    [t EXCEPT !.root = id, !.slot = RootKey(t.mem[id])]

(* A struct for a node of this level: the latest one given back with the     *)
(* same kind of lock, pin and size included, or a new one.                   *)
bch2_btree_node_mem_alloc(t, level) ==
    LET fits(i) == (t.mem[t.free[i]].level = 0) = (level = 0)
        found == {i \in DOMAIN t.free : fits(i)}
    IN  IF found # {}
        THEN [t EXCEPT !.new = t.free[Min(found)],
                       !.free = RemoveAt(@, Min(found))]
        ELSE [t EXCEPT !.new = Len(t.mem) + 1,
                       !.mem = Append(@, NewNode(level, 0, 0, 0, 0, 0, <<>>, 0)),
                       !.pins = Append(@, [seq |-> 0, done |-> FALSE,
                                           owed |-> {}])]

(* A struct whose extent cannot be allocated is freed.  When it was a reused *)
(* one, the journal may still list its pin: from there on nothing is defined.*)
AllocFailed(t) ==
    [t EXCEPT !.mem[t.new].used = FALSE, !.ret = -28, !.fail = 0,
              !.wedged = t.pins[t.new].seq # 0]

AllocSectors(t, level, order) ==
    IF t.allocs + 1 = t.fail THEN AllocFailed(t)
    ELSE [t EXCEPT !.allocs = @ + 1, !.next = @ + 1,
                   !.mem[t.new] = NewNode(level, 0, 0, t.next, 0,
                                    Max({order, @.order}), <<>>, 0)]

allocate_node(t, level, order) ==
    AllocSectors(bch2_btree_node_mem_alloc(t, level), level, order)

(* Mutant: a retired node takes its pin with it. *)
RetireDropsPin(t, id) ==
    [t EXCEPT !.mem[id].dirty = FALSE, !.mem[id].used = FALSE,
              !.free = <<id>> \o @,
              !.pins[id] = [seq |-> 0, done |-> FALSE, owed |-> {}]]

(* release_node and retire_node: the struct is free for reuse.  Its pin      *)
(* stays: what it owes are the positions the journal still has to cover.     *)
retire_node(t, id) ==
    [t EXCEPT !.mem[id].dirty = FALSE, !.mem[id].used = FALSE,
              !.free = <<id>> \o @,
              !.pins[id].owed = IF t.pins[id].seq = 0 THEN @
                                ELSE @ \cup t.mem[id].min..t.mem[id].max]

RetireAll(t, ids) == FoldLeft(retire_node, t, ids)

-----------------------------------------------------------------------------
(* Writing and reading nodes.                                                *)

OnDisk(n, p) == IF n.level = 0 THEN n.keys[p] ELSE [n.keys[p] EXCEPT !.b = 0]

BsetOf(n) == [keys |-> [p \in n.fresh |-> OnDisk(n, p)],
              dels |-> n.wh \ n.fresh, seq |-> n.jset]

Sectors(n) ==
    LET u64s == Size(n) * Cardinality(n.fresh) + WhU64s * Cardinality(n.wh)
    IN  Block * Max({1, (u64s + Block - 1) \div Block})

(* The image after the write: the first write of a node starts a new one.    *)
__bch2_btree_node_write(disk, n) ==
    LET old == IF n.written = 0 THEN <<>> ELSE disk[n.ext].sets
        image == [gen |-> n.gen, level |-> n.level, min |-> n.min,
                  max |-> n.max, sets |-> Append(old, BsetOf(n)),
                  written |-> n.written + Sectors(n)]
    IN  [e \in DOMAIN disk \cup {n.ext} |-> IF e = n.ext THEN image ELSE disk[e]]

(* bch2_btree_post_write_cleanup: all sets become one, and a new one is      *)
(* opened where it fits.                                                     *)
bch2_btree_post_write_cleanup(n, written) ==
    [n EXCEPT !.written = written, !.fresh = {}, !.wh = {},
              !.nw = DOMAIN n.keys, !.jset = n.jmax,
              !.open = written + Block <= Cap(n)]

(* Write the node if it is dirty.  A root without an extent cannot be        *)
(* written; a set without keys is not.  The pins are dropped in both other   *)
(* cases, and with them the positions they kept in the journal.              *)
bch2_btree_node_write_trans(t, id) ==
    LET n == t.mem[id]
        skip == n.written # 0 /\ n.fresh = {} /\ n.wh = {}
        past == ~skip /\ n.written + Sectors(n) > NodeU64s
    IN  IF ~n.dirty \/ n.ext = 0 THEN t
        ELSE [t EXCEPT
               !.disk = IF skip THEN @ ELSE __bch2_btree_node_write(@, n),
               !.mem[id] = [bch2_btree_post_write_cleanup(n,
                              IF skip THEN n.written ELSE n.written + Sectors(n))
                            EXCEPT !.dirty = FALSE],
               !.dropped = @ \cup (IF t.pins[id].seq = 0 THEN {}
                                   ELSE t.pins[id].owed \cup n.min..n.max),
               !.wedged = @ \/ past,
               !.pins[id] = [seq |-> 0, done |-> FALSE, owed |-> {}]]

WriteAll(t, ids) == FoldLeft(bch2_btree_node_write_trans, t, ids)

(* A pointer and a position name an image that can be read: the header has   *)
(* the pointer's sequence and range, and its first set is in the journal.    *)
Readable(disk, ptr, max, level, ondisk) ==
    /\ ptr.ext \in DOMAIN disk
    /\ LET i == disk[ptr.ext]
       IN  /\ i.gen = ptr.gen /\ i.level = level /\ i.min = ptr.min
           /\ i.max = max
           /\ ondisk # 0 => i.sets[1].seq <= ondisk

(* The keys of the sets that are not newer than the journal.                 *)
KeptSets(image, ondisk) ==
    SelectSeq(image.sets, LAMBDA s : ondisk = 0 \/ s.seq <= ondisk)

ReadKeys(sets) ==
    LET add(keys, s) ==
          [p \in (DOMAIN keys \ s.dels) \cup DOMAIN s.keys |->
             IF p \in DOMAIN s.keys THEN s.keys[p] ELSE keys[p]]
    IN  FoldLeft(add, <<>>, sets)

(* A node read back is full, clean and to be rewritten: the pointers never   *)
(* learn how much of a node was written.                                     *)
NodeRead(image, ext, sets) ==
    LET n == NewNode(image.level, image.min, image.max, ext, image.gen, 0,
                     ReadKeys(sets), Max({s.seq : s \in Range(sets)}))
    IN  [n EXCEPT !.fresh = {}, !.nw = DOMAIN n.keys, !.open = FALSE,
                  !.written = image.written, !.rewrite = TRUE]

bch2_btree_node_read(t, ptr) ==
    NodeRead(t.disk[ptr.ext], ptr.ext, KeptSets(t.disk[ptr.ext], t.ondisk))

bch2_btree_node_need_rewrite_add(t, n) ==
    [t EXCEPT !.queue = Append(@, [level |-> n.level, pos |-> n.max,
                                   ext |-> n.ext, gen |-> n.gen])]

FillRead(t, n) ==
    bch2_btree_node_need_rewrite_add([t EXCEPT !.mem[t.new] = n], n)

(* The struct of a node that cannot be read is free again.                   *)
bch2_btree_node_get_noiter_unlocked(t, ptr, max, level) ==
    LET cached == {i \in DOMAIN t.mem : /\ t.mem[i].used
                                        /\ t.mem[i].ext = ptr.ext
                                        /\ t.mem[i].gen = ptr.gen}
        a == bch2_btree_node_mem_alloc(t, level)
    IN  IF cached # {} THEN [t EXCEPT !.new = Min(cached)]
        ELSE IF Readable(t.disk, ptr, max, level, t.ondisk)
        THEN FillRead(a, bch2_btree_node_read(t, ptr))
        ELSE [retire_node(a, a.new) EXCEPT !.ret = -4]

(* Walk down from node `b' to the node of `depth' that covers `p'.           *)
RECURSIVE Descend(_, _, _, _)
RECURSIVE DescendInto(_, _, _, _, _)
Descend(t, b, p, depth) ==
    LET n == t.mem[b]
        ahead == {q \in DOMAIN n.keys : q >= p}
        u == [t EXCEPT !.path[n.level] = b]
    IN  IF n.level <= depth THEN u
        ELSE IF ahead = {} THEN [u EXCEPT !.ret = -2]
        ELSE IF p < n.keys[Min(ahead)].min THEN [u EXCEPT !.ret = -3]
        ELSE IF n.keys[Min(ahead)].b # 0
        THEN Descend(u, n.keys[Min(ahead)].b, p, depth)
        ELSE DescendInto(bch2_btree_node_get_noiter_unlocked(u,
               n.keys[Min(ahead)], Min(ahead), n.level - 1),
               b, Min(ahead), p, depth)
DescendInto(t, b, q, p, depth) ==
    IF t.ret # 0 THEN t
    ELSE Descend([t EXCEPT !.mem[b].keys[q].b = t.new], t.new, p, depth)

bch2_btree_path_traverse_one(t, p, depth) ==
    Descend([t EXCEPT !.path = NoPath], t.root, p, depth)

-----------------------------------------------------------------------------
(* Foreground merges.                                                        *)

btree_foreground_merge_threshold(n) == Cap(n) \div 3
btree_foreground_merge_hysteresis(n) ==
    btree_foreground_merge_threshold(n) + btree_foreground_merge_threshold(n) \div 4
btree_foreground_merge_higher_threshold(n) == (Cap(n) * 3) \div 5

btree_node_needs_merge(n, delta) ==
    Min({n.sib[1], n.sib[2]}) + delta <= btree_foreground_merge_threshold(n)

(* A merge with node `s' that did not happen leaves an estimate above the    *)
(* threshold, half way down to it.                                           *)
merge_fail_reset_sib_u64s(t, b, s) ==
    LET n == t.mem[b]
        sum == live_u64s(n) + live_u64s(t.mem[s])
        hyst == btree_foreground_merge_hysteresis(n)
        side == IF t.mem[s].max < n.max THEN 1 ELSE 2
    IN  IF s = b THEN t
        ELSE [t EXCEPT !.mem[b].sib[side] =
                Min({MaxSib - 1, IF sum > hyst THEN sum - (sum - hyst) \div 2
                                 ELSE sum})]

ResetAll(t, b) ==
    FoldLeft(LAMBDA u, s : merge_fail_reset_sib_u64s(u, b, s), t, t.srcs)

(* Take the neighbour on one side as a source, if it has the same parent.    *)
AddSibling(t, u, l, side) ==
    IF u.ret # 0 THEN [u EXCEPT !.path = t.path]
    ELSE IF u.path[l] = t.path[l] \/ u.path[l + 1] # t.path[l + 1]
    THEN [u EXCEPT !.path = t.path, !.mem[t.path[l]].sib[side] = MaxSib]
    ELSE [u EXCEPT !.path = t.path, !.srcs = Append(@, u.path[l])]

bch2_btree_merge_push_pos(t, l, side) ==
    LET n == t.mem[t.path[l]]
    IN  IF t.ret # 0 THEN t
        ELSE IF (side = 1 /\ n.min = 0) \/ (side = 2 /\ n.max = MaxPos)
        THEN [t EXCEPT !.mem[t.path[l]].sib[side] = MaxSib]
        ELSE IF n.sib[side] > btree_foreground_merge_threshold(n) THEN t
        ELSE AddSibling(t, bch2_btree_path_traverse_one(t,
               IF side = 1 THEN n.min - 1 ELSE n.max + 1, l), l, side)

SumLive(t) == FoldLeft(LAMBDA u64s, s : u64s + live_u64s(t.mem[s]), 0, t.srcs)
Ceil(a, b) == Max({1, (a + b - 1) \div b})

(* Which sources to merge: of three that do not fit, the smaller outer one   *)
(* is dropped.  No sources are left where nothing is gained.                 *)
DropOuter(t, b) ==
    LET i == IF live_u64s(t.mem[t.srcs[1]]) > live_u64s(t.mem[t.srcs[3]])
             THEN 3 ELSE 1
    IN  [merge_fail_reset_sib_u64s(t, b, t.srcs[i])
           EXCEPT !.srcs = RemoveAt(@, i)]

(* Mutant: nobody asks whether the sources fit. *)
MergeIntoAlways(t, b, dsts) == t

MergeInto(t, b, dsts) ==
    IF dsts >= Len(t.srcs) \/ (dsts = 2 /\ SumLive(t) >= Cap(t.mem[b]))
    THEN [ResetAll(t, b) EXCEPT !.srcs = <<>>]
    ELSE t

ComputeTwo(t, b) == MergeInto(t, b, Ceil(SumLive(t), Cap(t.mem[b]) \div 2))

compute_merge(t, b) ==
    LET dsts == Ceil(SumLive(t), btree_foreground_merge_higher_threshold(t.mem[b]))
    IN  IF t.ret # 0 \/ Len(t.srcs) < 2 THEN [t EXCEPT !.srcs = <<>>]
        ELSE IF dsts >= 3 /\ Len(t.srcs) = 3 THEN ComputeTwo(DropOuter(t, b), b)
        ELSE MergeInto(t, b, dsts)

btree_merge_topology_check(t) ==
    \A i \in 2..Len(t.srcs) :
        t.mem[t.srcs[i]].min = t.mem[t.srcs[i - 1]].max + 1

(* The sources' keys in the new node, without gaps in their room.            *)
MergePack(t, level) ==
    LET src(i) == t.mem[t.srcs[i]]
        keys == [p \in UNION {DOMAIN src(i).keys : i \in DOMAIN t.srcs} |->
                   src(CHOOSE i \in DOMAIN t.srcs : p \in DOMAIN src(i).keys).keys[p]]
        n == NewNode(level, src(1).min, src(Len(t.srcs)).max, t.mem[t.new].ext, 0,
                     t.mem[t.new].order, keys,
                     Max({src(i).jmax : i \in DOMAIN t.srcs}))
    IN  [t EXCEPT !.mem[t.new] = [btree_node_reset_sib_u64s(n) EXCEPT !.dirty = TRUE],
                  !.ok = @ /\ live_u64s(n) < Cap(n)
                           /\ bch2_btree_node_check_topology(n, FALSE)]

(* Remove a pointer from a parent: a whiteout follows one that was written.  *)
bch2_push_whiteout(t, parent, p) ==
    [t EXCEPT !.mem[parent].wh = @ \cup {p}, !.mem[parent].nw = @ \ {p},
              !.ok = @ /\ bch2_btree_keys_u64s_remaining(t.mem[parent]) >= WhU64s]

RemovePtr(t, parent, p) ==
    LET u == IF p \in t.mem[parent].nw THEN bch2_push_whiteout(t, parent, p) ELSE t
    IN  [u EXCEPT !.mem[parent].fresh = @ \ {p},
                  !.mem[parent].keys = [q \in DOMAIN @ \ {p} |-> @[q]]]

AddPtr(t, parent, id) ==
    LET p == t.mem[id].max
    IN  [t EXCEPT !.mem[parent].fresh = @ \cup {p}, !.mem[parent].dirty = TRUE,
                  !.mem[parent].keys =
                    [q \in DOMAIN @ \cup {p} |->
                       IF q = p THEN child_ptr(id, t.mem[id]) ELSE @[q]]]

MergeParent(t, parent) ==
    AddPtr(FoldLeft(LAMBDA u, s : RemovePtr(u, parent, t.mem[s].max),
                    t, Reverse(t.srcs)),
           parent, t.new)

MergeDone(t) ==
    [bch2_btree_node_write_trans(RetireAll(t, t.srcs), t.new)
       EXCEPT !.srcs = <<>>, !.merges = @ + 1]

(* If no extent is left, the sources' write locks stay taken.                *)
MergeNodes(t, l) ==
    IF t.ret # 0 THEN [t EXCEPT !.wedged = TRUE]
    ELSE MergeDone(MergeParent(MergePack(t, l), t.path[l + 1]))

MergeAlloc(t, l) ==
    IF t.srcs = <<>> THEN t
    ELSE MergeNodes(allocate_node(t, l,
           Max({t.mem[t.srcs[i]].order : i \in DOMAIN t.srcs})), l)

MergeSrcs(t, l) ==
    IF t.srcs # <<>> /\ ~btree_merge_topology_check(t)
    THEN [ResetAll(t, t.path[l]) EXCEPT !.ret = -8]
    ELSE MergeAlloc(compute_merge(t, t.path[l]), l)

__bch2_foreground_maybe_merge(t, l) ==
    MergeSrcs(compute_merge(
      bch2_btree_merge_push_pos(
        LET u == bch2_btree_merge_push_pos([t EXCEPT !.srcs = <<>>], l, 1)
        IN  [u EXCEPT !.srcs = Append(@, t.path[l])],
        l, 2),
      t.path[l]), l)

bch2_foreground_maybe_merge(t, l, delta) ==
    IF t.path[l] = 0 \/ ~btree_node_needs_merge(t.mem[t.path[l]], delta) THEN t
    ELSE __bch2_foreground_maybe_merge(t, l)

-----------------------------------------------------------------------------
(* Splits.                                                                   *)

(* The keys that start below three fifths of the live size go left.          *)
LeftKeys(n) ==
    LET before(p) == Size(n) * Cardinality({q \in DOMAIN n.keys : q < p})
    IN  {p \in DOMAIN n.keys : before(p) < (live_u64s(n) * 3) \div 5}

Splits(n) == LeftKeys(n) # {} /\ LeftKeys(n) # DOMAIN n.keys

(* Mutant: the node starts again without more room. *)
GrowLeafNot(t, src) ==
    IF t.mem[src].order >= MaxOrder THEN [t EXCEPT !.ret = -12]
    ELSE [t EXCEPT !.ret = -4]

(* A leaf that cannot be split doubles its room instead.                     *)
GrowLeaf(t, src) ==
    IF t.mem[src].order >= MaxOrder THEN [t EXCEPT !.ret = -12]
    ELSE [t EXCEPT !.mem[src].order = @ + 1, !.ret = -4]

(* Two nodes for the halves of `src', or none of them.                       *)
SecondNode(t, left, level, order) ==
    LET u == allocate_node(t, level, order)
    IN  IF t.ret # 0 THEN t
        ELSE IF u.ret # 0 THEN retire_node(u, left)
        ELSE [u EXCEPT !.srcs = <<left, u.new>>]

AllocatePair(t, level, order) ==
    LET u == allocate_node(t, level, order)
    IN  SecondNode(u, u.new, level, order)

FillHalf(t, id, n, min, max) ==
    LET half == NewNode(n.level, min, max, t.mem[id].ext, 0, t.mem[id].order,
                        [p \in DOMAIN n.keys \cap min..max |-> n.keys[p]], n.jmax)
    IN  [t EXCEPT !.mem[id] = [btree_node_reset_sib_u64s(half) EXCEPT !.dirty = TRUE]]

(* Mutant: the halves share the pivot. *)
FillPairShares(t, n) ==
    LET pivot == Max(LeftKeys(n))
    IN  FillHalf(FillHalf(t, t.srcs[1], n, n.min, pivot),
                 t.srcs[2], n, pivot, n.max)

FillPair(t, n) ==
    LET pivot == Max(LeftKeys(n))
    IN  FillHalf(FillHalf(t, t.srcs[1], n, n.min, pivot),
                 t.srcs[2], n, pivot + 1, n.max)

(* A root above the two nodes; all three are written at once.                *)
PlaceRoot(t, old, pair) ==
    LET left == t.mem[pair[1]]
        right == t.mem[pair[2]]
        n == NewNode(left.level + 1, 0, MaxPos, t.mem[t.new].ext, 0, t.mem[t.new].order,
                     [p \in {left.max, right.max} |->
                        IF p = left.max THEN child_ptr(pair[1], left)
                        ELSE child_ptr(pair[2], right)],
                     Max({left.jmax, right.jmax}))
        u == [t EXCEPT !.mem[t.new] =
                [btree_node_reset_sib_u64s(n) EXCEPT !.dirty = TRUE]]
    IN  IF t.ret # 0 THEN RetireAll(t, pair)
        ELSE WriteAll(retire_node(bch2_btree_set_root_for_read(u, u.new), old),
                      <<u.new>> \o pair)

NewRoot(t, old, pair, order) ==
    IF t.mem[old].level + 1 >= MaxDepth
    THEN [RetireAll(t, pair) EXCEPT !.ret = -12]
    ELSE PlaceRoot(allocate_node(t, t.mem[old].level + 1, order), old, pair)

(* After a split that the parent had room for, the levels above may merge.   *)
(* When one of those merges fails, the new nodes' locks are given back a     *)
(* second time.                                                              *)
RECURSIVE MergeUp(_, _)
MergeUp(t, l) ==
    IF t.ret # 0 THEN [t EXCEPT !.ok = FALSE]
    ELSE IF l >= MaxDepth \/ t.path[l] = 0 THEN t
    ELSE MergeUp(bch2_foreground_maybe_merge(t, l, 0), l + 1)

(* The pair takes the old node's place.  Its right pointer overwrites the    *)
(* old one, and inherits that it was written.                                *)
FitsInParent(t, parent, old, pair) ==
    MergeUp(WriteAll(retire_node(
      AddPtr(AddPtr(t, parent, pair[1]), parent, pair[2]), old), pair), 1)

(* The parent's pair takes the pointers, and is placed one level up.  The    *)
(* nodes below stay unwritten.                                               *)
InsertSplit(t, pair, id) ==
    LET side == IF t.mem[id].max <= t.mem[pair[1]].max THEN pair[1] ELSE pair[2]
    IN  AddPtr(t, side, id)

ParentPair(t, parent, old, pair) ==
    LET u == FillPair(t, t.mem[parent])
        v == InsertSplit(InsertSplit(u, u.srcs, pair[1]), u.srcs, pair[2])
        resib(w, id) ==
          [w EXCEPT !.mem[id] = btree_node_reset_sib_u64s(w.mem[id])]
    IN  retire_node(FoldLeft(resib, v, v.srcs), old)

(* What fits is asked with the size of a pointer that has no extent.         *)
RECURSIVE SplitUp(_, _, _, _)
RECURSIVE SplitParent(_, _, _, _, _)
SplitUp(t, old, pair, order) ==
    LET parent == t.path[t.mem[old].level + 1]
        p == t.mem[parent]
        required == IF t.mem[old].max \in p.fresh THEN PtrU64s - 1
                    ELSE 2 * (PtrU64s - 1)
    IN  IF parent = 0 THEN NewRoot(t, old, pair, order)
        ELSE IF t.mem[old].max \notin DOMAIN p.keys
        THEN [RetireAll(t, pair) EXCEPT !.ret = -8]
        ELSE IF bch2_btree_node_insert_fits(p, required)
        THEN FitsInParent(t, parent, old, pair)
        ELSE IF ~Splits(p) THEN [RetireAll(t, pair) EXCEPT !.ret = -6]
        ELSE SplitParent(AllocatePair(t, p.level, order), parent, old, pair, order)
SplitParent(t, parent, old, pair, order) ==
    IF t.ret # 0
    THEN RetireAll(t, pair)
    ELSE LET u == ParentPair(t, parent, old, pair)
         IN  SplitUp(u, parent, u.srcs, order)

SplitPair(t, src) ==
    IF t.ret # 0 THEN t
    ELSE SplitUp(FillPair(t, t.mem[src]), src, t.srcs, t.mem[src].order)

bch2_btree_split_leaf(t) ==
    LET src == t.path[0]
        n == t.mem[src]
    IN  IF ~bch2_btree_node_check_topology(n, src = t.root) THEN [t EXCEPT !.ret = -1]
        ELSE IF ~Splits(n) THEN GrowLeaf(t, src)
        ELSE SplitPair(AllocatePair(t, 0, n.order), src)

-----------------------------------------------------------------------------
(* Rewrites.                                                                 *)

(* A copy of the node at the end of the path in the same extent, with the    *)
(* next sequence.  The parent's pointer is replaced; a root's copy is dirty, *)
(* no copy is written.                                                       *)
Replacement(b, order) ==
    btree_node_reset_sib_u64s(NewNode(b.level, b.min, b.max, b.ext, b.gen + 1,
                                      Max({order, b.order}), b.keys, 0))

RewriteLink(t, old, parent) ==
    IF parent = 0
    THEN bch2_btree_set_root_for_read([t EXCEPT !.mem[t.new].dirty = TRUE], t.new)
    ELSE [AddPtr(t, parent, t.new) EXCEPT !.mem[parent].nw = @ \ {t.mem[old].max}]

RewriteNode(t, old) ==
    LET n == Replacement(t.mem[old], t.mem[t.new].order)
        u == [t EXCEPT !.mem[t.new] = n,
                       !.ok = @ /\ live_u64s(n) < Cap(n)
                                /\ bch2_btree_node_check_topology(n, FALSE)]
    IN  retire_node(RewriteLink(u, old, t.path[n.level + 1]), old)

bch2_btree_node_rewrite(t, old) ==
    RewriteNode(bch2_btree_node_mem_alloc(t, t.mem[old].level), old)

(* Only the node that was queued is rewritten: the path may end at another.  *)
RewriteFound(t, item) ==
    LET b == t.path[Max({l \in 0..item.level : t.path[l] # 0} \cup {0})]
    IN  IF /\ t.ret = 0 /\ b # 0
           /\ t.mem[b].ext = item.ext /\ t.mem[b].gen = item.gen
        THEN bch2_btree_node_rewrite(t, b)
        ELSE [t EXCEPT !.ret = 0]

bch2_btree_node_rewrite_key(t, item) ==
    RewriteFound(bch2_btree_path_traverse_one(t, item.pos, item.level), item)

bch2_do_pending_node_rewrites(t) ==
    FoldLeft(bch2_btree_node_rewrite_key, [t EXCEPT !.queue = <<>>, !.ret = 0], t.queue)

-----------------------------------------------------------------------------
(* Commits.                                                                  *)

EntryU64s(e) == IF e.v = 0 THEN WhU64s ELSE KeyU64s

(* Mutant: a pin moves on to the newest update. *)
AddPinMoves(pin, seq) == [pin EXCEPT !.seq = seq, !.done = FALSE]

bch2_btree_add_journal_pin(pin, seq) ==
    IF pin.seq = 0 \/ seq < pin.seq THEN [pin EXCEPT !.seq = seq, !.done = FALSE]
    ELSE pin

(* Both estimates follow the live size down, never up.                       *)
LowerSib(n, live) ==
    LET lower(s) == IF s = MaxSib \/ live_u64s(n) >= live THEN s
                    ELSE Max({s + live_u64s(n) - live, live_u64s(n)})
    IN  [n EXCEPT !.sib = <<lower(n.sib[1]), lower(n.sib[2])>>]

InsertKey(n, e) ==
    IF e.v = 0
    THEN [n EXCEPT !.keys = [p \in DOMAIN @ \ {e.k} |-> @[p]],
                   !.fresh = @ \ {e.k}, !.nw = @ \ {e.k},
                   !.wh = IF e.k \in n.nw THEN @ \cup {e.k} ELSE @]
    ELSE [n EXCEPT !.keys = [p \in DOMAIN @ \cup {e.k} |->
                               IF p = e.k THEN e.v ELSE @[p]],
                   !.fresh = @ \cup {e.k}]

(* A delete of what is not there leaves the node as it is.                   *)
bch2_btree_insert_key_leaf(t, e, seq) ==
    LET b == t.path[0]
        n == t.mem[b]
        m == LowerSib(InsertKey(n, e), live_u64s(n))
    IN  IF e.v = 0 /\ e.k \notin DOMAIN n.keys THEN t
        ELSE [t EXCEPT !.mem[b] = [m EXCEPT !.dirty = TRUE,
                                            !.jset = Max({@, seq}),
                                            !.jmax = Max({@, seq})],
                       !.pins[b] = bch2_btree_add_journal_pin(@, seq),
                       !.ok = @ /\ (e.v # 0 \/ e.k \in n.nw =>
                                bch2_btree_keys_u64s_remaining(n) >= EntryU64s(e))]

(* bch2_btree_node_prep_for_write: open a new set.                           *)
PrepForWrite(t) ==
    IF want_new_bset(t.mem[t.path[0]])
    THEN [t EXCEPT !.mem[t.path[0]].open = TRUE, !.mem[t.path[0]].jset = t.mem[t.path[0]].jmax]
    ELSE t

Restart(t) == IF t.ret = 0 THEN [t EXCEPT !.ret = -4] ELSE t

NeedsSplit(n, u64s) == ~bch2_btree_node_insert_fits(n, u64s) /\ ~want_new_bset(n)

(* The second half of a commit: the journal entry is made before the last    *)
(* look at the room.                                                         *)
CommitWrite(t, e, seq) ==
    IF NeedsSplit(t.mem[t.path[0]], EntryU64s(e)) THEN Restart(bch2_btree_split_leaf(t))
    ELSE bch2_btree_insert_key_leaf(t, e, seq)

CommitMerged(t, e, seq) ==
    IF t.ret # 0 THEN t
    ELSE IF t.merges # 0 THEN Restart(t)
    ELSE CommitWrite([PrepForWrite(t) EXCEPT !.logged = TRUE], e, seq)

(* The first half: split, merge, or go on.  An update that changes nothing   *)
(* is dropped, except in a replay.                                           *)
CommitPrecheck(t, e, seq, replay) ==
    LET n == t.mem[t.path[0]]
        old == IF e.k \in DOMAIN n.keys THEN n.keys[e.k] ELSE 0
        required == IF e.v = 0 /\ old # 0 THEN 0 ELSE EntryU64s(e)
    IN  IF t.ret # 0 \/ (~replay /\ old = e.v) THEN t
        ELSE IF NeedsSplit(n, required) THEN Restart(bch2_btree_split_leaf(t))
        ELSE CommitMerged(bch2_foreground_maybe_merge(t, 0,
                            IF e.v = 0 THEN 0 ELSE EntryU64s(e)), e, seq)

bch2_trans_commit(t, e, seq, replay) ==
    CommitPrecheck(bch2_btree_path_traverse_one(t, e.k, 0), e, seq, replay)

-----------------------------------------------------------------------------
(* The durable tree, and what it covers.                                     *)

(* The leaf that recovery would reach for a position, as extent and          *)
(* generation: from an image, and from the tree in memory.                   *)
RECURSIVE DurableLeaf(_, _, _)
DurableLeaf(disk, ptr, p) ==
    IF ptr.ext \notin DOMAIN disk THEN <<0, 0>>
    ELSE IF disk[ptr.ext].gen # ptr.gen THEN <<0, 0>>
    ELSE IF disk[ptr.ext].level = 0 THEN <<ptr.ext, ptr.gen>>
    ELSE LET keys == ReadKeys(disk[ptr.ext].sets)
             ahead == {q \in DOMAIN keys : q >= p}
         IN  IF ahead = {} THEN <<0, 0>> ELSE DurableLeaf(disk, keys[Min(ahead)], p)

RECURSIVE LeafInMemory(_, _, _)
LeafInMemory(t, b, p) ==
    LET n == t.mem[b]
        ahead == {q \in DOMAIN n.keys : q >= p}
    IN  IF n.level = 0 THEN <<n.ext, n.gen>>
        ELSE IF ahead = {} THEN <<0, 0>>
        ELSE IF n.keys[Min(ahead)].b = 0
        THEN DurableLeaf(t.disk, n.keys[Min(ahead)], p)
        ELSE LeafInMemory(t, n.keys[Min(ahead)].b, p)

(* The end of an operation.  A position is exposed when a write has dropped  *)
(* its pin and the root in the slot does not reach the leaf that has it.     *)
Settle(t) ==
    [t EXCEPT !.exposed = @ \cup {p \in t.dropped :
                                    DurableLeaf(t.disk, t.slot, p)
                                      # LeafInMemory(t, t.root, p)},
              !.path = NoPath, !.new = 0, !.ret = 0, !.allocs = 0, !.fail = 0,
              !.srcs = <<>>, !.merges = 0, !.dropped = {}, !.logged = FALSE]

-----------------------------------------------------------------------------
(* Recovery.                                                                 *)

(* bch2_btree_root_alloc_fake: an empty leaf without an extent.              *)
FakeRoot == NewNode(0, 0, MaxPos, 0, 0, 0, <<>>, 0)

(* The root named by the newest record is read and rewritten; the fake root  *)
(* takes its place if it cannot be read.                                     *)
bch2_btree_root_read(disk, rec, next, ondisk, exposed) ==
    LET n == NodeRead(disk[rec.ext], rec.ext, KeptSets(disk[rec.ext], ondisk))
    IN  IF Readable(disk, rec, MaxPos, rec.level, ondisk)
        THEN bch2_do_pending_node_rewrites(bch2_btree_node_need_rewrite_add(
               FsOf(<<n>>, 1, disk, next, ondisk, exposed), n))
        ELSE FsOf(<<FakeRoot>>, 1, disk, next, ondisk, exposed)

(* The positions recovery cannot vouch for: those whose leaf the recorded    *)
(* root does not reach, or only through a node with a set newer than the     *)
(* journal (its sequence number will be used again).                         *)
Unvouched ==
    LET known == {e \in DOMAIN fs.disk :
                    \A s \in Range(fs.disk[e].sets) : s.seq <= fs.ondisk}
        disk == [e \in known |-> fs.disk[e]]
    IN  {p \in Positions : jnl.root.ext # 0 /\ DurableLeaf(disk, jnl.root, p) = <<0, 0>>}

Durable(e) == e.seq <= fs.ondisk
Retained(e) == Durable(e) /\ e.seq >= jnl.last

Replayed(entries) ==
    [p \in Positions |->
       FoldLeft(LAMBDA v, e : IF e.k = p THEN e.v ELSE v, 0, entries)]

-----------------------------------------------------------------------------
(* The specification.                                                        *)

Init ==
    /\ fs = FsOf(<<FakeRoot>>, 1, <<>>, 1, 0, {})
    /\ jnl = [cur |-> 1, last |-> 1, root |-> RootKey(FakeRoot)]
    /\ log = <<>> /\ todo = <<>> /\ mode = "run"
    /\ script \in Workloads
    /\ want = [p \in Positions |-> 0]
    /\ budget = [faults |-> 0, flushes |-> 0, tries |-> 0]

Idle == todo = <<>> /\ mode = "run" /\ ~fs.wedged

(* The engine takes its next update.                                         *)
Begin ==
    /\ Idle /\ script # <<>>
    /\ todo' = <<[k |-> Head(script).k, v |-> Head(script).v, seq |-> 0]>>
    /\ script' = Tail(script)
    /\ UNCHANGED <<fs, jnl, log, mode, want, budget>>

(* The outcome of one attempt: -4 restarts it, and the end of an operation   *)
(* of the engine runs the rewrites that reads have queued.  An error ends a  *)
(* replay for good.                                                          *)
Finish(r, e) ==
    /\ fs' = Settle(IF r.ret # -4 /\ mode = "run"
                    THEN bch2_do_pending_node_rewrites(r) ELSE r)
    /\ todo' = IF r.ret = -4 THEN todo ELSE Tail(todo)
    /\ mode' = IF mode = "replay" /\ r.ret \notin {0, -4} THEN "failed"
               ELSE IF todo' = <<>> THEN "run" ELSE mode
    /\ log' = IF r.logged /\ mode = "run" THEN Append(log, [e EXCEPT !.seq = jnl.cur])
              ELSE log
    /\ want' = IF r.ret = 0 /\ mode = "run" THEN [want EXCEPT ![e.k] = e.v] ELSE want

(* One attempt to commit the update at hand, in which the allocation `f' may *)
(* fail.                                                                     *)
Attempt(f) ==
    /\ todo # <<>> /\ mode # "failed" /\ ~fs.wedged
    /\ f # 0 => budget.faults < MaxFaults
    /\ \E r \in {bch2_trans_commit([fs EXCEPT !.fail = f], Head(todo),
                    IF mode = "replay" THEN Head(todo).seq ELSE jnl.cur,
                    mode = "replay")} :
         /\ f # 0 => r.fail = 0
         /\ Finish(r, Head(todo))
    /\ budget' = [budget EXCEPT !.faults = IF f = 0 THEN @ ELSE @ + 1,
                                !.tries = IF todo' = todo THEN Min({@ + 1, MaxTries})
                                          ELSE 0]
    /\ UNCHANGED <<jnl, script>>

(* A lookup reads the nodes on its way.                                      *)
Get(k) ==
    /\ Idle
    /\ fs' = Settle(bch2_do_pending_node_rewrites(
                      bch2_btree_path_traverse_one(fs, k, 0)))
    /\ UNCHANGED <<jnl, log, todo, mode, script, want, budget>>

Pinned == {i \in DOMAIN fs.pins : fs.pins[i].seq # 0}
OldestPin == Min({fs.pins[i].seq : i \in Pinned} \cup {jnl.cur})

(* Write the open journal entry: with it the root, and the first sequence    *)
(* that replay still needs (update_last_seq).                                *)
FlushJournal ==
    /\ Idle /\ Len(script) \in Pauses /\ budget.flushes < MaxFlushes
    /\ \/ fs.slot # jnl.root
       \/ \E e \in Range(log) : e.seq = jnl.cur \/ (e.seq >= jnl.last /\ e.seq < OldestPin)
    /\ jnl' = [cur |-> jnl.cur + 1, last |-> OldestPin, root |-> fs.slot]
    /\ fs' = [fs EXCEPT !.ondisk = jnl.cur]
    /\ budget' = [budget EXCEPT !.flushes = @ + 1]
    /\ UNCHANGED <<log, todo, mode, script, want>>

(* journal_flush_pins: the pins up to a sequence, oldest first.  That of a   *)
(* clean node is only set aside; a node that cannot be written stops it.     *)
__btree_node_flush(t, id) ==
    IF t.mem[id].dirty THEN bch2_btree_node_write_trans(t, id)
    ELSE [t EXCEPT !.pins[id].done = TRUE]

RECURSIVE journal_flush_pins(_, _)
journal_flush_pins(t, seq) ==
    LET todoPins == {i \in DOMAIN t.pins : ~t.pins[i].done /\ t.pins[i].seq \in 1..seq}
        oldest == {i \in todoPins : \A j \in todoPins : t.pins[i].seq <= t.pins[j].seq}
        id == Min(oldest)
    IN  IF todoPins = {} \/ (t.mem[id].dirty /\ t.mem[id].ext = 0) THEN t
        ELSE journal_flush_pins(__btree_node_flush(t, id), seq)

Reclaim(seq) ==
    /\ Idle /\ Len(script) \in Pauses
    /\ fs' = Settle(journal_flush_pins(fs, seq))
    /\ UNCHANGED <<jnl, log, todo, mode, script, want, budget>>

(* What was in memory is gone; the retained entries are replayed.            *)
Crash ==
    /\ budget.faults < MaxFaults
    /\ fs' = Settle(bch2_btree_root_read(fs.disk, jnl.root, fs.next, fs.ondisk,
                                         fs.exposed \cup Unvouched))
    /\ todo' = SelectSeq(log, Retained)
    /\ mode' = IF todo' = <<>> THEN "run" ELSE "replay"
    /\ log' = SelectSeq(log, Durable)
    /\ want' = Replayed(log')
    /\ jnl' = [jnl EXCEPT !.cur = fs.ondisk + 1]
    /\ budget' = [budget EXCEPT !.faults = @ + 1, !.tries = 0]
    /\ script' = SubSeq(script, 1, Min({AfterCrash, Len(script)}))

Next ==
    \/ Begin
    \/ \E f \in FailAt \cup {0} : Attempt(f)
    \/ \E k \in Reads : Get(k)
    \/ FlushJournal
    \/ \E seq \in {fs.pins[i].seq : i \in Pinned} : Reclaim(seq)
    \/ Crash

Spec == Init /\ [][Next]_vars

-----------------------------------------------------------------------------
(* Properties.                                                               *)

NodeType ==
    [level : 0..MaxDepth - 1, min : Positions, max : Positions, ext : Nat, gen : Nat,
     order : 0..MaxOrder, fresh : SUBSET Positions, nw : SUBSET Positions,
     wh : SUBSET Positions, written : Nat, open : BOOLEAN, dirty : BOOLEAN,
     rewrite : BOOLEAN, jset : Nat, jmax : Nat, used : BOOLEAN]

(* The state has its types; the nodes in use have distinct extents, their    *)
(* keys are inside their range, and what is unwritten or to be whited out is *)
(* one of the keys or gone.                                                  *)
TypeOK ==
    /\ \A i \in DOMAIN fs.mem :
         LET n == fs.mem[i]
         IN  /\ [f \in DOMAIN n \ {"keys", "sib"} |-> n[f]] \in NodeType
             /\ n.used => /\ DOMAIN n.keys \subseteq n.min..n.max
                          /\ n.fresh \cup n.nw \subseteq DOMAIN n.keys
                          /\ n.wh \cap n.nw = {}
    /\ DOMAIN fs.pins = DOMAIN fs.mem
    /\ jnl.last <= jnl.cur /\ fs.ondisk < jnl.cur
    /\ mode \in {"run", "replay", "failed"}
    /\ want \in [Positions -> Nat]

InUse == {i \in DOMAIN fs.mem : fs.mem[i].used}

(* The children of an interior node in memory, by the positions they end at. *)
Children(n) == {p \in DOMAIN n.keys : n.keys[p].b # 0}

(* The tree is well formed after every attempt, failed ones included: the    *)
(* root covers every position, the pointers of a parent cover its range      *)
(* without a gap, a child in memory has its pointer's range and one parent,  *)
(* is in use, and no struct on the list for reuse is reachable               *)
(* (bch2_btree_node_check_topology, retire_node).                            *)
Topology ==
    /\ fs.mem[fs.root].used /\ RootKey(fs.mem[fs.root]) = fs.slot
    /\ \A i \in InUse : bch2_btree_node_check_topology(fs.mem[i], i = fs.root)
    /\ \A i \in InUse : fs.mem[i].level > 0 =>
         \A p \in Children(fs.mem[i]) :
           LET c == fs.mem[fs.mem[i].keys[p].b]
           IN  /\ c.used /\ c.level = fs.mem[i].level - 1
               /\ c.max = p /\ c.min = fs.mem[i].keys[p].min
               /\ c.ext = fs.mem[i].keys[p].ext /\ c.gen = fs.mem[i].keys[p].gen
    /\ \A i \in InUse \ {fs.root} :
         Cardinality({j \in InUse : /\ fs.mem[j].level > 0
                                    /\ \E p \in Children(fs.mem[j]) :
                                         fs.mem[j].keys[p].b = i}) = 1
    /\ \A i \in Range(fs.free) : ~fs.mem[i].used
    /\ \A i, j \in InUse : i # j => fs.mem[i].ext # fs.mem[j].ext

(* What a lookup finds: in memory, and below that on the device.             *)
Lookup(p) == bch2_btree_path_traverse_one(fs, p, 0)
Found(t, p) ==
    LET n == t.mem[t.path[0]]
    IN  IF t.ret # 0 THEN -1 ELSE IF p \in DOMAIN n.keys THEN n.keys[p] ELSE 0

(* Between operations a lookup finds what was acknowledged, through every    *)
(* split, merge and rewrite; after a crash it finds what the journal had     *)
(* made durable, wherever the tree and the journal together still hold it    *)
(* (bch2_trans_commit, bch2_journal_replay).                                 *)
ContentExact ==
    Idle => \A p \in Positions \ fs.exposed : Found(Lookup(p), p) = want[p]

(* No assertion of the tree fails: a key is inserted and a whiteout pushed   *)
(* where there is room, merged keys fit, no lock is given back twice.        *)
AssertsHold == fs.ok

(* The keys in memory fit the node: a parent that takes pointers never has   *)
(* more than its room (interior.rs:1015, bch2_btree_keys_u64s_remaining).    *)
NodesFit ==
    \A i \in InUse : fs.mem[i].open => bch2_btree_keys_u64s_remaining(fs.mem[i]) >= 0

(* The journal keeps what only it has: the last update of a position that    *)
(* recovery vouches for, and that its durable leaf does not hold yet, is at  *)
(* or after the first retained sequence, whatever nodes were split, merged,  *)
(* reused or written since (journal pins, bch2_btree_post_write_cleanup).    *)
JournalCovers ==
    \A i \in DOMAIN log :
        LET e == log[i]
            leaf == DurableLeaf(fs.disk, jnl.root, e.k)
            keys == IF leaf = <<0, 0>> THEN <<>>
                    ELSE ReadKeys(KeptSets(fs.disk[leaf[1]], fs.ondisk))
            there == IF e.k \in DOMAIN keys THEN keys[e.k] ELSE 0
            last == \A j \in i + 1..Len(log) : log[j].k # e.k
        IN  /\ last /\ Durable(e) /\ e.seq < jnl.last
            /\ mode = "run" /\ e.k \notin fs.exposed \cup Unvouched
            => there = e.v

(* An operation ends: an attempt that splits, grows or merges and starts     *)
(* again does so a bounded number of times, unless the leaf cannot be read   *)
(* (every doubling of the room and every level of the tree accounts for one).*)
OpCompletes == todo # <<>> /\ fs.exposed = {} => budget.tries < MaxTries

(* The machinery of an update never leaves its own terms: no assert fires    *)
(* and no node outgrows the extent it is written to.                         *)
TreeSound == TypeOK /\ AssertsHold /\ NodesFit
=============================================================================
