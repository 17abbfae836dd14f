----------------------------- MODULE BtreeNode -----------------------------
(* One leaf of a btree: the sets of keys it holds in memory (bset_build.rs,  *)
(* bset_update.rs, bset_search.rs), the iterators of the transaction that    *)
(* updates it (node_iter.rs), the commit that inserts into it (update.rs),   *)
(* and its image on the device, which every write extends by one set and     *)
(* every read merges (io.rs).                                                *)
(*                                                                           *)
(* A key is a position, a value (0: deleted, a whiteout) and the bit         *)
(* needs_whiteout, which says that the device may hold an older version.     *)
(* Sizes are counted in keys: a key, a whiteout and the header of a set take *)
(* one unit each.                                                            *)
EXTENDS Integers, Sequences, FiniteSets, FiniteSetsExt, SequencesExt

CONSTANTS
    Positions,   \* positions of the keys, a set of positive integers
    NodeBlocks,  \* blocks of the node
    Block,       \* units of a block
    MaxBsets,    \* MAX_BSETS
    BigSet,      \* size above which an unwritten set is closed (4096 bytes)
    RoomLeft,    \* room that must be left for another set (512 u64s)
    MidSize,     \* size of the second set above which a full node is written
    LazyDead,    \* dead keys above which a set is worth compacting
    MaxUpdates,  \* bound on the updates
    MaxFails     \* bound on the failing node writes

ASSUME BtreeNodeAssumption ==
    /\ Positions \subseteq Nat \ {0}
    /\ {NodeBlocks, Block, MaxBsets} \subseteq Nat \ {0}
    /\ {BigSet, RoomLeft, MidSize, LazyDead} \subseteq Nat
    /\ {MaxUpdates, MaxFails} \subseteq Nat

VARIABLES
    node,     \* the node in memory
    paths,    \* the paths an open transaction keeps over its commits
    disk,     \* the sets on the device, oldest first
    jnl,      \* the journal: open sequence, newest on disk, first retained
    pin,      \* the sequence the node pins, 0 if none
    log,      \* the journalled updates, in order
    ok,       \* no assertion has failed
    tainted,  \* history: positions a failed write has damaged
    fails     \* the failed writes

vars == <<node, paths, disk, jnl, pin, log, ok, tainted, fails>>

NodeSize == NodeBlocks * Block
live(k)  == k.v # 0

-----------------------------------------------------------------------------
(* The layout of the node (interior.rs, types.rs).                           *)

EndOf(s)   == s.at + 1 + Len(s.keys)
LastOf(n)  == n.sets[Len(n.sets)]

bset_written(n, s) == s.at < n.written * Block

(* Mutant: the unwritten whiteouts are not counted.                          *)
RemainingNoWhiteouts(n, end) == NodeSize - (end + 1)

__bch2_btree_u64s_remaining(n, end) == NodeSize - (end + Len(n.whiteouts) + 1)

bch2_btree_keys_u64s_remaining(n) ==
    IF bset_written(n, LastOf(n)) THEN 0
    ELSE __bch2_btree_u64s_remaining(n, EndOf(LastOf(n)))

bch2_btree_node_insert_fits(n, u64s) == u64s <= bch2_btree_keys_u64s_remaining(n)

NewSetAt(n) == Max({n.written * Block, EndOf(LastOf(n))})

want_new_bset(n) ==
    IF bset_written(n, LastOf(n)) THEN n.written + 1 <= NodeBlocks
    ELSE /\ Len(LastOf(n).keys) > BigSet
         /\ __bch2_btree_u64s_remaining(n, NewSetAt(n) + 1) > RoomLeft

(* A new set takes over the largest journal_seq of the node.                 *)
bch2_bset_init_next(n) ==
    [n EXCEPT !.sets = Append(@, [at |-> NewSetAt(n), keys |-> <<>>, nr |-> 0,
                                  seq |-> Max({s.seq : s \in ToSet(@)})])]

StartSet(n) == IF want_new_bset(n) THEN bch2_bset_init_next(n) ELSE n

-----------------------------------------------------------------------------
(* Merging and compacting sets (bset_build.rs).                              *)

ByPos(ks) == SortSeq(ks, LAMBDA a, b : a.p < b.p)

AllKeys(ss) == FlattenSeq([i \in DOMAIN ss |-> ss[i].keys])

(* A merge of sets by position that leaves the deleted keys out.             *)
bch2_sort_keys(ss) == ByPos(SelectSeq(AllKeys(ss), live))

(* The sets a..b become one, at the place of the first.                      *)
bch2_btree_node_sort(n, a, b) ==
    LET in == SubSeq(n.sets, a, b)
        nr[i \in 0 .. Len(in)] == IF i = 0 THEN 0 ELSE nr[i - 1] + in[i].nr
    IN  [n EXCEPT !.sets =
           SubSeq(@, 1, a - 1)
           \o <<[at |-> in[1].at, keys |-> bch2_sort_keys(in),
                 nr |-> nr[Len(in)], seq |-> Max({s.seq : s \in ToSet(in)})]>>
           \o SubSeq(@, b + 1, Len(@))]

(* The unwritten sets become one and the written sets become one.            *)
bch2_btree_node_compact(n) ==
    LET w  == Cardinality({i \in DOMAIN n.sets : bset_written(n, n.sets[i])})
        n1 == IF Len(n.sets) - w > 1
              THEN bch2_btree_node_sort(n, w + 1, Len(n.sets)) ELSE n
    IN  IF w > 1 THEN bch2_btree_node_sort(n1, 1, w) ELSE n1

should_compact_all(n) == Len(n.sets[2].keys) > MidSize

bset_dead(s) == Len(s.keys) - s.nr

should_compact_bset_lazy(s) ==
    bset_dead(s) > LazyDead /\ bset_dead(s) * 3 > Len(s.keys)

(* Deleted keys leave the sets worth it, and unwritten sets move down to the *)
(* end of the set before them.  `moved' says whether anything changed place, *)
(* `clean' that no deleted key still asked for a whiteout.                   *)
bch2_drop_whiteouts(n, all) ==
    LET step[i \in 0 .. Len(n.sets)] ==
          IF i = 0 THEN [sets |-> <<>>, moved |-> FALSE, clean |-> TRUE]
          ELSE LET prev == step[i - 1]
                   s  == n.sets[i]
                   w  == bset_written(n, s)
                   at == IF i # 1 /\ ~w
                         THEN Max({n.written * Block,
                                   EndOf(prev.sets[i - 1])})
                         ELSE s.at
                   mv == prev.moved \/ at # s.at
                   go == /\ bset_dead(s) # 0
                         /\ all \/ should_compact_bset_lazy(s) \/ (mv /\ ~w)
               IN  [sets  |-> Append(prev.sets,
                                [s EXCEPT !.at = at,
                                          !.keys = IF go THEN SelectSeq(@, live)
                                                   ELSE @]),
                    moved |-> mv \/ go,
                    clean |-> prev.clean /\
                        (go => \A k \in ToSet(s.keys) : live(k) \/ ~k.nw)]
    IN  step[Len(n.sets)]

bch2_set_bset_needs_whiteout(s, v) ==
    [s EXCEPT !.keys = ByPos([i \in DOMAIN @ |-> [@[i] EXCEPT !.nw = v]])]

-----------------------------------------------------------------------------
(* Node iterators (node_iter.rs, bset_search.rs).  An iterator is a sequence *)
(* of cursors [s, k], key k of set s, in the order of the keys; a set whose  *)
(* keys are all passed has none.                                             *)

KeyAt(ss, c) == ss[c.s].keys[c.k]

(* By position, a deleted key before a live one, then by address.            *)
bkey_iter_cmp_lt(ss, a, b) ==
    LET x == KeyAt(ss, a)
        y == KeyAt(ss, b)
    IN  \/ x.p < y.p
        \/ x.p = y.p /\ ~live(x) /\ live(y)
        \/ x.p = y.p /\ live(x) = live(y) /\ a.s < b.s

bch2_btree_node_iter_sort(ss, it) ==
    SortSeq(it, LAMBDA a, b : bkey_iter_cmp_lt(ss, a, b))

(* A deleted key at the position looked for counts as before it.             *)
bkey_iter_pos_ge(k, pos) == k.p > pos \/ (k.p = pos /\ live(k))

(* The first key of a set that is not before pos.                            *)
bch2_bset_search(ks, pos) ==
    Min({i \in DOMAIN ks : bkey_iter_pos_ge(ks[i], pos)} \cup {Len(ks) + 1})

bch2_btree_node_iter_init(ss, pos) ==
    LET at(i) == bch2_bset_search(ss[i].keys, pos)
        cs    == [i \in DOMAIN ss |-> [s |-> i, k |-> at(i)]]
    IN  bch2_btree_node_iter_sort(ss,
          SelectSeq(cs, LAMBDA c : c.k <= Len(ss[c.s].keys)))

bch2_btree_node_iter_advance(ss, it) ==
    LET c == [it[1] EXCEPT !.k = @ + 1]
    IN  IF c.k > Len(ss[c.s].keys) THEN Tail(it)
        ELSE bch2_btree_node_iter_sort(ss, <<c>> \o Tail(it))

(* The next key that is not deleted.                                         *)
bch2_btree_node_iter_peek(ss, it) ==
    LET total == Len(AllKeys(ss))
        at[i \in 0 .. total] ==
            IF i = 0 THEN it
            ELSE LET p == at[i - 1]
                 IN  IF p = <<>> \/ live(KeyAt(ss, p[1])) THEN p
                     ELSE bch2_btree_node_iter_advance(ss, p)
    IN  at[total]

(* Where the iterator stands in set s.                                       *)
bch2_btree_node_iter_bset_pos(ss, it, s) ==
    LET mine == SelectSeq(it, LAMBDA c : c.s = s)
    IN  IF mine = <<>> THEN Len(ss[s].keys) + 1 ELSE mine[1].k

(* A key was deleted in place.  Only a path whose lock sequence is current   *)
(* is put right.                                                             *)
bch2_btree_path_fix_key_modified(ss, pa, where) ==
    IF pa.age # 0 THEN pa
    ELSE IF pa.it # <<>> /\ pa.it[1] = where
            /\ ~bkey_iter_pos_ge(KeyAt(ss, where), pa.pos)
         THEN [pa EXCEPT !.it = bch2_btree_node_iter_advance(ss, @)]
         ELSE [pa EXCEPT !.it = bch2_btree_node_iter_sort(ss, @)]

(* Mutant: a path that stands behind the insert is not moved.                *)
IterFixNoShift(ss, pa, where, clobber, new) == pa

(* Key `where' was inserted (new = 1) or removed (clobber = 1).              *)
bch2_btree_node_iter_fix(ss, pa, where, clobber, new) ==
    LET s    == where.s
        past == new = 1 /\ bkey_iter_pos_ge(KeyAt(ss, where), pa.pos)
        moved(c) == IF c.s # s \/ c.k < where.k THEN c
                    ELSE [c EXCEPT !.k = IF past THEN where.k
                                         ELSE IF @ < where.k + clobber
                                              THEN where.k + new
                                              ELSE @ + new - clobber]
        kept == SelectSeq([i \in DOMAIN pa.it |-> moved(pa.it[i])],
                          LAMBDA c : c.k <= Len(ss[c.s].keys))
    IN  IF \E c \in ToSet(pa.it) : c.s = s
        THEN IF \E c \in ToSet(pa.it) : c.s = s /\ c.k >= where.k
             THEN [pa EXCEPT !.it = bch2_btree_node_iter_sort(ss, kept)]
             ELSE pa
        ELSE IF past
             THEN [pa EXCEPT !.it = bch2_btree_node_iter_sort(ss,
                                      Append(@, where))]
             ELSE pa

-----------------------------------------------------------------------------
(* Writing the node (io.rs).                                                 *)

(* All sets become one, or the only one loses its deleted keys.              *)
OneSet(n) ==
    IF Len(n.sets) > 1 THEN bch2_btree_node_sort(n, 1, Len(n.sets))
    ELSE [n EXCEPT !.sets = bch2_drop_whiteouts(n, TRUE).sets]

(* Mutant: the keys of a merged set are not marked as written.               *)
CleanupNoMark(n) == StartSet(OneSet([n EXCEPT !.just_written = FALSE]))

(* After a write all sets become one, every key of which the device has.     *)
bch2_btree_post_write_cleanup(n) ==
    StartSet([OneSet(n) EXCEPT
                !.just_written = FALSE,
                !.sets = <<bch2_set_bset_needs_whiteout(@[1], TRUE)>>])

(* Whether the cleanup moves keys, so that iterators have to start anew.     *)
CleanupMoves(n) == Len(n.sets) > 1 \/ bch2_drop_whiteouts(n, TRUE).moved

CleanupAsserts(n, m) ==
    /\ n.whiteouts = <<>>
    /\ Len(n.sets) > 1 \/ bch2_drop_whiteouts(n, TRUE).clean
    /\ EndOf(m.sets[1]) <= n.written * Block
    /\ Len(m.sets) <= MaxBsets

Unwritten(n) == SelectSeq(n.sets, LAMBDA s : ~bset_written(n, s))

(* The keys of the unwritten sets and the unwritten whiteouts, merged: a     *)
(* live key hides the whiteout of its position, and a deleted key that is    *)
(* not in the area of the whiteouts is left out.                             *)
bch2_sort_keys_keep_unwritten_whiteouts(n) ==
    LET keys == SelectSeq(AllKeys(Unwritten(n)), live)
        bare == SelectSeq(n.whiteouts,
                          LAMBDA p : \A k \in ToSet(keys) : k.p # p)
    IN  ByPos([i \in DOMAIN keys |-> [p |-> keys[i].p, v |-> keys[i].v]]
              \o [i \in DOMAIN bare |-> [p |-> bare[i], v |-> 0]])

WriteSeq(n) == Max({0} \cup {s.seq : s \in ToSet(Unwritten(n))})

Blocks(ks) == (Len(ks) + Block) \div Block     \* the header and the keys

DiskSet(ks, seq) == [keys |-> ks, seq |-> seq, blocks |-> Blocks(ks)]

(* The room test of __bch2_btree_node_write, on the keys it has merged.      *)
WriteFits(n, ks) ==
    n.written < NodeBlocks /\ n.written + Blocks(ks) <= NodeBlocks

(* The node after a write of the keys ks: refused, empty, failed, or on the  *)
(* device.  The whiteouts are gone from memory before the write can fail.    *)
__bch2_btree_node_write(n, ks, failing) ==
    LET out(done, blocks, bset) ==
          [node |-> [n EXCEPT !.whiteouts = <<>>, !.written = @ + blocks,
                              !.dirty = ~done, !.just_written = done],
           done |-> done, bset |-> bset, ok |-> WriteSeq(n) # 0]
    IN  CASE n.written >= NodeBlocks ->
               [node |-> n, done |-> FALSE, bset |-> <<>>, ok |-> TRUE]
          [] n.written < NodeBlocks /\ ks = <<>> -> out(TRUE, 0, <<>>)
          [] ks # <<>> /\ WriteFits(n, ks) /\ ~failing ->
               out(TRUE, Blocks(ks), <<DiskSet(ks, WriteSeq(n))>>)
          [] OTHER -> out(FALSE, 0, <<>>)

AfterCleanup(o, m) ==
    [o EXCEPT !.node = m, !.ok = @ /\ CleanupAsserts(o.node, m)]

WriteDone(o, cleanup) ==
    IF o.done /\ cleanup
    THEN AfterCleanup(o, bch2_btree_post_write_cleanup(o.node)) ELSE o

(* A dirty node is written.  `cleanup' says whether the caller gets the      *)
(* write lock.                                                               *)
bch2_btree_node_write_trans(n, failing, cleanup) ==
    WriteDone(__bch2_btree_node_write(n,
                bch2_sort_keys_keep_unwritten_whiteouts(n), failing), cleanup)

(* bch2_btree_node_read: sets the journal does not reach are skipped, of     *)
(* several keys at one position the one of the newest set stays, and goes    *)
(* too if it is deleted.                                                     *)
ReadKeys(d, replaySeq) ==
    LET in == SelectSeq(d, LAMBDA s : replaySeq = 0 \/ s.seq <= replaySeq)
        newest(p) == Max({i \in DOMAIN in :
                            \E k \in ToSet(in[i].keys) : k.p = p})
        keys == FlattenSeq([i \in DOMAIN in |->
                  SelectSeq(in[i].keys, LAMBDA k : k.v # 0 /\ newest(k.p) = i)])
    IN  ByPos(keys)

(* The node as it is read: one set, which the device has.                    *)
bch2_btree_node_read(d, replaySeq) ==
    LET ks == ReadKeys(d, replaySeq)
        blocks[i \in 0 .. Len(d)] ==
            IF i = 0 THEN 0 ELSE blocks[i - 1] + d[i].blocks
    IN  [sets |-> <<[at |-> 0, nr |-> Len(ks),
                     seq |-> Max({0} \cup {s.seq : s \in
                               {t \in ToSet(d) : replaySeq = 0
                                                 \/ t.seq <= replaySeq}}),
                     keys |-> ByPos([i \in DOMAIN ks |->
                                [p |-> ks[i].p, v |-> ks[i].v, nw |-> TRUE]])]>>,
         whiteouts |-> <<>>, written |-> blocks[Len(d)],
         dirty |-> FALSE, just_written |-> FALSE]

-----------------------------------------------------------------------------
(* A commit (update.rs).  `st' is the node, the paths of the transaction on  *)
(* it, and whether its assertions held; `bset' is what a write on the way    *)
(* puts on the device.                                                       *)

(* A path: its position, its iterator in the node, and how many commits have *)
(* released the node since its lock sequence was taken (0, 1 or more).       *)
Traverse(n, pos) == [pos |-> pos, age |-> 0,
                     it |-> bch2_btree_node_iter_init(n.sets, pos)]

bch2_trans_node_reinit_iter(n, ps) ==
    [i \in DOMAIN ps |-> Traverse(n, ps[i].pos)]

Moved(st, n, moved) ==
    [st EXCEPT !.node = n,
               !.paths = IF moved THEN bch2_trans_node_reinit_iter(n, @) ELSE @]

(* A node with no room for another set is written, or else compacted.        *)
InitNextWrite(st, failing) ==
    IF Len(st.node.sets) = MaxBsets /\ should_compact_all(st.node)
       /\ st.node.dirty
    THEN bch2_btree_node_write_trans(st.node, failing, TRUE)
    ELSE [node |-> st.node, done |-> FALSE, bset |-> <<>>, ok |-> TRUE]

InitNextCompact(st, o, m) ==
    [st EXCEPT !.node = StartSet(m), !.bset = o.bset, !.wrote = o.done,
               !.ok = @ /\ o.ok /\ Len(m.sets) < MaxBsets,
               !.paths = IF Len(st.node.sets) = MaxBsets
                         THEN bch2_trans_node_reinit_iter(StartSet(m), @)
                         ELSE @]

InitNextDone(st, o) ==
    InitNextCompact(st, o, IF Len(o.node.sets) = MaxBsets
                           THEN bch2_btree_node_compact(o.node) ELSE o.node)

bch2_btree_init_next(st, failing) ==
    [InitNextDone(st, InitNextWrite(st, failing)) EXCEPT
       !.tried = /\ Len(st.node.sets) = MaxBsets
                 /\ should_compact_all(st.node) /\ st.node.dirty]

PrepCleanup(st, m) ==
    [Moved(st, m, CleanupMoves(st.node)) EXCEPT
       !.ok = @ /\ CleanupAsserts(st.node, m)]

PrepNext(st, failing) ==
    IF want_new_bset(st.node) THEN bch2_btree_init_next(st, failing) ELSE st

bch2_btree_node_prep_for_write(st, failing) ==
    PrepNext(IF st.node.just_written
             THEN PrepCleanup(st, bch2_btree_post_write_cleanup(st.node))
             ELSE st, failing)

(* Mutant: a key of an older set is not deleted when it is replaced.         *)
OverwriteKeepsOld(n, c, del) ==
    LET k == KeyAt(n.sets, c)
    IN  IF del \/ c.s = Len(n.sets)
        THEN [n EXCEPT !.sets[c.s].nr = @ - 1,
                       !.sets[c.s].keys[c.k] = [k EXCEPT !.v = 0, !.nw = FALSE],
                       !.whiteouts = IF k.nw /\ del THEN <<k.p>> \o @ ELSE @]
        ELSE [n EXCEPT !.sets[c.s].keys[c.k].nw = FALSE]

(* What a commit does with the key it finds at the position it updates: the  *)
(* key is deleted in place, and the obligation to tell the device passes to  *)
(* the new key, or to a whiteout.                                            *)
Overwrite(n, c, del) ==
    LET k == KeyAt(n.sets, c)
    IN  [n EXCEPT !.sets[c.s].nr = @ - 1,
                  !.sets[c.s].keys[c.k] = [k EXCEPT !.v = 0, !.nw = FALSE],
                  !.whiteouts = IF k.nw /\ del THEN <<k.p>> \o @ ELSE @]

FixAll(ss, ps, where, clobber, new) ==
    [j \in DOMAIN ps |->
       bch2_btree_node_iter_fix(ss, ps[j], where, clobber, new)]

(* The key of u goes to place `at' of the last set, over the key there if it *)
(* is the one overwritten (own).                                             *)
InsertAtPlace(st, u, nw, own, at) ==
    LET last == Len(st.node.sets)
        k    == [p |-> u.p, v |-> u.v, nw |-> nw]
        keys == IF u.v = 0 THEN IF own THEN RemoveAt(st.node.sets[last].keys, at)
                                ELSE st.node.sets[last].keys
                ELSE IF own THEN [st.node.sets[last].keys EXCEPT ![at] = k]
                     ELSE InsertAt(st.node.sets[last].keys, at, k)
        ss   == [st.node.sets EXCEPT ![last] =
                   [@ EXCEPT !.keys = keys,
                             !.nr = IF u.v = 0 THEN @ ELSE @ + 1]]
    IN  [st EXCEPT !.node.sets = ss,
                   !.paths = IF (u.v = 0) = own
                             THEN FixAll(ss, @, [s |-> last, k |-> at],
                                         IF own THEN 1 ELSE 0,
                                         IF own THEN 0 ELSE 1)
                             ELSE @]

(* Update u through path i, which found the key at cursor c, or none: that   *)
(* key is deleted, and the paths that stand on it move on, unless it is in   *)
(* the last set, where the new key takes its place.                          *)
InsertOver(st, i, u, c) ==
    LET n1   == Overwrite(st.node, c, u.v = 0)
        last == Len(n1.sets)
        ps   == IF c.s = last THEN st.paths
                ELSE [j \in DOMAIN st.paths |->
                        bch2_btree_path_fix_key_modified(n1.sets,
                                                         st.paths[j], c)]
    IN  InsertAtPlace([st EXCEPT !.node = n1, !.paths = ps], u,
          KeyAt(st.node.sets, c).nw /\ u.v # 0, c.s = last,
          IF c.s = last THEN c.k
          ELSE bch2_btree_node_iter_bset_pos(n1.sets, ps[i].it, last))

bch2_btree_bset_insert_key_inlined(st, i, u) ==
    LET n    == st.node
        it   == st.paths[i].it
        hit  == it # <<>> /\ KeyAt(n.sets, it[1]).p = u.p
        room == bch2_btree_keys_u64s_remaining(n) >= 1
    IN  CASE ~hit /\ u.v = 0 -> st
          [] ~hit /\ u.v # 0 ->
               [InsertAtPlace(st, u, FALSE, FALSE,
                  bch2_btree_node_iter_bset_pos(n.sets, it, Len(n.sets)))
                  EXCEPT !.ok = @ /\ room]
          [] hit ->
               [InsertOver(st, i, u, it[1]) EXCEPT
                  !.ok = /\ @ /\ live(KeyAt(n.sets, it[1]))
                         /\ room \/ (u.v = 0 /\ ~KeyAt(n.sets, it[1]).nw)]

(* Whether the last set grew by more than the node gained live keys.         *)
GrewDead(n, m) ==
    LET nrs(b) == LET f[j \in 0 .. Len(b.sets)] ==
                        IF j = 0 THEN 0 ELSE f[j - 1] + b.sets[j].nr
                  IN  f[Len(b.sets)]
    IN  Len(LastOf(m).keys) - Len(LastOf(n).keys) > nrs(m) - nrs(n)

MaybeCompact(st, grew) ==
    IF grew /\ \E s \in ToSet(st.node.sets) : should_compact_bset_lazy(s)
    THEN LET d == bch2_drop_whiteouts(st.node, FALSE)
         IN  [Moved(st, [st.node EXCEPT !.sets = d.sets], d.moved)
                EXCEPT !.ok = @ /\ d.clean]
    ELSE st

LeafInserted(old, st, seq) ==
    IF st = old THEN st
    ELSE MaybeCompact([st EXCEPT !.node.sets[Len(st.node.sets)].seq =
                                   Max({@, seq}),
                                 !.node.dirty = TRUE],
                      GrewDead(old.node, st.node))

(* The set keeps the newest journal_seq, the node becomes dirty, and a set   *)
(* with many dead keys is compacted.                                         *)
bch2_btree_insert_key_leaf(st, i, u, seq) ==
    LeafInserted(st, bch2_btree_bset_insert_key_inlined(st, i, u), seq)

(* The pass of bch2_trans_commit over its updates before it takes the write  *)
(* lock: a deletion that does not fit compacts the node first, and if the    *)
(* updates so far do not fit and there is no room for another set either,    *)
(* the commit splits the leaf instead.                                       *)
PrecheckKey(q, n, u) ==
    LET acc == q.acc + (IF u.v = 0 /\ (\E k \in ToSet(AllKeys(n.sets)) :
                                         k.p = u.p /\ live(k))
                        THEN 0 ELSE 1)
    IN  [q EXCEPT !.node = n, !.acc = acc,
                  !.fits = @ /\ (bch2_btree_node_insert_fits(n, acc)
                                 \/ want_new_bset(n))]

PrecheckCompact(q, u, d) ==
    PrecheckKey([q EXCEPT !.moved = @ \/ d.moved, !.clean = @ /\ d.clean],
                [q.node EXCEPT !.sets = d.sets], u)

Precheck(n, us) ==
    LET pre[i \in 0 .. Len(us)] ==
          IF i = 0
          THEN [node |-> n, moved |-> FALSE, clean |-> TRUE, acc |-> 0,
                fits |-> TRUE]
          ELSE PrecheckCompact(pre[i - 1], us[i],
                 IF us[i].v = 0
                    /\ ~bch2_btree_node_insert_fits(pre[i - 1].node, 1)
                 THEN bch2_drop_whiteouts(pre[i - 1].node, TRUE)
                 ELSE [sets |-> pre[i - 1].node.sets, moved |-> FALSE,
                       clean |-> TRUE])
    IN  pre[Len(us)]

(* The updates us under one write lock, in order of position, through paths  *)
(* traversed for them; the other paths of the transaction follow.            *)
PathsFor(n, us, kept, moved) ==
    [i \in DOMAIN us |-> Traverse(n, us[i].p)]
    \o (IF moved THEN bch2_trans_node_reinit_iter(n, kept) ELSE kept)

CommitBegin(pre, us, kept) ==
    [node |-> pre.node, bset |-> <<>>, tried |-> FALSE, wrote |-> FALSE,
     ok |-> pre.clean, split |-> ~pre.fits,
     paths |-> PathsFor(pre.node, us, kept, pre.moved)]

CommitInserts(st0, us, seq) ==
    LET st[i \in 0 .. Len(us)] ==
          IF i = 0 THEN st0
          ELSE IF ~st[i - 1].split
                  /\ \/ bch2_btree_node_insert_fits(st[i - 1].node, 1)
                     \/ want_new_bset(st[i - 1].node)
               THEN bch2_btree_insert_key_leaf(st[i - 1], i, us[i], seq)
               ELSE [st[i - 1] EXCEPT !.split = TRUE]
    IN  st[Len(us)]

CommitPrep(st, failing) ==
    IF st.split THEN st ELSE bch2_btree_node_prep_for_write(st, failing)

(* The write lock is released: the lock sequence of the paths grows old.     *)
CommitEnd(st) ==
    [st EXCEPT !.paths = [i \in DOMAIN @ |->
                            [@[i] EXCEPT !.age = Min({2, @ + 1})]]]

Committed(n, kept, us, seq, failing) ==
    CommitEnd(CommitInserts(
      CommitPrep(CommitBegin(Precheck(n, us), us, kept), failing), us, seq))

-----------------------------------------------------------------------------
(* The actions.                                                              *)

(* The content of the node after the journalled updates with a sequence in   *)
(* lo..hi, from the content m.                                               *)
Overlay(m, lo, hi) ==
    LET es == SelectSeq(log, LAMBDA e : e.seq >= lo /\ e.seq <= hi)
        f[i \in 0 .. Len(es)] ==
            IF i = 0 THEN m ELSE [f[i - 1] EXCEPT ![es[i].p] = es[i].v]
    IN  f[Len(es)]

Content(ks) == [p \in Positions |->
    IF \E k \in ToSet(ks) : k.p = p /\ k.v # 0
    THEN (CHOOSE k \in ToSet(ks) : k.p = p /\ k.v # 0).v ELSE 0]

(* The node starts with a key at every position but the last, of value 1.    *)
InitContent == [p \in Positions |-> IF p = Max(Positions) THEN 0 ELSE 1]

InitKeys(first) ==
    ByPos(SetToSeq({[p |-> q, v |-> IF q = Min(Positions) THEN first ELSE 1] :
                      q \in Positions \ {Max(Positions)}}))

(* The content after every journalled update up to hi.                       *)
Truth(hi) == Overlay(InitContent, 0, hi)

(* A put at p stores another value than the last one that was stored there.  *)
NewValue(p) ==
    LET puts == SelectSeq(log, LAMBDA e : e.p = p /\ e.v # 0)
        last == IF puts # <<>> THEN puts[Len(puts)].v
                ELSE InitContent[p]
    IN  IF last = 1 THEN 2 ELSE 1

(* Transactions of one or two updates that change something, in the order of *)
(* their positions.                                                          *)
Updates ==
    LET one == {[p |-> q, v |-> NewValue(q)] : q \in Positions}
               \cup {[p |-> q, v |-> 0] :
                       q \in {q \in Positions : Truth(jnl.seq)[q] # 0}}
    IN  {<<u>> : u \in one}
        \cup {us \in {<<u, w>> : u, w \in one} : us[1].p < us[2].p}

OpenPaths ==
    IF paths # <<>> THEN paths
    ELSE SortSeq(SetToSeq({Traverse(node, p) : p \in Positions}),
                 LAMBDA a, b : a.pos < b.pos)

(* bch2_trans_commit on updates of this leaf: journal, then insert.          *)
Commit(us, failing) ==
    /\ Len(log) + Len(us) <= MaxUpdates
    /\ \E r \in {Committed(node, OpenPaths, us, jnl.seq, failing)} :
         /\ ~r.split
         /\ failing => r.tried /\ fails < MaxFails
         /\ node' = r.node
         /\ paths' = SubSeq(r.paths, Len(us) + 1, Len(r.paths))
         /\ disk' = disk \o r.bset
         /\ ok' = (ok /\ r.ok)
         /\ log' = log \o [i \in DOMAIN us |->
                             [seq |-> jnl.seq, p |-> us[i].p, v |-> us[i].v]]
         /\ pin' = IF r.wrote \/ pin = 0 THEN jnl.seq ELSE pin
         /\ fails' = IF failing THEN fails + 1 ELSE fails
         /\ tainted' = tainted \cup (IF r.tried /\ ~r.wrote
                                     THEN ToSet(node.whiteouts) ELSE {})
         /\ UNCHANGED jnl

(* bch2_btree_node_write_trans, from the journal's reclaim, an eviction or a *)
(* split.  With the write lock the sets are merged at once, and a path of    *)
(* another transaction has to be traversed again.                            *)
WriteNode(failing, cleanup) ==
    /\ node.dirty
    /\ failing => fails < MaxFails
    /\ fails' = IF failing THEN fails + 1 ELSE fails
    /\ \E r \in {bch2_btree_node_write_trans(node, failing, cleanup)} :
         /\ node' = r.node
         /\ disk' = disk \o r.bset
         /\ ok' = (ok /\ r.ok)
         /\ pin' = IF r.done THEN 0 ELSE pin
         /\ paths' = IF cleanup /\ r.done THEN <<>> ELSE paths
         /\ tainted' = tainted \cup
              (IF r.done THEN {} ELSE ToSet(node.whiteouts))
    /\ UNCHANGED <<jnl, log>>

(* The transaction ends and its paths with it.                               *)
PutPaths ==
    /\ paths # <<>>
    /\ paths' = <<>>
    /\ UNCHANGED <<node, disk, jnl, pin, log, ok, tainted, fails>>

(* The open journal entry reaches the device; it says which entries replay   *)
(* still needs.                                                              *)
FlushJournal ==
    /\ \E e \in ToSet(log) : e.seq = jnl.seq
    /\ jnl' = [seq |-> jnl.seq + 1, ondisk |-> jnl.seq,
               first |-> IF pin = 0 THEN jnl.seq ELSE pin]
    /\ UNCHANGED <<node, paths, disk, pin, log, ok, tainted, fails>>

(* The leaf as a split wrote it, or after one more write of it whose sets    *)
(* have been merged: what a read of its image gives.                         *)
Init ==
    /\ \/ disk = <<DiskSet(InitKeys(1), 1)>>
       \/ disk = <<DiskSet(InitKeys(2), 1),
                   DiskSet(<<[p |-> Min(Positions), v |-> 1]>>, 1)>>
    /\ node = bch2_btree_node_read(disk, 1)
    /\ paths = <<>>
    /\ jnl = [seq |-> 2, ondisk |-> 1, first |-> 1]
    /\ pin = 0 /\ log = <<>> /\ ok = TRUE /\ tainted = {}
    /\ fails = 0

Next ==
    \/ \E us \in Updates, failing \in BOOLEAN : Commit(us, failing)
    \/ \E failing, cleanup \in BOOLEAN : WriteNode(failing, cleanup)
    \/ PutPaths \/ FlushJournal

Spec == Init /\ [][Next]_vars

-----------------------------------------------------------------------------
(* Properties.                                                               *)

(* Type correctness: at most MAX_BSETS sets, each sorted and in its own part *)
(* of the buffer, below the unwritten whiteouts, with an exact count of its  *)
(* live keys (__bch2_verify_btree_nr_keys).                                  *)
TypeOK ==
    /\ Len(node.sets) \in 1 .. MaxBsets
    /\ node.written \in 1 .. NodeBlocks
    /\ \A i \in DOMAIN node.sets :
         LET s == node.sets[i]
         IN  /\ \A j \in 1 .. Len(s.keys) - 1 : s.keys[j].p < s.keys[j + 1].p
             /\ s.nr = Len(SelectSeq(s.keys, live))
             /\ i > 1 => EndOf(node.sets[i - 1]) <= s.at
    /\ __bch2_btree_u64s_remaining(node, EndOf(LastOf(node))) >= 0
    /\ ToSet(node.whiteouts) \cup tainted \subseteq Positions
    /\ pin \in 0 .. jnl.seq

(* Lookups are exact: a node iterator started at any position, over whatever *)
(* sets the commits, writes and compactions have left, finds exactly the key *)
(* the last committed update put there.                                      *)
LookupExact ==
    \A p \in Positions \ tainted :
      LET it == bch2_btree_node_iter_peek(node.sets,
                  bch2_btree_node_iter_init(node.sets, p))
          found == IF it = <<>> THEN 0
                   ELSE IF KeyAt(node.sets, it[1]).p = p
                        THEN KeyAt(node.sets, it[1]).v ELSE 0
      IN  found = Truth(jnl.seq)[p]

(* The assertions of the insert, of the whiteouts, of the compactions and of *)
(* the cleanup never fail: a set always has room for what the commit was     *)
(* allowed to insert, and no deleted key still needs a whiteout.             *)
AssertsHold == ok

(* A path that the transaction keeps over a commit stands where a new search *)
(* for its position would, although the commit inserted, removed and merged  *)
(* keys under it; after another commit, when its lock sequence is old, it    *)
(* still finds the right next key.                                           *)
PathFollows ==
    \A i \in DOMAIN paths :
      LET fresh == bch2_btree_node_iter_init(node.sets, paths[i].pos)
      IN  /\ paths[i].age <= 1 => paths[i].it = fresh
          /\ bch2_btree_node_iter_peek(node.sets, paths[i].it)
               = bch2_btree_node_iter_peek(node.sets, fresh)

(* A dirty node can always be written where it is: what the unwritten sets   *)
(* and the whiteouts merge to fits in the blocks that are left.              *)
DirtyFits ==
    node.dirty => WriteFits(node, bch2_sort_keys_keep_unwritten_whiteouts(node))

(* Whenever the machine stops, the sets on the device that the journal       *)
(* reaches, and the journal entries it retains, give every update that was   *)
(* journalled durably, and nothing of a later one.                           *)
Recoverable ==
    \A p \in Positions \ tainted :
      Overlay(Content(ReadKeys(disk, jnl.ondisk)), jnl.first, jnl.ondisk)[p]
        = Truth(jnl.ondisk)[p]

(* A clean node can be dropped from the cache: reading it again gives the    *)
(* same keys, once the journal has reached what was written.                 *)
ReloadExact ==
    ~node.dirty /\ (\A s \in ToSet(disk) : s.seq <= jnl.ondisk) =>
      \A p \in Positions \ tainted :
        Content(ReadKeys(disk, jnl.ondisk))[p] = Truth(jnl.seq)[p]

(* The node is sound at every step: no assert of bset.rs or io.rs fires and  *)
(* what is dirty fits the extent.                                            *)
NodeSound == TypeOK /\ AssertsHold /\ DirtyFits

(* Whatever was written when the machine stopped, a reload and the replay    *)
(* give the committed content, and a reload without a crash the same keys.   *)
ReadBack == Recoverable /\ ReloadExact
=============================================================================
