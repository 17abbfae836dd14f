------------------------------ MODULE KeyIter ------------------------------
(* Reading a btree through an iterator (iter.rs): the leaves, the overlay of *)
(* journal keys that replay has not applied yet (journal.rs), the updates    *)
(* the transaction has staged (update.rs), and the filter by snapshot with   *)
(* the table of snapshots it asks (snapshot.rs).                             *)
(*                                                                           *)
(* A position is an offset and a snapshot id, ordered by offset first, and   *)
(* is written as one number; the inode is left out.  A key is a position, a  *)
(* type ("set", "whiteout" or "deleted") and a value.                        *)
EXTENDS Integers, Sequences, FiniteSets, FiniteSetsExt, SequencesExt

CONSTANTS
    Offsets,     \* offsets of the keys, a set of positive integers
    Ids,         \* snapshot ids, 1 .. n; n stands for U32_MAX
    Bitmap,      \* IS_ANCESTOR_BITMAP
    Cuts,        \* where the first leaf may end; 0 for a single leaf
    MaxRecords,  \* bound on the journal keys
    MaxSnaps,    \* bound on the snapshots created
    MaxCommits,  \* bound on the journal keys and updates together
    Ranges       \* the ranges deleted, pairs of positions

ASSUME KeyIterAssumption ==
    /\ Offsets \subseteq Nat \ {0} /\ Ids = 1 .. Cardinality(Ids)
    /\ Cuts \subseteq Nat
    /\ {Bitmap, MaxRecords, MaxSnaps, MaxCommits} \subseteq Nat

VARIABLES
    snaps,     \* the snapshot keys in the btree
    table,     \* the in-memory table of snapshots
    cut,       \* the last position of the first leaf, or 0
    live,      \* the keys in the leaves, by position
    dead,      \* positions of deleted keys still in a leaf
    records,   \* the journal keys, in the order of the journal
    applied,   \* how many of them have been replayed
    overlay,   \* journal_keys: the sorted keys and the overwritten ranges
    replay,    \* replay has not finished
    staged,    \* the updates of the open transaction
    commits,   \* the journal keys and updates so far
    deleting   \* the range deletion under way

vars == <<snaps, table, cut, live, dead, records, applied, overlay, replay, staged,
          commits, deleting>>

-----------------------------------------------------------------------------
(* Positions (bkey.rs).                                                      *)

W == Cardinality(Ids) + 1
bpos(o, s)  == o * W + s
Off(p)      == p \div W
Snap(p)     == p % W
POS_MIN     == 0
SPOS_MAX    == bpos(Max(Offsets) + 1, W - 1)
bkey_lt(l, r) == Off(l) < Off(r)
bpos_with_snapshot(p, s) == bpos(Off(p), s)
bpos_successor(p)   == p + 1
bpos_predecessor(p) == p - 1
bpos_nosnap_successor(p) == bpos(Off(p) + 1, 0)
bpos_nosnap_predecessor(p) == bpos(Off(p) - 1, 0)

Positions == {bpos(o, s) : o \in Offsets, s \in Ids}
NoKey     == [p |-> -1, t |-> "none", v |-> 0]
Plain(k)  == [p |-> k.p, t |-> k.t, v |-> k.v]

-----------------------------------------------------------------------------
(* The table of snapshots (snapshot.rs).                                     *)

Empty == [parent |-> 0, depth |-> 0, skip |-> <<0, 0, 0>>, anc |-> {},
          live |-> FALSE]

__snapshot_t(t, id) == IF id \in DOMAIN t THEN t[id] ELSE Empty

bch2_snapshot_nth_parent(t, id, n) ==
    LET f[i \in 0 .. n] == IF i = 0 THEN id ELSE __snapshot_t(t, f[i - 1]).parent
    IN  f[n]

bch2_snapshot_depth(t, parent) ==
    IF parent = 0 THEN 0 ELSE t[parent].depth + 1

(* Where the random walk of the skip list may stop.                          *)
bch2_snapshot_skiplist_get(t, id) ==
    IF id = 0 THEN {0}
    ELSE IF t[id].parent = 0 THEN {id}
    ELSE {bch2_snapshot_nth_parent(t, id, n) : n \in 0 .. t[id].depth - 1}

(* The ancestors near enough for the bitmap, found by walking up the parents *)
(* that are already in the table.                                            *)
AncestorBits(t, id, parent) ==
    {p \in {bch2_snapshot_nth_parent(t, parent, n) : n \in 0 .. Cardinality(Ids)} :
       p # 0 /\ p - id - 1 < Bitmap}

bch2_mark_snapshot(t, id, k) ==
    (id :> [parent |-> k.parent, depth |-> k.depth, skip |-> k.skip,
            anc |-> AncestorBits(t, id, k.parent), live |-> TRUE]) @@ t

get_ancestor_below(t, id, ancestor) ==
    LET s == __snapshot_t(t, id)
    IN  IF id \notin DOMAIN t THEN 0
        ELSE IF s.skip[3] <= ancestor THEN s.skip[3]
        ELSE IF s.skip[2] <= ancestor THEN s.skip[2]
        ELSE IF s.skip[1] <= ancestor THEN s.skip[1]
        ELSE s.parent

RECURSIVE Climb(_, _, _)
Climb(t, id, ancestor) ==
    IF id # 0 /\ id < ancestor - Bitmap
    THEN Climb(t, get_ancestor_below(t, id, ancestor), ancestor)
    ELSE id

bch2_snapshot_is_ancestor(t, id, ancestor) ==
    \/ id = ancestor
    \/ LET i == IF ancestor >= Bitmap THEN Climb(t, id, ancestor) ELSE id
       IN  IF i # 0 /\ i < ancestor
           THEN ancestor \in __snapshot_t(t, i).anc
           ELSE i = ancestor

(* bch2_snapshots_read: the table is rebuilt from the keys, the highest id   *)
(* first, so that a parent is there before its children.                     *)
bch2_snapshots_read(keys) ==
    LET f[i \in 0 .. Cardinality(Ids)] ==
          IF i = 0 THEN <<>>
          ELSE LET id == Cardinality(Ids) + 1 - i
               IN  IF id \in DOMAIN keys
                   THEN bch2_mark_snapshot(f[i - 1], id, keys[id]) ELSE f[i - 1]
    IN  f[Cardinality(Ids)]

-----------------------------------------------------------------------------
(* The overlay of journal keys (journal.rs).  The indices of the code start  *)
(* at 0: entry i is data[i + 1], range r is ranges[r + 1], and range 0 means *)
(* none.                                                                     *)

KeysSort(data) ==
    LET d == SortSeq(data, LAMBDA l, r : l.p < r.p)
        starts == {i \in DOMAIN d : d[i].over /\ (i = 1 \/ ~d[i - 1].over)}
        End(i) == Min({j \in i .. Len(d) : j = Len(d) \/ ~d[j + 1].over})
        Num(i) == Cardinality({j \in starts : j <= i})
        range == [n \in 1 .. Cardinality(starts) |->
                    LET i == CHOOSE j \in starts : Num(j) = n
                    IN  [s |-> i - 1, e |-> End(i)]]
    IN  [data |-> <<>> \o [i \in DOMAIN d |->
                     [d[i] EXCEPT !.range = IF d[i].over THEN Num(i) ELSE 0]],
         ranges |-> IF starts = {} THEN <<>> ELSE <<[s |-> 0, e |-> 0]>> \o range]

bch2_journal_keys_clear == [data |-> <<>>, ranges |-> <<>>]

(* A newer key for a position takes the place of the older one.              *)
bch2_journal_key_insert(o, k) ==
    KeysSort(Append(SelectSeq(o.data, LAMBDA d : d.p # k.p),
                    [p |-> k.p, t |-> k.t, v |-> k.v, over |-> FALSE, range |-> 0]))

Ranged(o, i) == LET r == o.data[i + 1].range IN r # 0 /\ r < Len(o.ranges)

RECURSIVE bch2_journal_keys_peek_max(_, _, _, _)
bch2_journal_keys_peek_max(o, pos, end, idx) ==
    IF idx >= Len(o.data) THEN [k |-> NoKey, idx |-> idx]
    ELSE IF o.data[idx + 1].p \notin pos .. end
    THEN bch2_journal_keys_peek_max(o, pos, end, idx + 1)
    ELSE IF ~o.data[idx + 1].over THEN [k |-> Plain(o.data[idx + 1]), idx |-> idx]
    ELSE bch2_journal_keys_peek_max(o, pos, end,
           IF Ranged(o, idx) THEN o.ranges[o.data[idx + 1].range + 1].e ELSE idx + 1)

bch2_journal_keys_peek_slot(o, pos) == bch2_journal_keys_peek_max(o, pos, pos, 0).k

RECURSIVE PrevFrom(_, _, _, _)
PrevFrom(o, pos, end, cursor) ==
    IF cursor = 0 THEN [k |-> NoKey, idx |-> 0]
    ELSE IF o.data[cursor].p \notin end .. pos THEN PrevFrom(o, pos, end, cursor - 1)
    ELSE IF ~o.data[cursor].over
    THEN [k |-> Plain(o.data[cursor]), idx |-> cursor - 1]
    ELSE PrevFrom(o, pos, end,
           IF Ranged(o, cursor - 1) THEN o.ranges[o.data[cursor].range + 1].s
           ELSE cursor - 1)

bch2_journal_keys_peek_prev_min(o, pos, end, idx) ==
    PrevFrom(o, pos, end,
             IF idx = 0 THEN Len(o.data) ELSE Min({idx + 1, Len(o.data)}))

(* Mutant: a new range ends one entry too far.                               *)
OverwrittenPastEnd(o, idx) ==
    LET first == IF o.ranges = <<>> THEN <<[s |-> 0, e |-> 0]>> ELSE o.ranges
    IN  [data |-> [o.data EXCEPT ![idx + 1].over = TRUE, ![idx + 1].range = Len(first)],
         ranges |-> Append(first, [s |-> idx, e |-> idx + 2])]

(* __bch2_journal_key_overwritten: the key joins the range on its left, the  *)
(* one on its right, both, or starts one.                                    *)
__bch2_journal_key_overwritten(o, idx) ==
    LET d == [o.data EXCEPT ![idx + 1].over = TRUE]
        Num(i) == IF i \in DOMAIN d /\ d[i].over /\ d[i].range < Len(o.ranges)
                  THEN d[i].range ELSE 0
        prev == Num(idx)
        next == Num(idx + 2)
        end  == IF next # 0 THEN o.ranges[next + 1].e ELSE idx + 1
        first == IF o.ranges = <<>> THEN <<[s |-> 0, e |-> 0]>> ELSE o.ranges
    IN  CASE prev # 0 /\ next # 0 ->
               [data |-> <<>> \o [i \in DOMAIN d |->
                  IF i = idx + 1 \/ i - 1 \in o.ranges[next + 1].s .. end - 1
                  THEN [d[i] EXCEPT !.range = prev] ELSE d[i]],
                ranges |-> [o.ranges EXCEPT ![prev + 1].e = end]]
          [] prev # 0 /\ next = 0 ->
               [data |-> [d EXCEPT ![idx + 1].range = prev],
                ranges |-> [o.ranges EXCEPT ![prev + 1].e = Max({@, idx + 1})]]
          [] prev = 0 /\ next # 0 ->
               [data |-> [d EXCEPT ![idx + 1].range = next],
                ranges |-> [o.ranges EXCEPT ![next + 1].s = Min({@, idx})]]
          [] OTHER ->
               [data |-> [d EXCEPT ![idx + 1].range = Len(first)],
                ranges |-> Append(first, [s |-> idx, e |-> idx + 1])]

bch2_journal_key_check_or_overwrite(o, pos) ==
    LET at == {i \in DOMAIN o.data : o.data[i].p = pos /\ ~o.data[i].over}
    IN  IF at = {} THEN o
        ELSE __bch2_journal_key_overwritten(o, (CHOOSE i \in at : TRUE) - 1)

-----------------------------------------------------------------------------
(* What an iterator sees (iter.rs).  An iterator is its position, its        *)
(* snapshot, its last key, its place in the overlay and whether it is one    *)
(* over all snapshots.                                                       *)

Leaves == {SPOS_MAX} \cup (IF cut = 0 THEN {} ELSE {cut})
LeafMax(p) == Min({m \in Leaves : m >= p})
LeafMin(p) == Max({POS_MIN} \cup {m + 1 : m \in {l \in Leaves : l < p}})

Deleted(p) == [p |-> p, t |-> "deleted", v |-> 0]

(* The node iterator: a deleted key that is still in the leaf is stepped over *)
(* where the search starts, and comes before the live key of its position    *)
(* elsewhere.                                                                *)
bch2_btree_node_iter_peek_all(p) ==
    LET at == {q \in DOMAIN live : q \in p .. LeafMax(p)}
              \cup {q \in dead : q \in p + 1 .. LeafMax(p)}
    IN  IF at = {} THEN NoKey
        ELSE IF Min(at) \in dead /\ Min(at) # p THEN Deleted(Min(at))
        ELSE live[Min(at)]

bch2_btree_node_iter_prev(p) ==
    LET at == {q \in DOMAIN live : q \in LeafMin(p) .. p - 1}
    IN  IF at = {} THEN NoKey ELSE live[Max(at)]

bch2_trans_iter_init_common(p, all) ==
    [pos |-> p, snapshot |-> Snap(p), k |-> Deleted(p), journal_idx |-> 0, all |-> all]

btree_iter_set_pos(it, p) ==
    LET q == IF it.all THEN p ELSE bpos_with_snapshot(p, it.snapshot)
    IN  [it EXCEPT !.pos = q, !.k = Deleted(q)]

Found(it, k) == [k |-> k, it |-> [it EXCEPT !.pos = k.p, !.k = k]]
None(it)     == [k |-> NoKey, it |-> it]

(* The first staged update from the iterator's position to end, if it is not *)
(* after the key found so far; staged deletions are passed over.             *)
bch2_btree_trans_peek_updates(it, k, end) ==
    LET at == {p \in DOMAIN staged : /\ staged[p].t # "deleted"
                                     /\ p \in it.pos .. end
                                     /\ k = NoKey \/ p <= k.p}
    IN  IF at = {} THEN k ELSE staged[Min(at)]

(* The last staged update up to search, if it is not before the key found.   *)
bch2_btree_trans_peek_prev_updates(search, k) ==
    LET at == {p \in DOMAIN staged :
                 p \in (IF k = NoKey THEN LeafMin(search) ELSE k.p) .. search}
    IN  IF at = {} THEN k ELSE staged[Max(at)]

Journal(pos, end, idx) ==
    IF replay THEN bch2_journal_keys_peek_max(overlay, pos, end, idx)
    ELSE [k |-> NoKey, idx |-> idx]

RECURSIVE PeekFrom(_, _, _)
RECURSIVE PeekPastLeaf(_, _, _, _)
RECURSIVE PeekInLeaf(_, _, _, _, _)

(* Mutant: the next leaf is searched from the next offset.                   *)
PeekPastLeafNosnap(it, end, search, j) ==
    LET at == [it EXCEPT !.journal_idx = j.idx]
        u  == bch2_btree_trans_peek_updates(at, NoKey, Min({LeafMax(search), end}))
    IN  IF j.k.t = "deleted"
        THEN IF j.k.p = SPOS_MAX THEN None(at) ELSE PeekFrom(at, end, j.k.p + 1)
        ELSE IF j.k # NoKey THEN Found(at, j.k)
        ELSE IF u # NoKey THEN Found(at, u)
        ELSE IF LeafMax(search) > end \/ LeafMax(search) >= SPOS_MAX
        THEN None(btree_iter_set_pos(at, SPOS_MAX))
        ELSE PeekFrom(at, end, bpos_nosnap_successor(LeafMax(search)) + 1)

(* No key is left in the leaf: the overlay, the staged updates, and then the *)
(* next leaf.                                                                *)
PeekPastLeaf(it, end, search, j) ==
    LET at == [it EXCEPT !.journal_idx = j.idx]
        u  == bch2_btree_trans_peek_updates(at, NoKey, Min({LeafMax(search), end}))
    IN  IF j.k.t = "deleted"
        THEN IF j.k.p = SPOS_MAX THEN None(at)
             ELSE PeekFrom(at, end, bpos_successor(j.k.p))
        ELSE IF j.k # NoKey THEN Found(at, j.k)
        ELSE IF u # NoKey THEN Found(at, u)
        ELSE IF LeafMax(search) > end \/ LeafMax(search) >= SPOS_MAX
        THEN None(btree_iter_set_pos(at, SPOS_MAX))
        ELSE PeekFrom(at, end, bpos_successor(LeafMax(search)))

(* A key of the leaf, against the overlay and the staged updates.            *)
PeekInLeaf(it, end, search, k, j) ==
    LET at == [it EXCEPT !.journal_idx = j.idx,
                         !.pos = IF it.all THEN k.p
                                 ELSE bpos_with_snapshot(k.p, it.snapshot)]
        r  == bch2_btree_trans_peek_updates(at, k, end)
    IN  IF j.k # NoKey /\ j.k.p <= k.p
        THEN IF j.k.t # "deleted" THEN Found(at, j.k)
             ELSE IF j.k.p = SPOS_MAX THEN None(at)
             ELSE PeekFrom(at, end, bpos_successor(j.k.p))
        ELSE IF r.t = "deleted"
        THEN LET next == IF search = r.p THEN bpos_successor(r.p) ELSE r.p
             IN  IF next = SPOS_MAX THEN None(at) ELSE PeekFrom(at, end, next)
        ELSE IF r.p > end THEN None(btree_iter_set_pos(at, end))
        ELSE Found(at, r)

PeekFrom(it, end, search) ==
    LET k == bch2_btree_node_iter_peek_all(search)
    IN  IF k = NoKey
        THEN PeekPastLeaf(it, end, search,
               Journal(search, Min({LeafMax(search), end}), it.journal_idx))
        ELSE IF (IF it.all THEN k.p > end ELSE bkey_lt(end, k.p))
        THEN None(btree_iter_set_pos(it, end))
        ELSE PeekInLeaf(it, end, search, k, Journal(search, end, it.journal_idx))

Whiteout(k) == k.t \in {"deleted", "whiteout"}

(* The filter by snapshot: keys of descendants and of other branches are     *)
(* skipped, and a whiteout hides what the ancestors have at its offset.      *)
RECURSIVE PeekFilter(_, _, _)
PeekFilter(it, end, keep) ==
    LET r == PeekFrom(it, end, it.pos)
        Again(p) == PeekFilter([r.it EXCEPT !.pos = p], end, keep)
    IN  IF r.k = NoKey THEN r
        ELSE IF bkey_lt(end, r.k.p) THEN None(btree_iter_set_pos(r.it, end))
        ELSE IF Snap(r.k.p) < it.snapshot
        THEN Again(bpos_with_snapshot(r.k.p, it.snapshot))
        ELSE IF ~bch2_snapshot_is_ancestor(table, it.snapshot, Snap(r.k.p))
        THEN Again(bpos_successor(r.k.p))
        ELSE IF ~keep /\ Whiteout(r.k)
        THEN Again(IF it.all THEN bpos_successor(r.k.p)
                   ELSE bpos_with_snapshot(bpos_nosnap_successor(r.k.p), it.snapshot))
        ELSE r

bch2_btree_iter_peek_max(it, end, filter) ==
    IF filter THEN PeekFilter(it, end, FALSE) ELSE PeekFrom(it, end, it.pos)

bch2_btree_iter_advance(it) ==
    btree_iter_set_pos(it, IF it.all THEN bpos_successor(it.k.p)
                           ELSE bpos_nosnap_successor(it.k.p))

bch2_btree_iter_rewind(it) == btree_iter_set_pos(it, bpos_predecessor(it.k.p))

(* bch2_btree_iter_peek_slot without the filter: the staged update, the      *)
(* overlay, the leaf; an empty slot is a deleted key.                        *)
bch2_btree_iter_peek_slot(p) ==
    LET j == IF replay THEN bch2_journal_keys_peek_slot(overlay, p) ELSE NoKey
    IN  IF p \in DOMAIN staged THEN staged[p]
        ELSE IF j # NoKey THEN (IF j.t = "deleted" THEN NoKey ELSE j)
        ELSE IF p \in DOMAIN live THEN live[p]
        ELSE Deleted(p)

RECURSIVE PrevBefore(_, _)
RECURSIVE PrevResult(_, _, _, _)

(* What the leaf, the overlay and the staged updates give before the search  *)
(* position; a deletion moves the search on, an empty leaf to the one before. *)
PrevResult(it, search, inleaf, k) ==
    IF k = NoKey
    THEN IF LeafMin(search) = POS_MIN THEN None(it)
         ELSE PrevBefore(btree_iter_set_pos(it, LeafMin(search) - 1),
                         LeafMin(search) - 1)
    ELSE IF k.p = POS_MIN /\ (~inleaf \/ k.t = "deleted") THEN None(it)
    ELSE IF k.t = "deleted"
    THEN PrevBefore(btree_iter_set_pos(it, bpos_predecessor(k.p)),
                    bpos_predecessor(k.p))
    ELSE [k |-> k,
          it |-> [it EXCEPT !.k = k,
                    !.pos = IF it.all THEN k.p
                            ELSE bpos_with_snapshot(k.p, it.snapshot)]]

PrevMerged(it, search, k, j) ==
    PrevResult([it EXCEPT !.journal_idx = j.idx], search, k # NoKey,
      bch2_btree_trans_peek_prev_updates(search,
        IF j.k # NoKey /\ (k = NoKey \/ j.k.p >= k.p) THEN j.k ELSE k))

PrevBefore(it, search) ==
    LET c == bch2_btree_node_iter_peek_all(search)
    IN  PrevMerged(it, search,
          IF c = NoKey \/ c.p > search THEN bch2_btree_node_iter_prev(search) ELSE c,
          IF replay
          THEN bch2_journal_keys_peek_prev_min(overlay, it.pos, POS_MIN, it.journal_idx)
          ELSE [k |-> NoKey, idx |-> it.journal_idx])

(* bch2_btree_iter_peek_prev without the filter.                             *)
bch2_btree_iter_peek_prev(it) == PrevBefore(it, it.pos)

(* A loop over the keys with one iterator, as bch2_btree_iter_next and       *)
(* bch2_btree_iter_prev make it.                                             *)
RECURSIVE bch2_btree_iter_next(_, _)
bch2_btree_iter_next(it, filter) ==
    LET r == bch2_btree_iter_peek_max(it, SPOS_MAX, filter)
    IN  IF r.k = NoKey THEN <<>>
        ELSE <<r.k>> \o bch2_btree_iter_next(bch2_btree_iter_advance(r.it), filter)

RECURSIVE bch2_btree_iter_prev(_)
bch2_btree_iter_prev(it) ==
    LET r == bch2_btree_iter_peek_prev(it)
    IN  IF r.k = NoKey THEN <<>>
        ELSE <<r.k>> \o bch2_btree_iter_prev(bch2_btree_iter_rewind(r.it))

-----------------------------------------------------------------------------
(* The steps.                                                                *)

Idle == [on |-> FALSE, it |-> bch2_trans_iter_init_common(0, TRUE), start |-> 0,
         end |-> 0, before |-> <<>>]

Init ==
    /\ snaps = <<>> /\ table = <<>> /\ cut \in Cuts
    /\ \E S \in SUBSET Positions :
         /\ Cardinality(S) <= 1
         /\ live = [p \in S |-> [p |-> p, t |-> "set", v |-> 0]]
    /\ dead = {} /\ records = <<>> /\ applied = 0
    /\ overlay = bch2_journal_keys_clear
    /\ replay = TRUE /\ staged = <<>> /\ commits = 0 /\ deleting = Idle

(* A key of the leaf is set, or removed; the old one stays behind, deleted.  *)
Put(f, k) ==
    IF k.t = "deleted" THEN [p \in DOMAIN f \ {k.p} |-> f[p]]
    ELSE [p \in DOMAIN f \cup {k.p} |-> IF p = k.p THEN k ELSE f[p]]

Keys(n) == {[p |-> p, t |-> t, v |-> IF t = "set" THEN n ELSE 0] :
              p \in Positions, t \in {"set", "whiteout", "deleted"}}

(* Recovery reads a key of the journal into the overlay.                     *)
InsertKey(k) ==
    /\ replay /\ applied = 0
    /\ Len(records) < MaxRecords
    /\ records' = Append(records, k)
    /\ commits' = commits + 1
    /\ overlay' = bch2_journal_key_insert(overlay, k)
    /\ UNCHANGED <<cut, snaps, table, live, dead, applied, replay, staged,
                   deleting>>

(* Mutant: the first key replayed drops the whole overlay.                   *)
ReplayClears ==
    /\ replay /\ applied < Len(records)
    /\ LET k == records[applied + 1]
       IN  /\ live' = Put(live, k)
           /\ dead' = dead \cup ({k.p} \cap DOMAIN live)
           /\ overlay' = bch2_journal_keys_clear
    /\ applied' = applied + 1
    /\ UNCHANGED <<cut, snaps, table, records, replay, staged, commits,
                   deleting>>

(* The next key is committed to its leaf, and its entry in the overlay is    *)
(* marked overwritten.                                                       *)
bch2_journal_replay_key ==
    /\ replay /\ applied < Len(records)
    /\ LET k == records[applied + 1]
       IN  /\ live' = Put(live, k)
           /\ dead' = dead \cup ({k.p} \cap DOMAIN live)
           /\ overlay' = bch2_journal_key_check_or_overwrite(overlay, k.p)
    /\ applied' = applied + 1
    /\ UNCHANGED <<cut, snaps, table, records, replay, staged, commits,
                   deleting>>

FinishReplay ==
    /\ replay /\ applied = Len(records)
    /\ replay' = FALSE
    /\ overlay' = bch2_journal_keys_clear
    /\ table' = bch2_snapshots_read(snaps)
    /\ records' = <<>> /\ applied' = 0
    /\ UNCHANGED <<cut, snaps, live, dead, staged, commits, deleting>>

(* A snapshot node is created below parent, with the highest free id; its    *)
(* commit marks it in the table.                                             *)
CreateSnapshot(parent, skip) ==
    LET id == Cardinality(Ids) - Cardinality(DOMAIN snaps)
        k  == [parent |-> parent, depth |-> bch2_snapshot_depth(table, parent),
               skip |-> SortSeq(skip, <)]
    IN  /\ ~replay /\ ~deleting.on /\ staged = <<>>
        /\ Cardinality(DOMAIN snaps) < MaxSnaps
        /\ \A i \in 1 .. 3 : skip[i] \in bch2_snapshot_skiplist_get(table, parent)
        /\ snaps' = (id :> k) @@ snaps
        /\ table' = bch2_mark_snapshot(table, id, k)
        /\ UNCHANGED <<cut, live, dead, records, applied, overlay, replay,
                       staged, commits, deleting>>

(* An update is staged; one for the same position takes its place.           *)
btree_trans_update_by_path(k) ==
    /\ ~replay /\ ~deleting.on
    /\ commits + Cardinality(DOMAIN staged \cup {k.p}) <= MaxCommits
    /\ table = <<>> \/ Snap(k.p) \in DOMAIN table
    /\ staged' = (k.p :> k) @@ staged
    /\ UNCHANGED <<cut, snaps, table, live, dead, records, applied, overlay,
                   replay, commits, deleting>>

bch2_trans_commit ==
    /\ staged # <<>>
    /\ live' = [p \in (DOMAIN live \cup DOMAIN staged)
                        \ {p \in DOMAIN staged : staged[p].t = "deleted"} |->
                 IF p \in DOMAIN staged THEN staged[p] ELSE live[p]]
    /\ dead' = dead \cup (DOMAIN staged \cap DOMAIN live)
    /\ commits' = commits + Cardinality(DOMAIN staged)
    /\ staged' = <<>>
    /\ UNCHANGED <<cut, snaps, table, records, applied, overlay, replay,
                   deleting>>

bch2_trans_reset_updates ==
    /\ staged # <<>>
    /\ staged' = <<>>
    /\ UNCHANGED <<cut, snaps, table, live, dead, records, applied, overlay,
                   replay, commits, deleting>>

(* A compaction of the leaves drops their deleted keys.                      *)
Compact ==
    /\ dead # {}
    /\ dead' = {}
    /\ UNCHANGED <<cut, snaps, table, live, records, applied, overlay, replay,
                   staged, commits, deleting>>

BeginDeleteRange(start, end) ==
    /\ ~replay /\ ~deleting.on /\ staged = <<>>
    /\ deleting' = [on |-> TRUE, it |-> bch2_trans_iter_init_common(start, TRUE),
                    start |-> start, end |-> end, before |-> live]
    /\ UNCHANGED <<cut, snaps, table, live, dead, records, applied, overlay,
                   replay, staged, commits>>

(* Mutant: the iterator is advanced after the commit, from a fresh start.    *)
DeleteRangeSkips ==
    /\ deleting.on
    /\ \E r \in {PeekFrom(deleting.it, deleting.end, deleting.it.pos)} :
         IF r.k = NoKey
         THEN deleting' = Idle /\ UNCHANGED <<live, dead>>
         ELSE /\ live' = Put(live, Deleted(r.it.pos))
              /\ dead' = dead \cup {r.it.pos}
              /\ deleting' = [deleting EXCEPT !.it =
                    [r.it EXCEPT !.pos = bpos_nosnap_successor(@)]]
    /\ UNCHANGED <<cut, snaps, table, records, applied, overlay, replay,
                   staged, commits>>

(* One turn of bch2_btree_delete_range_trans: the next key of the range is   *)
(* found with the same iterator and deleted in a commit of its own.          *)
delete_range_one ==
    /\ deleting.on
    /\ \E r \in {PeekFrom(deleting.it, deleting.end, deleting.it.pos)} :
         IF r.k = NoKey
         THEN deleting' = Idle /\ UNCHANGED <<live, dead>>
         ELSE /\ live' = Put(live, Deleted(r.it.pos))
              /\ dead' = dead \cup {r.it.pos}
              /\ deleting' = [deleting EXCEPT !.it = r.it]
    /\ UNCHANGED <<cut, snaps, table, records, applied, overlay, replay,
                   staged, commits>>

Next ==
    \/ \E k \in Keys(Len(records) + 1) : InsertKey(k)
    \/ bch2_journal_replay_key
    \/ FinishReplay
    \/ \E parent \in DOMAIN snaps \cup {0} :
         \E skip \in [1 .. 3 -> bch2_snapshot_skiplist_get(table, parent)] :
           CreateSnapshot(parent, skip)
    \/ \E k \in Keys(1) : btree_trans_update_by_path(k)
    \/ bch2_trans_commit
    \/ bch2_trans_reset_updates
    \/ Compact
    \/ \E r \in Ranges : BeginDeleteRange(r[1], r[2])
    \/ delete_range_one

Spec == Init /\ [][Next]_vars

-----------------------------------------------------------------------------
(* What the answers are measured against.                                    *)

Ancestors(id) ==
    {bch2_snapshot_nth_parent(snaps, id, n) : n \in 0 .. Cardinality(Ids)} \ {0}

(* The keys of the overlay that are still to be applied, over the leaves.    *)
Pending == {d \in ToSet(overlay.data) : ~d.over}
Merged ==
    LET gone == {d.p : d \in {e \in Pending : e.t = "deleted"}}
        set  == {d \in Pending : d.t # "deleted"}
    IN  [p \in (DOMAIN live \cup {d.p : d \in set}) \ gone |->
           IF \E d \in set : d.p = p
           THEN Plain(CHOOSE d \in set : d.p = p) ELSE live[p]]

WithStaged ==
    LET f == Merged
    IN  [p \in (DOMAIN f \cup DOMAIN staged)
               \ {q \in DOMAIN staged : staged[q].t = "deleted"} |->
           IF p \in DOMAIN staged THEN staged[p] ELSE f[p]]

Visible(f, s) ==
    LET At(o) == {p \in DOMAIN f : Off(p) = o /\ Snap(p) \in Ancestors(s)}
        own   == {Min(At(o)) : o \in {x \in Offsets : At(x) # {}}}
    IN  [p \in {q \in own : f[q].t = "set"} |-> f[p]]

Lists(seq, f) ==
    /\ \A i \in 1 .. Len(seq) - 1 : seq[i].p < seq[i + 1].p
    /\ ToSet(seq) = {f[p] : p \in DOMAIN f}

(* One iterator may cross into another leaf only when no overlay is in use.  *)
OneLeaf == ~replay \/ cut = 0

-----------------------------------------------------------------------------
(* The properties.                                                           *)

KeyType == [p : Positions, t : {"set", "whiteout", "deleted"}, v : 0 .. MaxRecords + 1]

(* Positions, keys and indices are what the code's types allow: the leaves   *)
(* never hold a deleted key as a live one, and an overwritten entry of the   *)
(* overlay is always in a range.                                             *)
TypeOK ==
    /\ DOMAIN table = DOMAIN snaps /\ DOMAIN snaps \subseteq Ids
    /\ \A p \in DOMAIN live :
         live[p] \in KeyType /\ live[p].p = p /\ live[p].t # "deleted"
    /\ dead \subseteq Positions
    /\ \A p \in DOMAIN staged : staged[p] \in KeyType /\ staged[p].p = p
    /\ applied \in 0 .. Len(records)
    /\ \A d \in ToSet(overlay.data) : d.over => d.range \in 1 .. Len(overlay.ranges) - 1

(* The bitmap of near ancestors and the skip list together answer exactly as *)
(* a walk up the parents does, for the table kept up by commits and for the  *)
(* one that bch2_snapshots_read rebuilds.                                    *)
AncestorExact ==
    \A t \in {table, bch2_snapshots_read(snaps)} :
      \A id \in DOMAIN snaps, a \in Ids :
        bch2_snapshot_is_ancestor(t, id, a) <=> a \in Ancestors(id)

(* In whatever order replay overwrites them, the ranges let both directions  *)
(* of the overlay pass over overwritten keys and only over those.            *)
OverlayExact ==
    \A p, q \in Positions :
      LET in == {d \in Pending : d.p \in p .. q}
          up == bch2_journal_keys_peek_max(overlay, p, q, 0).k
          dn == bch2_journal_keys_peek_prev_min(overlay, q, p, 0).k
      IN  p <= q =>
            /\ up.p = (IF in = {} THEN -1 ELSE Min({d.p : d \in in}))
            /\ dn.p = (IF in = {} THEN -1 ELSE Max({d.p : d \in in}))

(* A loop with bch2_btree_iter_next gives every key once and in order, the   *)
(* deleted keys left in the leaves, the leaf boundaries and the overlay      *)
(* notwithstanding; with the filter it gives exactly what the snapshot sees: *)
(* at each offset the key of the nearest ancestor, unless it is a whiteout.  *)
ScanExact ==
    staged = <<>> /\ OneLeaf =>
      /\ Lists(bch2_btree_iter_next(bch2_trans_iter_init_common(POS_MIN, TRUE), FALSE),
               Merged)
      /\ \A s \in DOMAIN table :
           Lists(bch2_btree_iter_next(
                   bch2_trans_iter_init_common(bpos(0, s), FALSE), TRUE),
                 Visible(Merged, s))

(* A loop with bch2_btree_iter_prev over all snapshots gives every key once, *)
(* in descending order, the staged updates included.                         *)
PrevExact ==
    OneLeaf =>
      Lists(Reverse(bch2_btree_iter_prev(
              bch2_trans_iter_init_common(bpos_with_snapshot(SPOS_MAX, 0), TRUE))),
            WithStaged)

(* A slot holds the staged update, or the key that replay still owes it, or  *)
(* the key of the leaf.                                                      *)
SlotExact ==
    \A p \in Positions :
      LET k == bch2_btree_iter_peek_slot(p)
      IN  IF p \in DOMAIN WithStaged THEN k = WithStaged[p]
          ELSE k \in {NoKey, Deleted(p)}

(* When every key has been replayed, each position in the journal holds its  *)
(* last record and nothing of the overlay is left to read.                   *)
ReplayExact ==
    replay /\ applied = Len(records) =>
      /\ Pending = {}
      /\ \A i \in DOMAIN records :
           (\A j \in i + 1 .. Len(records) : records[j].p # records[i].p) =>
             IF records[i].t = "deleted" THEN records[i].p \notin DOMAIN live
             ELSE records[i].p \in DOMAIN live /\ live[records[i].p] = records[i]

(* Replay is invisible to readers: a step of it changes no slot that the     *)
(* journal has one record for.                                               *)
ReplayStable ==
    [][replay /\ applied' > applied =>
         \A p \in Positions :
           Cardinality({i \in DOMAIN records : records[i].p = p}) <= 1 =>
             (p \in DOMAIN Merged <=> p \in DOMAIN Merged')
             /\ (p \in DOMAIN Merged => Merged[p] = Merged'[p])]_vars

(* A range deletion removes the keys of the range one at a time, and when it *)
(* stops the range is empty and every other key is as it was.                *)
RangeDeleted ==
    [][deleting.on =>
         LET in == {p \in DOMAIN live : p \in deleting.start .. deleting.end}
         IN  IF deleting'.on
             THEN \/ live' = live
                  \/ in # {} /\ live' = [p \in DOMAIN live \ {Min(in)} |-> live[p]]
             ELSE live' = [p \in DOMAIN deleting.before
                                  \ (deleting.start .. deleting.end) |->
                             deleting.before[p]]]_vars

(* Each way of asking gives the reference answer: the next key, the previous *)
(* key and the slot at a position.                                           *)
CursorExact == ScanExact /\ PrevExact /\ SlotExact

(* The tables the lookups rest on: the ancestor bitmap against the parent    *)
(* walk, the overlay of journal keys against the records not yet replayed,   *)
(* and the tree against all of them once replay is through.                  *)
OverlaySound == TypeOK /\ AncestorExact /\ OverlayExact /\ ReplayExact
=============================================================================
