------------------------------ MODULE Journal ------------------------------
(* The write-ahead journal of a persistent engine (journal.rs), the btree    *)
(* nodes it protects (io.rs) and the checkpoint that reclaims it (engine.rs),*)
(* with a crash possible between any two writes.                             *)
(*                                                                           *)
(* The engine serialises every operation below under the mutex of bch_fs, so *)
(* one job runs at a time; a job takes several steps because each of its     *)
(* writes reaches the device on its own.  A write lands in the page cache    *)
(* (`pend'); only file.sync_data() makes what is pending durable (`disk').   *)
(*                                                                           *)
(* A transaction is an identifier and the set of leaf nodes it updates.  The *)
(* content of a node is the identifier of the last transaction applied to it.*)
EXTENDS Integers, Sequences, FiniteSets, FiniteSetsExt, SequencesExt

CONSTANTS
    Node,        \* leaf nodes of the btree, all written before the run starts
    NrBuckets,   \* buckets of the journal ring (JOURNAL_BUCKETS)
    BucketSize,  \* capacity of a bucket
    HeaderSize,  \* size of the header of a record (JSET_HEADER_U64S)
    RootSize,    \* size of the btree roots appended to every record
    TxnSize,     \* size of the reservation of a transaction
    MaxCrash,    \* bound on the crashes
    Reorder,     \* TRUE when a crash may persist any subset of the page cache
    Scenarios    \* the bounds and faults a behaviour may be about

(* txns, seq: bounds on the transactions committed and on the sequence       *)
(* number; faults, leafFaults: on the failing writes and syncs of records    *)
(* and on the failing writes of leaves; bootstrap: the leaves that have no   *)
(* place on the device, roots that Engine::new makes and no split has        *)
(* replaced yet; checkpoints: the engine may checkpoint (reclaim_journal);   *)
(* torn: a crash may tear the last record it persists.                       *)
Scenario == [txns : Nat, seq : Nat, faults : Nat, leafFaults : Nat,
             bootstrap : SUBSET Node, checkpoints : BOOLEAN, torn : BOOLEAN]

ASSUME JournalAssumption ==
    /\ IsFiniteSet(Node) /\ Node # {} /\ Scenarios \subseteq Scenario
    /\ {NrBuckets, BucketSize, HeaderSize, TxnSize} \subseteq Nat \ {0}
    /\ {RootSize, MaxCrash} \subseteq Nat /\ Reorder \in BOOLEAN
    /\ NrBuckets > 1
    /\ HeaderSize + RootSize + TxnSize <= BucketSize

VARIABLES
    jnl,      \* the in-memory journal
    cache,    \* the in-memory nodes
    job,      \* what the thread that holds the fs mutex is doing
    ret,      \* result of the last operation that ended
    disk,     \* what is durable: journal buckets and node images
    pend,     \* writes in the page cache, in the order they were issued
    txns,     \* history: the transactions the engine should show
    nextId,   \* history: identifier of the next transaction
    acked,    \* history: transactions whose journal flush returned 0
    crashes, faults, leafFaults,
    scene     \* the scenario this behaviour is about

counts == <<crashes, faults, leafFaults, scene>>

vars == <<jnl, cache, job, ret, disk, pend, txns, nextId, acked,
          counts>>

MaxTxn == scene.txns
MaxSeq == scene.seq
MaxFault == scene.faults
MaxLeafFault == scene.leafFaults
Bootstrap == scene.bootstrap
Checkpoints == scene.checkpoints
Torn == scene.torn

Bucket == 0 .. NrBuckets - 1

-----------------------------------------------------------------------------
(* Space in the ring of buckets.                                             *)

(* bch2_journal_dev_buckets_available: free buckets before index `from', one *)
(* of them kept back while the on-disk dirty index has caught up.            *)
BucketsAvailable(d, from) ==
    LET free == (from + NrBuckets - d.cur - 1) % NrBuckets
    IN  IF free # 0 /\ d.dirtyOndisk = d.dirty THEN free - 1 ELSE free

(* The loops of bch2_journal_space_available that move a dirty index up to   *)
(* `stop' or to the first bucket that still holds a sequence >= bound.       *)
AdvanceIdx(d, from, stop, bound) ==
    LET steps == {k \in 0 .. NrBuckets :
                    \/ (from + k) % NrBuckets = stop
                    \/ d.seq[(from + k) % NrBuckets] >= bound}
    IN  (from + Min(steps)) % NrBuckets

SpaceFrom(d, from) ==
    LET n == BucketsAvailable(d, from)
    IN  IF d.free < BucketSize /\ n # 0
        THEN [next |-> BucketSize, total |-> BucketSize + (n - 1) * BucketSize]
        ELSE [next |-> d.free, total |-> d.free + n * BucketSize]

(* bch2_journal_space_available and bch2_journal_set_watermark.              *)
SpaceAvailable(j) ==
    LET dirty == AdvanceIdx(j.dev, j.dev.dirty, j.dev.cur, j.last)
        d1    == [j.dev EXCEPT !.dirty = dirty]
        d2    == [d1 EXCEPT !.dirtyOndisk =
                    AdvanceIdx(d1, d1.dirtyOndisk, dirty, j.lastOndisk)]
        clean == SpaceFrom(d2, d2.dirty).total
        med   == clean * 4 <= NrBuckets * BucketSize * 3
    IN  [j EXCEPT !.dev     = d2,
                  !.sectors = SpaceFrom(d2, d2.discard).next,
                  !.low     = clean * 4 <= NrBuckets * BucketSize,
                  !.med     = med,
                  !.kicked  = @ \/ med]

(* Mutant: discarding waits for something else.                              *)
DoDiscardsNever(j) == j

DoDiscards(j) == [j EXCEPT !.dev.discard = j.dev.dirtyOndisk]

(* journal_entry_u64s_for_sectors, stored only when there is room.           *)
SetCurEntry(j) ==
    IF j.sectors = 0 THEN j
    ELSE [j EXCEPT !.curEntry = IF j.sectors > HeaderSize
                                THEN j.sectors - HeaderSize ELSE 0]

-----------------------------------------------------------------------------
(* Pins.  cache[n].pin is the sequence pinned by the current write index of  *)
(* the leaf and cache[n].stuck the one pinned by the other index, which a    *)
(* failed write leaves behind; 0 is none.                                    *)

PinnedSeqs(c) == ({c[n].pin : n \in Node} \cup {c[n].stuck : n \in Node}) \ {0}

(* Mutant: an entry leaves the list as soon as it is on disk.                *)
UpdateLastSeqUnpinned(j, c) ==
    DoDiscards(SpaceAvailable([j EXCEPT !.last = j.seqOndisk + 1]))

(* bch2_journal_update_last_seq: entries leave the front of the pin list     *)
(* once they are on disk and nothing pins them.                              *)
UpdateLastSeq(j, c) ==
    LET front == Min({s \in PinnedSeqs(c) : s >= j.last}
                         \cup {j.seqOndisk + 1})
        j1    == [j EXCEPT !.last = front]
    IN  IF front # j.last THEN DoDiscards(SpaceAvailable(j1)) ELSE j1

(* journal_get_next_pin: a pin of the oldest pinned entry, if that entry is  *)
(* at or below seq_to_flush or the caller must flush one pin of any age.     *)
NextPin(seqToFlush, minAny) ==
    {n \in Node : \E s \in PinnedSeqs(cache) :
                    /\ s \in {cache[n].pin, cache[n].stuck}
                    /\ s = Min(PinnedSeqs(cache))
                    /\ s <= seqToFlush \/ minAny # 0}

SeqToFlush(j) == j.dev.seq[(j.dev.cur + NrBuckets \div 2) % NrBuckets]

-----------------------------------------------------------------------------
(* The device.                                                               *)

ApplyWrite(d, w) ==
    CASE w.kind = "zero" -> [d EXCEPT !.bucket[w.at] = <<>>]
      [] w.kind = "jset" ->
           [d EXCEPT !.bucket[w.at] =
              SelectSeq(@, LAMBDA r : r.off + r.size <= w.rec.off)
              \o <<w.rec>>
              \o SelectSeq(@, LAMBDA r : r.off >= w.rec.off + w.rec.size)]
      [] w.kind = "bset" -> [d EXCEPT !.node[w.at] = Append(@, w.bset)]
      [] w.kind = "lost" -> d

(* The device after the writes ws, in order.                                 *)
Synced(d, ws) ==
    LET after[i \in 0 .. Len(ws)] ==
            IF i = 0 THEN d ELSE ApplyWrite(after[i - 1], ws[i])
    IN  after[Len(ws)]

(* bch2_btree_node_read: bsets whose journal_seq is above the sequence on    *)
(* disk at the time of the read are skipped (0: no bset is), later bsets win *)
(* over earlier ones.                                                        *)
ReadNode(image, seqOndisk) ==
    Last(SelectSeq(image, LAMBDA s : seqOndisk = 0 \/ s.seq <= seqOndisk)).id

(* The node images as a read through the page cache sees them.               *)
Image(n) ==
    LET mine == SelectSeq(pend, LAMBDA w : w.kind = "bset" /\ w.at = n)
    IN  disk.node[n] \o [i \in DOMAIN mine |-> mine[i].bset]

-----------------------------------------------------------------------------
(* Jobs.                                                                     *)

NoRecord == [off |-> 0, size |-> 0, seq |-> 0, last |-> 0, txns |-> {},
             torn |-> FALSE]

(* pc: "idle", "write" and "sync" inside a flush, "reclaim" while pins are   *)
(* flushed, "down" between a crash and the next open.  ck says which part of *)
(* a checkpoint the job belongs to.                                          *)
Idle == [pc |-> "idle", ck |-> "no", rec |-> NoRecord,
         seqToFlush |-> 0, minAny |-> 0, again |-> FALSE, nr |-> 0,
         stop |-> FALSE]

Open == {t \in txns : t.seq = jnl.seq}     \* in the open journal entry
Used == TxnSize * Cardinality(Open)         \* journal_state_offset

History == UNCHANGED <<txns, nextId, acked>>

(* The operation ends with result r.                                         *)
End(r) == job' = Idle /\ ret' = r

(* One iteration of __bch2_journal_reclaim starts.                           *)
ReclaimJob(ck, direct, kicked, j) ==
    [Idle EXCEPT !.pc = "reclaim", !.ck = ck,
                 !.seqToFlush = SeqToFlush(j),
                 !.minAny = IF kicked \/ j.med THEN 1 ELSE 0,
                 !.again = ~direct /\ (kicked \/ j.med)]

(* bch2_trans_commit: the reservation fits and the watermark allows it; the  *)
(* keys are journalled, inserted in their leaves, and each leaf pins the     *)
(* entry unless it pins an older one.                                        *)
Commit(S) ==
    /\ job.pc = "idle"
    /\ nextId <= MaxTxn
    /\ \A n \in S : cache[n].loaded
    /\ Used + TxnSize <= jnl.curEntry
    /\ ~jnl.low
    /\ txns' = txns \cup {[id |-> nextId, seq |-> jnl.seq, nodes |-> S]}
    /\ nextId' = nextId + 1
    /\ cache' = [n \in Node |->
                   IF n \in S
                   THEN [cache[n] EXCEPT !.id = nextId, !.unwritten = jnl.seq,
                                         !.pin = IF @ = 0 THEN jnl.seq ELSE @]
                   ELSE cache[n]]
    /\ ret' = 0
    /\ UNCHANGED <<jnl, job, disk, pend, acked, counts>>

(* bch2_btree_node_get_noiter on a leaf that is not in the node cache.       *)
Load(n) ==
    /\ job.pc = "idle" /\ ~cache[n].loaded
    /\ cache' = [cache EXCEPT ![n].loaded = TRUE,
                              ![n].id = ReadNode(Image(n), jnl.seqOndisk)]
    /\ ret' = 0
    /\ History /\ UNCHANGED <<jnl, job, disk, pend, counts>>

(* The first part of bch2_journal_flush: the record of the open entry, the   *)
(* bucket it goes to, and the zeroing of a bucket that is entered.           *)
PrepareRecord(ck) ==
    LET size == HeaderSize + Used + RootSize
        adv  == /\ size > jnl.dev.free
                /\ BucketsAvailable(jnl.dev, jnl.dev.discard) # 0
        cur  == (jnl.dev.cur + 1) % NrBuckets
        dev  == IF adv THEN [jnl.dev EXCEPT !.cur = cur, !.free = BucketSize,
                                            !.seq[cur] = jnl.seq]
                ELSE jnl.dev
        rec  == [off |-> BucketSize - dev.free, size |-> size,
                 seq |-> jnl.seq, last |-> jnl.last, txns |-> Open,
                 torn |-> FALSE]
    IN  /\ jnl.seq < MaxSeq
        /\ \/ /\ size > BucketSize
              /\ End(-4) /\ UNCHANGED <<jnl, pend, faults>>
           \/ /\ size <= BucketSize /\ size > dev.free
              /\ End(-9) /\ UNCHANGED <<jnl, pend, faults>>
           \/ /\ size <= dev.free
              /\ jnl' = [jnl EXCEPT !.dev = dev]
              /\ \/ /\ job' = [Idle EXCEPT !.pc = "write", !.ck = ck,
                                          !.rec = rec]
                    /\ pend' = IF adv THEN Append(pend, [kind |-> "zero",
                                                         at |-> cur])
                               ELSE pend
                    /\ UNCHANGED <<ret, faults>>
                 \/ /\ adv /\ faults < MaxFault       \* the zeroing fails
                    /\ faults' = faults + 1
                    /\ End(-5) /\ UNCHANGED pend
        /\ History /\ UNCHANGED <<cache, disk, crashes, leafFaults, scene>>

(* Engine::flush_journal, and the flush of bch2_journal_res_get when the     *)
(* reservation does not fit.                                                 *)
Flush == job.pc = "idle" /\ PrepareRecord("no")

(* file.write_at of the record.                                              *)
WriteRecord ==
    /\ job.pc = "write"
    /\ job' = [job EXCEPT !.pc = "sync"]
    /\ pend' = Append(pend, [kind |-> "jset", at |-> jnl.dev.cur,
                             rec |-> job.rec])
    /\ History /\ UNCHANGED <<jnl, cache, ret, disk, counts>>

(* The write or the sync_data of the record fails: a record that was written *)
(* stays in the page cache, and the entry stays open.                        *)
RecordFails ==
    /\ job.pc \in {"write", "sync"} /\ faults < MaxFault
    /\ faults' = faults + 1
    /\ End(-5)
    /\ History /\ UNCHANGED <<jnl, cache, disk, pend, crashes, leafFaults, scene>>

(* What follows a flush that succeeded: a checkpoint goes on to flush the    *)
(* pins up to the sequence after the one on disk.                            *)
Continue(ck, j) ==
    IF ck = "first"
    THEN /\ job' = [Idle EXCEPT !.pc = "reclaim", !.ck = "pins",
                                !.seqToFlush = j.seqOndisk + 1]
         /\ UNCHANGED ret
    ELSE End(0)

(* sync_data succeeds and bch2_journal_flush publishes the record: the next  *)
(* entry opens, the sequences on disk advance, space is recomputed, and a    *)
(* kicked reclaim runs before the flush returns.                             *)
Sync ==
    LET rec   == job.rec
        empty == IF rec.last = rec.seq /\ rec.txns = {} THEN 1 ELSE 0
        j1    == [jnl EXCEPT !.dev.free = @ - rec.size,
                             !.dev.seq[jnl.dev.cur] = rec.seq,
                             !.closed = @ \cup {rec.seq},
                             !.seq = rec.seq + 1,
                             !.seqOndisk = rec.seq,
                             !.lastOndisk = Max({@, rec.last + empty})]
        j2    == SetCurEntry(DoDiscards(SpaceAvailable(
                     UpdateLastSeq(j1, cache))))
    IN  /\ job.pc = "sync"
        /\ disk' = Synced(disk, pend)
        /\ pend' = <<>>
        /\ jnl' = [j2 EXCEPT !.kicked = FALSE]
        /\ IF j2.kicked THEN /\ job' = ReclaimJob(job.ck, FALSE, TRUE, j2)
                             /\ UNCHANGED ret
                        ELSE Continue(job.ck, j2)
        /\ acked' = acked \cup {t.id : t \in rec.txns}
        /\ UNCHANGED <<cache, txns, nextId, counts>>

(* bch2_journal_reclaim from bch2_journal_res_get: the watermark refuses the *)
(* reservation, or the reservation does not fit and the flush found no room. *)
DirectReclaim ==
    /\ job.pc = "idle"
    /\ jnl.low \/ (Used + TxnSize > jnl.curEntry /\ ret = -9)
    /\ job' = ReclaimJob("no", TRUE, TRUE, jnl)
    /\ History /\ UNCHANGED <<jnl, cache, ret, disk, pend, counts>>

(* journal_flush_pins flushes one pin: __btree_node_flush writes the leaf    *)
(* with the journal_seq of its newest unwritten key and drops its pins.      *)
FlushPin(n) ==
    /\ job.pc = "reclaim" /\ ~job.stop
    /\ n \in NextPin(job.seqToFlush, job.minAny)
    /\ n \notin Bootstrap /\ cache[n].stuck = 0
    /\ pend' = Append(pend, [kind |-> "bset", at |-> n,
                             bset |-> [seq |-> cache[n].unwritten,
                                       id |-> cache[n].id]])
    /\ cache' = [cache EXCEPT ![n].unwritten = 0, ![n].pin = 0]
    /\ jnl' = UpdateLastSeq(jnl, cache')
    /\ job' = [job EXCEPT !.minAny = 0, !.nr = 1]
    /\ History /\ UNCHANGED <<ret, disk, counts>>

(* __btree_node_flush fails and ends the pass.  A failing write has already  *)
(* flipped the write index of the leaf, so its pin now belongs to the other  *)
(* index, and every later call refuses that pin without writing.             *)
FlushFails(n) ==
    /\ job.pc = "reclaim" /\ ~job.stop
    /\ n \in NextPin(job.seqToFlush, job.minAny)
    /\ \/ cache[n].stuck # 0 /\ UNCHANGED <<cache, leafFaults>>
       \/ /\ cache[n].stuck = 0
          /\ n \in Bootstrap \/ leafFaults < MaxLeafFault
          /\ cache' = [cache EXCEPT ![n].stuck = cache[n].pin, ![n].pin = 0]
          /\ leafFaults' = IF n \in Bootstrap THEN leafFaults
                           ELSE leafFaults + 1
    /\ job' = [job EXCEPT !.stop = TRUE]
    /\ History /\ UNCHANGED <<jnl, ret, disk, pend, crashes, faults, scene>>

(* Mutant: a pass flushes one pin only.                                      *)
PassOverAfterOne ==
    job.stop \/ job.nr # 0 \/ NextPin(job.seqToFlush, job.minAny) = {}

PassOver == job.stop \/ NextPin(job.seqToFlush, job.minAny) = {}

(* The end of an iteration of __bch2_journal_reclaim.                        *)
ReclaimDone ==
    /\ job.pc = "reclaim" /\ job.ck # "pins" /\ PassOver
    /\ jnl' = UpdateLastSeq(jnl, cache)
    /\ IF job.again /\ job.nr # 0
       THEN job' = ReclaimJob(job.ck, FALSE, FALSE, jnl) /\ UNCHANGED ret
       ELSE Continue(job.ck, jnl)
    /\ History /\ UNCHANGED <<cache, disk, pend, counts>>

(* checkpoint_locked: flush the open entry if it holds anything.             *)
Checkpoint ==
    /\ Checkpoints /\ job.pc = "idle"
    /\ \/ Used # 0 /\ PrepareRecord("first")
       \/ /\ Used = 0 /\ jnl.seqOndisk # 0
          /\ job' = [Idle EXCEPT !.pc = "reclaim", !.ck = "pins",
                                 !.seqToFlush = jnl.seqOndisk + 1]
          /\ History
          /\ UNCHANGED <<jnl, cache, ret, disk, pend, counts>>

(* checkpoint_locked, after bch2_journal_flush_pins: last_seq_ondisk moves   *)
(* up to last_seq, the space it covers is discarded, and the mirror of the   *)
(* retained records is trimmed.                                              *)
CheckpointAdvance ==
    LET j1 == UpdateLastSeq(jnl, cache)
        j2 == IF j1.last > j1.lastOndisk
              THEN DoDiscards(SpaceAvailable([j1 EXCEPT !.lastOndisk = j1.last]))
              ELSE j1
    IN  /\ job.pc = "reclaim" /\ job.ck = "pins" /\ PassOver
        /\ jnl' = [j2 EXCEPT !.closed = {s \in @ : s >= job.seqToFlush}]
        /\ job' = [Idle EXCEPT !.pc = "publish"]
        /\ History /\ UNCHANGED <<cache, ret, disk, pend, counts>>

(* checkpoint_locked ends with a flush that publishes the new last_seq.      *)
CheckpointPublish == job.pc = "publish" /\ PrepareRecord("last")

-----------------------------------------------------------------------------
(* Crash and recovery.                                                       *)

ClosedJournal ==
    [seq |-> 0, seqOndisk |-> 0, last |-> 0, lastOndisk |-> 0,
     dev |-> [cur |-> 0, dirty |-> 0, dirtyOndisk |-> 0, discard |-> 0,
              free |-> 0, seq |-> [b \in Bucket |-> 0]],
     sectors |-> 0, low |-> FALSE, med |-> FALSE, kicked |-> FALSE,
     curEntry |-> 0, closed |-> {}]

Cold == [id |-> 0, loaded |-> FALSE, unwritten |-> 0, pin |-> 0, stuck |-> 0]

(* The sets of page-cache writes a crash may leave on the device.            *)
Survivors ==
    IF Reorder THEN SUBSET DOMAIN pend ELSE {1 .. k : k \in 0 .. Len(pend)}

(* The record a crash may tear: the last write that survives.                *)
Tearable(K) == {0} \cup {i \in K : Torn /\ i = Max(K) /\ pend[i].kind = "jset"}

(* The process dies; K are the writes that survive, t the torn one if any.   *)
Crash(K, t) ==
    LET outcome(i) == CASE i \notin K -> [kind |-> "lost"]
                        [] i = t      -> [pend[i] EXCEPT !.rec.torn = TRUE]
                        [] OTHER      -> pend[i]
    IN  /\ job.pc # "down" /\ crashes < MaxCrash
        /\ crashes' = crashes + 1
        /\ disk' = Synced(disk, [i \in DOMAIN pend |-> outcome(i)])
        /\ pend' = <<>>
        /\ job' = [Idle EXCEPT !.pc = "down"]
        /\ ret' = 0
        /\ jnl' = ClosedJournal
        /\ cache' = [n \in Node |-> Cold]
        /\ History /\ UNCHANGED <<faults, leafFaults, scene>>

(* Mutant: the scan misses a record that ends where the bucket ends.         *)
ScanShort(b) ==
    LET good(k) == \A i \in 1 .. k :
            /\ b[i].off = IF i = 1 THEN 0 ELSE b[i-1].off + b[i-1].size
            /\ b[i].off + b[i].size < BucketSize
            /\ i = 1 \/ b[i].seq >= b[i-1].seq
    IN  SubSeq(b, 1, Max({k \in 0 .. Len(b) : good(k)}))

(* The bucket scan of bch2_journal_read: records back to back from offset 0, *)
(* until something else or a smaller sequence follows.                       *)
Scan(b) ==
    LET good(k) == \A i \in 1 .. k :
            /\ b[i].off = IF i = 1 THEN 0 ELSE b[i-1].off + b[i-1].size
            /\ i = 1 \/ b[i].seq >= b[i-1].seq
    IN  SubSeq(b, 1, Max({k \in 0 .. Len(b) : good(k)}))

(* What the scan of all buckets yields: the records of each bucket, all of   *)
(* them, the newest, the sequence replay starts from, and the records from   *)
(* there on.                                                                 *)
ScanAll(d) ==
    LET bucket == [b \in Bucket |-> Scan(d.bucket[b])]
        found  == UNION {ToSet(bucket[b]) : b \in Bucket}
        newest == IF found = {} THEN NoRecord
                  ELSE CHOOSE r \in found : \A q \in found : q.seq <= r.seq
        first  == IF found = {} THEN 1 ELSE Min({newest.last, newest.seq})
    IN  [bucket |-> bucket, found |-> found, newest |-> newest,
         first |-> first, window |-> {r \in found : r.seq >= first}]

Content(r) == [r EXCEPT !.off = 0]

(* The result of bch2_journal_read: a bad checksum, two records of one       *)
(* sequence that differ, a window with a hole.                               *)
ReadResult(s) ==
    CASE \E r \in s.found : r.torn -> -6
      [] \E r, q \in s.found : r.seq = q.seq /\ Content(r) # Content(q) -> -7
      [] {r.seq : r \in s.window} # s.first .. s.newest.seq -> -8
      [] OTHER -> 0

(* bch2_journal_read: the journal as it is rebuilt from the scan.            *)
JournalRead(s) ==
    LET cur   == IF s.found = {} THEN 0
                 ELSE Min({b \in Bucket : s.newest \in ToSet(s.bucket[b])})
        d     == [cur |-> cur, dirty |-> 0, dirtyOndisk |-> 0, discard |-> 0,
                  free |-> BucketSize - s.newest.off - s.newest.size,
                  seq |-> [b \in Bucket |-> IF s.bucket[b] = <<>> THEN 0
                                            ELSE Last(s.bucket[b]).seq]]
        dirty == AdvanceIdx(d, (cur + 1) % NrBuckets, cur, s.first)
    IN  SetCurEntry(SpaceAvailable(
          [ClosedJournal EXCEPT
             !.seq = s.newest.seq + 1, !.seqOndisk = s.newest.seq,
             !.last = s.first, !.lastOndisk = s.first,
             !.closed = {r.seq : r \in s.window},
             !.dev = [d EXCEPT !.dirty = dirty, !.dirtyOndisk = dirty,
                               !.discard = dirty]]))

(* Mutant: older keys win over newer ones.                                   *)
ReplayedOldest(window) ==
    [n \in Node |->
       LET ts == {t \in UNION {r.txns : r \in window} : n \in t.nodes}
       IN  IF ts = {} THEN Cold
           ELSE [id |-> Min({t.id : t \in ts}), loaded |-> TRUE,
                 unwritten |-> Max({t.seq : t \in ts}),
                 pin |-> Min({t.seq : t \in ts}), stuck |-> 0]]

(* bch2_journal_replay: the keys of the window in sequence order; a replayed *)
(* leaf pins the oldest of them.                                             *)
Replayed(window) ==
    [n \in Node |->
       LET ts == {t \in UNION {r.txns : r \in window} : n \in t.nodes}
       IN  IF ts = {} THEN Cold
           ELSE [id |-> Max({t.id : t \in ts}), loaded |-> TRUE,
                 unwritten |-> Max({t.seq : t \in ts}),
                 pin |-> Min({t.seq : t \in ts}), stuck |-> 0]]

(* attach_persistent_journal_sized on a device that was used before: read    *)
(* the journal, replay it, drop the replay pins.                             *)
Recover ==
    LET s == ScanAll(disk)
        r == ReadResult(s)
        j == JournalRead(s)
    IN  /\ job.pc = "down" /\ ret = 0
        /\ ret' = r
        /\ \/ r # 0 /\ History /\ UNCHANGED <<jnl, cache, job>>
           \/ /\ r = 0
              /\ job' = Idle
              /\ cache' = Replayed(s.window)
              /\ jnl' = UpdateLastSeq(j, cache')
              /\ txns' = {t \in txns : t.seq < s.first}
                           \cup UNION {q.txns : q \in s.window}
              /\ UNCHANGED <<nextId, acked>>
        /\ UNCHANGED <<disk, pend, counts>>

-----------------------------------------------------------------------------
(* A new device: every leaf has been written, the journal is empty.          *)
Init ==
    /\ disk = [bucket |-> [b \in Bucket |-> <<>>],
               node   |-> [n \in Node |-> <<[seq |-> 0, id |-> 0]>>]]
    /\ pend = <<>>
    /\ jnl = JournalRead(ScanAll(disk))
    /\ cache = [n \in Node |-> [Cold EXCEPT !.loaded = TRUE]]
    /\ job = Idle /\ ret = 0
    /\ txns = {} /\ nextId = 1 /\ acked = {}
    /\ crashes = 0 /\ faults = 0 /\ leafFaults = 0
    /\ scene \in Scenarios

Next ==
    \/ \E S \in SUBSET Node \ {{}} : Commit(S)
    \/ \E n \in Node : Load(n) \/ FlushPin(n) \/ FlushFails(n)
    \/ Flush \/ WriteRecord \/ RecordFails \/ Sync
    \/ DirectReclaim \/ ReclaimDone
    \/ Checkpoint \/ CheckpointAdvance \/ CheckpointPublish
    \/ \E K \in Survivors : \E t \in Tearable(K) : Crash(K, t)
    \/ Recover

Spec == Init /\ [][Next]_vars

-----------------------------------------------------------------------------
(* Properties.                                                               *)

Txn    == [id : 1 .. MaxTxn, seq : 1 .. MaxSeq, nodes : SUBSET Node \ {{}}]
Record == [off : 0 .. BucketSize, size : 0 .. BucketSize, seq : 0 .. MaxSeq,
           last : 0 .. MaxSeq, txns : SUBSET Txn, torn : BOOLEAN]
Bset   == [seq : 0 .. MaxSeq, id : 0 .. MaxTxn]
Up     == job.pc # "down"

(* Type correctness; in particular the sequences a running journal keeps are *)
(* ordered last_seq_ondisk <= last_seq <= seq_ondisk + 1 = seq, and no       *)
(* bucket holds more than its size.                                          *)
TypeOK ==
    /\ job.pc \in {"idle", "write", "sync", "reclaim", "publish", "down"}
    /\ job.ck \in {"no", "first", "pins", "last"}
    /\ job.rec \in Record
    /\ ret \in {0, -4, -5, -6, -7, -8, -9}
    /\ jnl.dev.free \in 0 .. BucketSize
    /\ Up => /\ jnl.seq \in 1 .. MaxSeq
             /\ jnl.seqOndisk + 1 = jnl.seq
             /\ jnl.lastOndisk <= jnl.last /\ jnl.last <= jnl.seq
    /\ \A n \in Node :
         /\ cache[n].id \in 0 .. MaxTxn
         /\ {cache[n].pin, cache[n].stuck} \ {0}
                \subseteq jnl.last .. cache[n].unwritten
         /\ \A i \in DOMAIN disk.node[n] : disk.node[n][i] \in Bset
    /\ \A b \in Bucket : \A i \in DOMAIN disk.bucket[b] :
         disk.bucket[b][i] \in Record
    /\ txns \subseteq Txn

(* Truth: the last transaction that must be visible in a leaf.  Shown: the   *)
(* transaction a reader of the leaf gets, loading the leaf if it has to.     *)
Truth(n) == Max({0} \cup {t.id : t \in {u \in txns : n \in u.nodes}})
Shown(n) == IF cache[n].loaded THEN cache[n].id
            ELSE ReadNode(Image(n), jnl.seqOndisk)

(* Opening the device after a crash never fails, as long as no record was    *)
(* torn and no write of one failed: bch2_journal_read finds neither a bad    *)
(* checksum, nor two different records of a sequence, nor a hole in the      *)
(* window of records the newest one says are needed.                         *)
RecoverOk == ~Torn /\ faults = 0 => ret \notin {-6, -7, -8}

(* A transaction whose flush_journal returned success is still there after   *)
(* any number of crashes: its record is replayed, or the record window moved *)
(* past it.                                                                  *)
AckedSurvive == acked \subseteq {t.id : t \in txns}

(* Recovery is exact and stays so: every leaf, in the cache or read from the *)
(* device at any later time, shows the last transaction of the durable       *)
(* history that touched it, wherever the crash fell among the leaf writes,   *)
(* the zeroing, the record write and its sync.                               *)
RecoveredExact == Up => \A n \in Node : Shown(n) = Truth(n)

(* Write-ahead: reclaim never writes a leaf whose newest update is still in  *)
(* the open entry, although a kicked or direct reclaim may flush a pin of    *)
(* any age (min_any in journal_flush_pins).                                  *)
WriteAhead ==
    Up => \A n \in Node : \A i \in DOMAIN Image(n) :
            Image(n)[i].seq <= jnl.seqOndisk

(* Reclaim boundary: an update below last_seq, which replay will not see     *)
(* again, has been written to its leaf (bch2_journal_update_last_seq).       *)
LastSeqCovers ==
    Up => \A t \in txns : t.seq < jnl.last =>
            \A n \in t.nodes : \E i \in DOMAIN Image(n) : Image(n)[i].id >= t.id

(* An update below last_seq_ondisk, whose record may be discarded and        *)
(* overwritten, is durable in the image of its leaf.                         *)
BaseImageDurable ==
    Up => \A t \in txns : t.seq < jnl.lastOndisk =>
            \A n \in t.nodes :
              \E i \in DOMAIN disk.node[n] : disk.node[n][i].id >= t.id

(* A full journal is never wedged: once reclaim has flushed every pin, the   *)
(* bucket held back by bch2_journal_dev_buckets_available leaves room for    *)
(* the record that publishes the new last_seq.                               *)
ReclaimFreesSpace ==
    job.pc = "idle" /\ PinnedSeqs(cache) = {}
        => \/ HeaderSize + Used + RootSize > BucketSize
           \/ HeaderSize + Used + RootSize <= jnl.dev.free
           \/ BucketsAvailable(jnl.dev, jnl.dev.discard) # 0

(* The record of an entry fits in a bucket, whatever reservations it holds:  *)
(* flush never returns -4.                                                   *)
EntryFits == ret # -4

(* The mirror durable_journal() reports holds every record of the window     *)
(* that recovery needs.                                                      *)
MirrorComplete == Up => jnl.last .. jnl.seqOndisk \subseteq jnl.closed

(* When a checkpoint publishes the new boundary, every record up to the one  *)
(* it flushed has been released: no leaf pins any of them.                   *)
CheckpointReleases == job.pc = "publish" => jnl.last = jnl.seq

(* A leaf write that failed is tried again by the next reclaim.              *)
FailedWriteRetried ==
    job.pc = "reclaim" /\ ~job.stop
        => \A n \in NextPin(job.seqToFlush, job.minAny) : cache[n].stuck = 0

(* Nothing acknowledged is lost and nothing else is shown: what              *)
(* flush_journal vouched for survives every crash, and each leaf shows the   *)
(* last transaction of the durable history.                                  *)
Durability == AckedSurvive /\ RecoveredExact

(* The window of records covers what the node images lack: no leaf runs      *)
(* ahead of the journal and whatever fell below last_seq is written; and     *)
(* without checkpoints what fell below last_seq_ondisk is durable, and the   *)
(* mirror holds the rest.                                                    *)
WindowCovers ==
    /\ TypeOK /\ WriteAhead /\ LastSeqCovers
    /\ ~Checkpoints => BaseImageDurable /\ MirrorComplete
=============================================================================
