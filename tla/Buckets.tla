------------------------------ MODULE Buckets ------------------------------
(***************************************************************************)
(* The allocation trees of the engine and the transactions on them: the    *)
(* alloc records (btree 4), the freespace and need_discard indexes (5, 6), *)
(* the backpointers (8) and the extents they are derived from (engine.rs,  *)
(* alloc.rs, update.rs).  A transaction is one value of the trees to the   *)
(* next; what runs concurrently is left to the modules that use this one.  *)
(*                                                                         *)
(* One device.  An extent is one sector long: `slot' is its sector in the  *)
(* bucket, and the key of its backpointer is that sector.                  *)
(***************************************************************************)
EXTENDS Integers, FiniteSets, FiniteSetsExt

CONSTANTS
    NrBuckets,    \* buckets 1 .. NrBuckets of the device
    Slots,        \* sectors of a bucket that callers use
    Generations   \* generations of pointers callers bring along

ASSUME BucketsAssumption ==
    /\ NrBuckets \in Nat \ {0} /\ Slots \in Nat \ {0}
    /\ Generations \subseteq 0 .. 255

Bucket == 1 .. NrBuckets

(* bch_alloc_v4; type "none" stands for a bucket without a record.           *)
Alloc == [type : {"none", "free", "btree", "need_discard"},
          gen : 0 .. 255, oldest : 0 .. 255, dirty : 0 .. Slots, seqEmpty : Nat]

NoAlloc == [type |-> "none", gen |-> 0, oldest |-> 0, dirty |-> 0,
            seqEmpty |-> 0]

(* bch_alloc_v4::default(), which add_free_bucket writes.                    *)
FreshFree == [NoAlloc EXCEPT !.type = "free"]

Extent == [bucket : Bucket, slot : 1 .. Slots, gen : 0 .. 255]

(* alloc_freespace_pos: the bucket, with the high bits of the u8 difference  *)
(* of the two generations.                                                   *)
FreespacePos(b, a) == <<b, ((a.gen - a.oldest) % 256) \div 16>>

OfType(tr, type) == {b \in Bucket : tr.alloc[b].type = type}

-----------------------------------------------------------------------------
(* allocate_bucket and bch2_bucket_alloc_freelist: the first free bucket the *)
(* freespace index names, or any free bucket when the index is empty.        *)
Candidates(tr) ==
    {b \in OfType(tr, "free") :
        tr.freespace = {} \/ \E p \in tr.freespace : p[1] = b}

Allocated(tr, b) ==
    [tr EXCEPT !.alloc[b].type = "btree",
               !.freespace = @ \ {FreespacePos(b, tr.alloc[b])}]

(* Mutant: the generation is kept, so stale pointers still match.            *)
NeedDiscardSameGen(tr, b) ==
    [tr EXCEPT !.alloc[b].type = "need_discard",
               !.freespace = @ \ {FreespacePos(b, tr.alloc[b])},
               !.needDiscard = @ \cup {b}]

(* reclaim_bucket, an empty bucket that is not need_discard yet: the old     *)
(* generation is retired and the indexes follow.                             *)
NeedDiscard(tr, b) ==
    LET a == tr.alloc[b]
    IN  [tr EXCEPT !.alloc[b] = [a EXCEPT !.type = "need_discard",
                                          !.oldest = IF @ = a.gen THEN (@ + 1) % 256
                                                     ELSE @,
                                          !.gen = (@ + 1) % 256],
                   !.freespace = @ \ {FreespacePos(b, a)},
                   !.needDiscard = @ \cup {b}]

(* reclaim_bucket, a need_discard bucket.                                    *)
Freed(tr, b) ==
    [tr EXCEPT !.alloc[b].type = "free",
               !.freespace = @ \cup {FreespacePos(b, tr.alloc[b])},
               !.needDiscard = @ \ {b}]

(* What reclaim_bucket does with a bucket: its result and the new trees.     *)
Reclaimed(tr, b, lastOndisk) ==
    LET a == tr.alloc[b]
        used == \E e \in tr.backpointers : e.bucket = b
    IN  IF ~used /\ a.type = "none" THEN [ret |-> -2, tr |-> tr]
        ELSE IF used \/ a.dirty # 0 THEN [ret |-> -16, tr |-> tr]
        ELSE IF a.type # "need_discard" THEN [ret |-> 0, tr |-> NeedDiscard(tr, b)]
        ELSE IF a.seqEmpty > lastOndisk THEN [ret |-> -11, tr |-> tr]
        ELSE [ret |-> 0, tr |-> Freed(tr, b)]

-----------------------------------------------------------------------------
(* bch2_trigger_extent, the insertion of a pointer: it fails when the bucket *)
(* has another generation, and a bucket of generation 0 takes the pointer's. *)
(* A bucket that has no record gets one; bch_alloc_v4::default() is free.    *)
MayInsert(tr, e) == tr.alloc[e.bucket].gen \in {0, e.gen}

Record(a) == IF a.type = "none" THEN [a EXCEPT !.type = "free"] ELSE a

DerivedFrom(tr, e) ==
    LET a == Record(tr.alloc[e.bucket])
    IN  [tr EXCEPT !.alloc[e.bucket] =
                      [a EXCEPT !.gen = IF @ = 0 THEN e.gen ELSE @,
                                !.dirty = @ + 1],
                   !.backpointers =
                      {q \in @ : q.bucket # e.bucket \/ q.slot # e.slot}
                          \cup {e}]

Inserted(tr, e) == [DerivedFrom(tr, e) EXCEPT !.extents = @ \cup {e}]

(* The removal of a pointer: no generation is checked, the count must not    *)
(* underflow.                                                                *)
MayDelete(tr, e) == tr.alloc[e.bucket].dirty > 0

Deleted(tr, e) ==
    LET a == Record(tr.alloc[e.bucket])
    IN  [tr EXCEPT !.alloc[e.bucket] =
                      [a EXCEPT !.gen = IF @ = 0 THEN e.gen ELSE @,
                                !.dirty = @ - 1],
                   !.backpointers =
                      {q \in @ : q.bucket # e.bucket \/ q.slot # e.slot},
                   !.extents = @ \ {e}]

-----------------------------------------------------------------------------
(* The checks of the engine.                                                 *)

(* verify_bucket_indexes.                                                    *)
ExpectedFreespace(tr) == {FreespacePos(b, tr.alloc[b]) : b \in OfType(tr, "free")}

BucketIndexesOk(tr) ==
    /\ tr.freespace = ExpectedFreespace(tr)
    /\ tr.needDiscard = OfType(tr, "need_discard")

(* check_extents_to_backpointers.                                            *)
DerivedOk(tr) ==
    /\ tr.backpointers = tr.extents
    /\ \A b \in Bucket :
         LET live == {e \in tr.extents : e.bucket = b}
         IN  /\ tr.alloc[b].dirty = Cardinality(live)
             /\ \A e \in live : e.gen = tr.alloc[b].gen
=============================================================================
