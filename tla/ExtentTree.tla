----------------------------- MODULE ExtentTree -----------------------------
(***************************************************************************)
(* The extents of one inode in a btree without snapshots, and              *)
(* bch2_trans_update_extent() (btree/update.rs), which makes room for a    *)
(* key by cutting, splitting and deleting the keys it overlaps and merges  *)
(* it with its neighbours.  A transaction carries one extent update; its   *)
(* commit applies the queued updates at once.  SectorMap is the            *)
(* specification the tree implements.                                      *)
(***************************************************************************)
EXTENDS Extents

CONSTANTS
  NumSectors,  \* the inode's sectors are 0 .. NumSectors - 1
  Devs,        \* devices
  Shapes,      \* what writes may look like: sequences of pointer requests
  Replicas,    \* nr_replicas of reservations
  MaxOps,      \* transactions per behaviour
  MaxWrites,   \* writes among them
  Abutting     \* may a key that meets the end of another overlap a third?

VARIABLES
  keys,            \* the live keys, in btree order
  extra_disk_res,  \* of the last transaction
  ops,             \* transactions so far
  writes,          \* number of the last write
  alloc            \* device -> the writes in its allocation units, in order

vars == <<keys, extra_disk_res, ops, writes, alloc>>

Keys == Range(keys)

Used(ks) == FoldLeft(LAMBDA n, k : n + bch2_bkey_sectors_compressed(k), 0, ks)

Overlaps(a, b) == bkey_start_offset(a) < b.p /\ bkey_start_offset(b) < a.p

Init == keys = <<>> /\ extra_disk_res = 0 /\ ops = 0 /\ writes = 0 /\ alloc = [d \in Devs |-> <<>>]

-----------------------------------------------------------------------------
(* One extent update.  An update at a position replaces the one queued      *)
(* there before: in a sequence of keys the last one of a position counts.   *)

Deletion(p) == [p |-> p, size |-> 0, type |-> "deleted", version |-> 0, v |-> <<>>]

\* Mutant: what is left behind new keeps its start.
OverwriteNoBackCut(old, new) ==
  (IF bkey_start_offset(old) < bkey_start_offset(new)
   THEN <<bch2_cut_back(bkey_start_offset(new), old)>> ELSE <<>>)
  \o <<IF old.p > new.p THEN old ELSE Deletion(old.p)>>

bch2_trans_update_extent_overwrite(old, new) ==
  LET front_split == bkey_start_offset(old) < bkey_start_offset(new)
      back_split  == old.p > new.p
  IN  (IF front_split THEN <<bch2_cut_back(bkey_start_offset(new), old)>> ELSE <<>>)
      \o <<IF back_split THEN bch2_cut_front(new.p, old) ELSE Deletion(old.p)>>

\* Mutant: no reservation for the second part.
ExtraNone(old, new) == 0

\* Both splits of a compressed extent keep all of its sectors.
ExtraRes(old, new) ==
  IF bkey_start_offset(old) < bkey_start_offset(new) /\ old.p > new.p
  THEN bch2_bkey_sectors_compressed(old) ELSE 0

Put(ks, u) == SelectSeq(ks, LAMBDA k : k.p # u.p)
              \o IF u.type = "deleted" THEN <<>> ELSE <<u>>

Apply(updates) == SortSeq(FoldLeft(Put, keys, updates), LAMBDA a, b : a.p < b.p)

After(pos) == SelectSeq(keys, LAMBDA k : k.p >= pos)

extent_front_merge(k, insert) ==
  IF MergeOk(k, insert)
  THEN [updates |-> <<Deletion(k.p)>>, insert |-> bch2_bkey_merge(k, insert)]
  ELSE [updates |-> <<>>, insert |-> insert]

extent_back_merge(insert, k) ==
  IF MergeOk(insert, k) THEN bch2_bkey_merge(insert, k) ELSE insert

\* A key that ends where insert starts: it may be merged in front, and the
\* overlap loop is not entered.
UpdateAbutting(insert, after) ==
  LET made == extent_front_merge(after[1], insert)
  IN  [updates |-> made.updates, insert |-> made.insert, res |-> 0, rest |-> Tail(after)]

\* The loop goes on until a key starts at or after insert's end, or ends
\* after it.
UpdateOverlaps(insert, after) ==
  LET stop(k) == insert.p <= bkey_start_offset(k)
      past    == SelectInSeq(after, LAMBDA k : stop(k) \/ insert.p < k.p)
      n       == IF past = 0 THEN Len(after)
                 ELSE IF stop(after[past]) THEN past - 1 ELSE past
      cut     == SubSeq(after, 1, n)
  IN  [updates |-> FlattenSeq([i \in DOMAIN cut |->
                                bch2_trans_update_extent_overwrite(cut[i], insert)]),
       insert |-> insert,
       res |-> FoldLeft(LAMBDA r, k : r + ExtraRes(k, insert), 0, cut),
       rest |-> IF past # 0 /\ n = past THEN <<>> ELSE SubSeq(after, n + 1, Len(after))]

bch2_trans_update_extent(insert0) ==
  LET after  == After(bkey_start_offset(insert0))
      abut   == after # <<>> /\ after[1].p = bkey_start_offset(insert0)
      made   == IF abut THEN UpdateAbutting(insert0, after) ELSE UpdateOverlaps(insert0, after)
      insert == IF made.rest = <<>> THEN made.insert
                ELSE extent_back_merge(made.insert, made.rest[1])
  IN  /\ ops < MaxOps /\ ops' = ops + 1
      /\ keys' = Apply(made.updates \o IF insert.type = "deleted" THEN <<>> ELSE <<insert>>)
      /\ extra_disk_res' = made.res

\* The third key is left as it is by the abutting branch: unless it is the key
\* insert replaces, insert overlaps it afterwards.
MayUpdate(insert) ==
  \/ Abutting
  \/ \A k \in Keys : Overlaps(k, insert) =>
       \/ k.p = insert.p /\ insert.type # "deleted"
       \/ \A j \in Keys : j.p # bkey_start_offset(insert)

-----------------------------------------------------------------------------
(* Transactions.                                                            *)

Key(lo, hi, type, v) == [p |-> hi + 1, size |-> hi + 1 - lo, type |-> type, version |-> 0, v |-> v]

Intervals == {r \in (0..NumSectors - 1) \X (0..NumSectors - 1) : r[1] <= r[2]}

Unit == NumSectors

\* A pointer of the shape at the next allocation unit of its device.
ShapePtr(k, q) ==
  [ptr |-> [type |-> "ptr", dev |-> q.dev, offset |-> Unit * Len(alloc[q.dev]), cached |-> q.cached,
            unwritten |-> FALSE, gen |-> 0],
   crc |-> IF q.bytes = 0 /\ q.comp = "none" THEN NoCrc(k)
           ELSE [NoCrc(k) EXCEPT !.csize = IF q.comp = "lz4" THEN (k.size + 1) \div 2 ELSE @,
                                 !.bytes = q.bytes, !.comp = q.comp, !.csum = writes + 1],
   has_ec |-> q.ec, ec |-> NoEc]

Write(lo, hi, shape) ==
  LET k0 == Key(lo, hi, "extent", <<>>)
      k  == FoldLeft(LAMBDA kk, q : bch2_extent_ptr_decoded_append(kk, ShapePtr(k0, q)), k0, shape)
  IN  /\ writes < MaxWrites /\ MayUpdate(k)
      /\ bch2_trans_update_extent(k)
      /\ writes' = writes + 1
      /\ alloc' = [d \in Devs |-> IF \E i \in DOMAIN shape : shape[i].dev = d
                                  THEN Append(alloc[d], writes') ELSE alloc[d]]

Reserve(lo, hi, n) ==
  LET k == Key(lo, hi, "reservation", <<[type |-> "reservation", nr_replicas |-> n]>>)
  IN  MayUpdate(k) /\ bch2_trans_update_extent(k) /\ UNCHANGED <<writes, alloc>>

Discard(lo, hi) ==
  LET k == Key(lo, hi, "deleted", <<>>)
  IN  MayUpdate(k) /\ bch2_trans_update_extent(k) /\ UNCHANGED <<writes, alloc>>

\* A key read from the tree is edited and written back over itself.
Edit(k, new) == /\ new # k /\ MayUpdate(new)
                /\ bch2_trans_update_extent(new)
                /\ UNCHANGED <<writes, alloc>>

Extent(k) == k.type = "extent"

DropDevice(k, d) == Extent(k) /\ Edit(k, bch2_bkey_drop_device(k, d))

DropDeviceNoerror(k, d) == Extent(k) /\ Edit(k, bch2_bkey_drop_device_noerror(k, d))

DropPtrs(k, mask) == Extent(k) /\ Edit(k, bch2_bkey_drop_ptrs_mask(k, mask))

DropEc(k, mask) == Extent(k) /\ Edit(k, bch2_bkey_drop_ec_mask(k, mask))

\* The live sectors of a checksummed extent get a checksum of their own.
NarrowCrc(k, i) ==
  LET old == bch2_extent_crc_unpack(k, k.v[i])
      new == [old EXCEPT !.csize = old.live, !.usize = old.live, !.offset = 0]
  IN  /\ Extent(k) /\ extent_entry_is_crc(k.v[i]) /\ ~crc_is_compressed(old)
      /\ Edit(k, bch2_bkey_narrow_crc(k, old, new))

Incompressible(k, src) ==
  /\ Extent(k) /\ Extent(src)
  /\ Edit(k, bch2_bkey_propagate_incompressible(k, src))

Next ==
  \/ \E r \in Intervals : \/ \E shape \in Shapes : Write(r[1], r[2], shape)
                          \/ \E n \in Replicas : Reserve(r[1], r[2], n)
                          \/ Discard(r[1], r[2])
  \/ \E k \in Keys : \/ \E d \in Devs : DropDevice(k, d) \/ DropDeviceNoerror(k, d)
                     \/ \E mask \in SUBSET (1..Cardinality(PtrIdx(k))) :
                           DropPtrs(k, mask) \/ DropEc(k, mask)
                     \/ \E i \in DOMAIN k.v : NarrowCrc(k, i)
                     \/ \E src \in Keys : Incompressible(k, src)

Spec == Init /\ [][Next]_vars

-----------------------------------------------------------------------------
(* Reading: the sector of a write that a pointer of the key at s leads to.   *)

KeyAt(s) == {k \in Keys : bkey_start_offset(k) <= s /\ s < k.p}

\* A compressed extent is read whole from the pointer on; of what it expands
\* to the crc offset is skipped.
Copy(k, p, s) ==
  LET idx  == p.crc.offset + s - bkey_start_offset(k)
      addr == p.ptr.offset + IF crc_is_compressed(p.crc) THEN 0 ELSE idx
  IN  [dev |-> p.ptr.dev, write |-> alloc[p.ptr.dev][addr \div Unit + 1],
       rel |-> IF crc_is_compressed(p.crc) THEN idx ELSE addr % Unit]

Copies(k, s) == IF Extent(k)
                THEN {Copy(k, p, s) : p \in {q \in Decoded(k) : q.ptr.dev # InvalidDev}}
                ELSE {}

Read(s) ==
  LET ks == After(s + 1)
      k  == ks[1]
  IN  IF ks = <<>> \/ bkey_start_offset(k) > s THEN [copies |-> {}, reserved |-> 0]
      ELSE [copies   |-> Copies(k, s),
            reserved |-> IF k.type = "reservation" THEN bch2_bkey_nr_ptrs_allocated(k) ELSE 0]

-----------------------------------------------------------------------------
(* Properties.                                                              *)

\* Types of the state.
TypeOK == /\ \A k \in Keys : /\ k.p \in 1..NumSectors /\ k.size \in 1..k.p
                             /\ k.type \in {"extent", "reservation"}
          /\ extra_disk_res \in Nat /\ ops \in 0..MaxOps /\ writes \in 0..MaxWrites
          /\ alloc \in [Devs -> Seq(1..MaxWrites)]

\* No two keys of the tree cover the same sector: what the cuts, splits and
\* deletions of bch2_trans_update_extent() are for.
NoOverlap == \A k, j \in Keys : k # j => ~Overlaps(k, j)

\* Reading any sector, after any cuts and edits, leads to the copies of the
\* last write to it, at the right place in that write: the tree implements
\* the map from sectors to copies.
Map == INSTANCE SectorMap WITH Sectors <- 0..NumSectors - 1, Devs <- Devs,
                               Replicas <- Replicas,
                               map <- [s \in 0..NumSectors - 1 |-> Read(s)],
                               writes <- writes
ImplementsMap == Map!Spec

\* The live sectors of an extent lie within what each of its checksums covers:
\* cut_front() moves the offset, cut_back() and narrow_crc() change the length.
CrcCovers ==
  \A k \in Keys : \A i \in DOMAIN k.v :
    extent_entry_is_crc(k.v[i]) => LET c == bch2_extent_crc_unpack(k, k.v[i])
                                   IN  c.offset + k.size <= c.usize

\* Dropping pointers leaves no crc without a pointer under it and no stripe
\* entry without its pointer, and never two pointers on one device.
NoOrphans ==
  \A k \in Keys : Extent(k) =>
    /\ \A i \in DOMAIN k.v : ~extent_entry_is_ptr(k.v[i]) =>
         /\ i < Len(k.v)
         /\ ~extent_entry_is_crc(k.v[i + 1])
         /\ extent_entry_is_stripe_ptr(k.v[i]) => extent_entry_is_ptr(k.v[i + 1])
    /\ \A i, j \in PtrIdx(k) : k.v[i].dev = k.v[j].dev /\ k.v[i].dev # InvalidDev => i = j

\* Two pointers hold sectors of one write on one device, the same distance
\* apart as the keys.
OneWrite(k, p, j, q) ==
  LET c == Copy(k, p, bkey_start_offset(k))
      e == Copy(j, q, bkey_start_offset(j))
  IN  /\ c.dev = e.dev /\ c.write = e.write
      /\ c.rel - e.rel = bkey_start_offset(k) - bkey_start_offset(j)

OnDevice(k) == {p \in Decoded(k) : p.ptr.dev # InvalidDev}

\* However an extent was cut and edited, bch2_bkey_ptrs_match() and
\* bch2_extents_match() take only parts of one write for the same extent, and
\* bch2_extent_has_ptr() finds the pointer of every other part of the write.
MatchExact ==
  \A k, j \in Keys : k # j /\ Extent(k) /\ Extent(j) =>
    /\ \A p \in OnDevice(k), q \in OnDevice(j) :
         /\ bch2_bkey_ptrs_match(k, p, j, q) => OneWrite(k, p, j, q)
         /\ OneWrite(k, p, j, q) => bch2_extent_has_ptr(k, p, j)
    /\ bch2_extents_match(k, j) /\ Decoded(k) \union Decoded(j) = OnDevice(k) \union OnDevice(j)
         => \E p \in OnDevice(k), q \in OnDevice(j) : OneWrite(k, p, j, q)

\* Dropping a device takes one dirty pointer from an extent that has one there
\* and keeps the extent readable through its other pointers or, if the pointer
\* is erasure coded, through the stripe, for which the pointer still counts as
\* a replica.  Dropping the pointer by its mask bit is the same as dropping
\* the device with bch2_bkey_drop_device_noerror().
DropExact ==
  \A k \in Keys, d \in Devs : Extent(k) =>
    LET n    == bch2_bkey_drop_device(k, d)
        lost == {p \in Decoded(k) : p.ptr.dev = d /\ ~p.ptr.cached}
    IN  /\ bch2_bkey_nr_dirty_ptrs(n) = bch2_bkey_nr_dirty_ptrs(k) - Cardinality(lost)
        /\ bch2_bkey_replicas(n) =
             bch2_bkey_replicas(k) - Cardinality({p \in lost : ~p.has_ec})
        /\ bch2_bkey_can_read(n) <=>
             \E p \in Decoded(k) : ~p.ptr.cached /\ (p.has_ec \/ p.ptr.dev \notin {d, InvalidDev})
        /\ bch2_bkey_drop_ptrs_mask(k, {bch2_bkey_dev_ptr_bit(k, d)}) =
             bch2_bkey_drop_device_noerror(k, d)

\* The compressed sectors the tree refers to grow by no more than the inserted
\* key brings and extra_disk_res reserved for the split of an old one.
ResCovers ==
  [][LET new(k) == \E i \in PtrIdx(k) : CrcAt(k, i).csum = writes + 1
     IN  Used(keys') <= Used(keys) + extra_disk_res' + Used(SelectSeq(keys', new))]_vars

\* Every key of the tree stands for itself: keys do not overlap, a checksum
\* covers what its pointers show of it, and no entry describes a pointer that
\* is gone.
WellFormed == TypeOK /\ NoOverlap /\ CrcCovers /\ NoOrphans

\* The edits of an extent in place: two extents match exactly when they are
\* parts of one write, and a drop removes exactly what it names.
EditsExact == MatchExact /\ DropExact
=============================================================================
