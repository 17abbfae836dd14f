------------------------------ MODULE Extents ------------------------------
(***************************************************************************)
(* Extent values (btree/bset.rs).  An extent key covers `size' sectors     *)
(* ending at offset `p'.  Its value is a list of entries: pointers, the    *)
(* checksum (crc) entries that apply to the pointers after them, and the   *)
(* stripe entries that apply to the next pointer.  Every operation here    *)
(* takes a key and returns the edited key; ExtentTree puts the keys into a *)
(* tree.  Checksum contents are one number (csum); offsets are sectors.    *)
(***************************************************************************)
EXTENDS Integers, Sequences, SequencesExt, FiniteSets

CONSTANTS
  InvalidDev,   \* BCH_SB_MEMBER_INVALID
  SizeMax,      \* crc kind -> largest size: CRC32/64/128_SIZE_MAX
  NonceMax,     \* crc kind -> largest nonce: CRC32/64/128_NONCE_MAX
  CsumBytesMax  \* crc kind -> checksum bytes that fit: 4, 10, 16

CrcKinds == DOMAIN SizeMax

\* The smallest encoding first, the order bch2_extent_crc_append() tries.
CrcOrder == <<"crc32", "crc64", "crc128">>

bkey_start_offset(k) == k.p - k.size

extent_entry_is_ptr(e) == e.type = "ptr"

extent_entry_is_crc(e) == e.type \in CrcKinds

extent_entry_is_stripe_ptr(e) == e.type = "stripe_ptr"

crc_is_compressed(crc) == crc.comp \notin {"none", "incompressible"}

\* What a pointer without a crc entry is decoded with.
NoCrc(k) == [csize |-> k.size, usize |-> k.size, live |-> k.size, offset |-> 0,
             nonce |-> 0, bytes |-> 0, csum |-> 0, comp |-> "none"]

\* Sizes are stored minus one; every field is cut to the width of its kind.
bch2_extent_crc_pack(src, kind) ==
  [type |-> kind, csize |-> (src.csize - 1) % SizeMax[kind],
   usize |-> (src.usize - 1) % SizeMax[kind], offset |-> src.offset % SizeMax[kind],
   nonce |-> src.nonce % (NonceMax[kind] + 1), bytes |-> src.bytes,
   csum |-> src.csum, comp |-> src.comp]

bch2_extent_crc_unpack(k, e) ==
  [csize |-> e.csize + 1, usize |-> e.usize + 1, live |-> k.size,
   offset |-> e.offset, nonce |-> e.nonce, bytes |-> e.bytes, csum |-> e.csum,
   comp |-> e.comp]

\* The kind the append chooses.  None fits: the code panics.
CrcFits(new, kind) == /\ new.bytes <= CsumBytesMax[kind]
                      /\ new.usize <= SizeMax[kind]
                      /\ new.nonce <= NonceMax[kind]

bch2_extent_crc_append(k, new) ==
  LET kind == CrcOrder[SelectInSeq(CrcOrder, LAMBDA c : CrcFits(new, c))]
  IN  [k EXCEPT !.v = Append(@, bch2_extent_crc_pack(new, kind))]

\* 0 when no crc entry of k decodes to crc.
bkey_find_crc(k, crc) ==
  SelectInSeq(k.v, LAMBDA e : /\ extent_entry_is_crc(e)
                              /\ bch2_extent_crc_unpack(k, e) = crc)

-----------------------------------------------------------------------------
(* Decoding: the pointers of a key, each with the crc in force where it      *)
(* stands and the stripe entry, if any, between it and the pointer before.   *)

NoEc == [block |-> 0, idx |-> 0, redundancy |-> 0]

\* The crc at or before entry i, then the pointers in order.
CrcAt(k, i) ==
  LET c == SelectLastInSubSeq(k.v, 1, i, extent_entry_is_crc)
  IN  IF c = 0 THEN NoCrc(k) ELSE bch2_extent_crc_unpack(k, k.v[c])

PrevPtr(k, i) == SelectLastInSubSeq(k.v, 1, i - 1, extent_entry_is_ptr)

EcAt(k, i) == SelectLastInSubSeq(k.v, PrevPtr(k, i) + 1, i - 1,
                                 extent_entry_is_stripe_ptr)

extent_ptr_decoded(k, i) ==
  LET ec == EcAt(k, i)
  IN  [ptr |-> k.v[i], crc |-> CrcAt(k, i), has_ec |-> ec # 0,
       ec |-> IF ec = 0 THEN NoEc
              ELSE [block |-> k.v[ec].block, idx |-> k.v[ec].idx,
                    redundancy |-> k.v[ec].redundancy]]

PtrIdx(k) == {i \in DOMAIN k.v : extent_entry_is_ptr(k.v[i])}

Decoded(k) == {extent_ptr_decoded(k, i) : i \in PtrIdx(k)}

bch2_bkey_has_device(k, dev) ==
  SelectInSeq(k.v, LAMBDA e : extent_entry_is_ptr(e) /\ e.dev = dev)

bch2_bkey_sectors_compressed(k) ==
  FoldLeft(+, 0, [i \in DOMAIN k.v |->
      IF /\ extent_entry_is_ptr(k.v[i]) /\ ~k.v[i].cached
         /\ crc_is_compressed(CrcAt(k, i))
      THEN CrcAt(k, i).csize ELSE 0])

bkey_extent_is_unwritten(k) == \E i \in PtrIdx(k) : k.v[i].unwritten

bch2_bkey_is_incompressible(k) ==
  \E i \in DOMAIN k.v : /\ extent_entry_is_crc(k.v[i])
                        /\ k.v[i].comp = "incompressible"

\* Where sector s of k lies on the device of pointer p.
DiskOffset(k, p) == p.ptr.offset + p.crc.offset - bkey_start_offset(k)

SameStripe(p1, p2) == /\ p1.has_ec /\ p2.has_ec
                      /\ p1.ec.idx = p2.ec.idx /\ p1.ec.block = p2.ec.block

\* Mutant: pointers into different devices match.
PtrsMatchAnyDev(k1, p1, k2, p2) ==
  /\ p1.ptr.gen = p2.ptr.gen
  /\ DiskOffset(k1, p1) = DiskOffset(k2, p2)
  /\ \/ p1.ptr.offset \in p2.ptr.offset .. p2.ptr.offset + p2.crc.csize - 1
     \/ p2.ptr.offset \in p1.ptr.offset .. p1.ptr.offset + p1.crc.csize - 1

bch2_bkey_ptrs_match(k1, p1, k2, p2) ==
  /\ p1.ptr.dev = p2.ptr.dev \/ SameStripe(p1, p2)
  /\ p1.ptr.gen = p2.ptr.gen
  /\ DiskOffset(k1, p1) = DiskOffset(k2, p2)
  /\ \/ p1.ptr.offset \in p2.ptr.offset .. p2.ptr.offset + p2.crc.csize - 1
     \/ p2.ptr.offset \in p1.ptr.offset .. p1.ptr.offset + p1.crc.csize - 1

bch2_extents_match(k1, k2) ==
  /\ k1.type = k2.type
  /\ k1.type = "extent" =>
       /\ bkey_extent_is_unwritten(k1) = bkey_extent_is_unwritten(k2)
       /\ \E p1 \in Decoded(k1), p2 \in Decoded(k2) :
             bch2_bkey_ptrs_match(k1, p1, k2, p2)

\* bch2_bkey_matches_ptr() asks the same of a bare pointer and an offset.
bch2_extent_has_ptr(k1, p1, k2) ==
  \E p2 \in Decoded(k2) : /\ p1.ptr.dev = p2.ptr.dev /\ p1.ptr.gen = p2.ptr.gen
                          /\ DiskOffset(k1, p1) = DiskOffset(k2, p2)

bch2_bkey_replicas(k) ==
  FoldLeft(+, 0, [i \in DOMAIN k.v |->
      IF extent_entry_is_ptr(k.v[i]) /\ ~k.v[i].cached
      THEN 1 + extent_ptr_decoded(k, i).ec.redundancy ELSE 0])

bch2_bkey_nr_dirty_ptrs(k) ==
  Cardinality({i \in PtrIdx(k) : ~k.v[i].cached /\ k.v[i].dev # InvalidDev})

bch2_bkey_nr_ptrs_allocated(k) ==
  IF k.type = "reservation" THEN k.v[1].nr_replicas
  ELSE Cardinality({i \in PtrIdx(k) : ~k.v[i].cached})

bch2_bkey_can_read(k) ==
  \E p \in Decoded(k) : ~p.ptr.cached /\ (p.ptr.dev # InvalidDev \/ p.has_ec)

-----------------------------------------------------------------------------
(* Editing.                                                                  *)

\* A stripe entry is written back with its type bit only: the block, index
\* and redundancy of p.ec are not stored (`(*p).ec.v = 1 << ...').
bch2_extent_ptr_decoded_append(k0, p) ==
  LET found == bkey_find_crc(k0, p.crc)
      plain == p.crc = NoCrc(k0)
      k     == IF plain \/ found # 0 THEN k0 ELSE bch2_extent_crc_append(k0, p.crc)
      pos   == IF plain THEN 1 ELSE IF found # 0 THEN found + 1 ELSE Len(k.v) + 1
      new   == (IF p.has_ec THEN <<[type |-> "stripe_ptr"] @@ NoEc>> ELSE <<>>)
               \o <<p.ptr>>
  IN  [k EXCEPT !.v = SubSeq(@, 1, pos - 1) \o new \o SubSeq(@, pos, Len(@))]

\* The crc goes with the last pointer it applies to, the stripe entry always.
bch2_bkey_drop_ptr_noerror(k, i) ==
  LET after    == SelectInSubSeq(k.v, i + 1, Len(k.v), LAMBDA e :
                      extent_entry_is_crc(e) \/ extent_entry_is_ptr(e))
      drop_crc == after = 0 \/ extent_entry_is_crc(k.v[after])
      dropped(e) == (extent_entry_is_crc(e) /\ drop_crc) \/ extent_entry_is_stripe_ptr(e)
      prev     == PrevPtr(k, i)
  IN  [k EXCEPT !.v = SubSeq(@, 1, prev)
                      \o SelectSeq(SubSeq(@, prev + 1, i - 1), LAMBDA e : ~dropped(e))
                      \o SubSeq(@, i + 1, Len(@))]

bch2_bkey_drop_ptr(k, i) ==
  IF EcAt(k, bch2_bkey_has_device(k, k.v[i].dev)) # 0
  THEN [k EXCEPT !.v[i].dev = InvalidDev]
  ELSE bch2_bkey_drop_ptr_noerror(k, i)

\* The loops drop the first pointer of the device until none is left: one turn
\* for each.
DropEach(k, dev, Drop(_, _)) ==
  LET nr == Cardinality({i \in PtrIdx(k) : k.v[i].dev = dev})
      dropped[n \in 0..nr] ==
        IF n = 0 THEN k
        ELSE LET kk == dropped[n - 1] IN Drop(kk, bch2_bkey_has_device(kk, dev))
  IN  dropped[nr]

bch2_bkey_drop_device(k, dev) == DropEach(k, dev, bch2_bkey_drop_ptr)

bch2_bkey_drop_device_noerror(k, dev) == DropEach(k, dev, bch2_bkey_drop_ptr_noerror)

\* A mask numbers the pointers in value order; its highest bit is dropped
\* first, so that the numbers of the others stay good.
NthPtr(k, n) == CHOOSE i \in PtrIdx(k) : Cardinality(PtrIdx(k) \cap (1..i)) = n

\* The number of the device's first pointer; 0 without one.
bch2_bkey_dev_ptr_bit(k, dev) ==
  Cardinality(PtrIdx(k) \cap (1..bch2_bkey_has_device(k, dev)))

bch2_bkey_drop_ptrs_mask(k, mask) ==
  LET nr == Cardinality(PtrIdx(k))
      dropped[n \in 1..nr + 1] ==
        IF n = nr + 1 THEN k
        ELSE IF n \in mask
        THEN bch2_bkey_drop_ptr_noerror(dropped[n + 1], NthPtr(dropped[n + 1], n))
        ELSE dropped[n + 1]
  IN  dropped[1]

\* The stripe entry last seen before the pointer: the scan does not forget it
\* at the pointers in between.
bch2_bkey_drop_ec(k, dev) ==
  LET i  == bch2_bkey_has_device(k, dev)
      ec == SelectLastInSubSeq(k.v, 1, i - 1, extent_entry_is_stripe_ptr)
  IN  IF i = 0 \/ ec = 0 THEN k ELSE [k EXCEPT !.v = RemoveAt(@, ec)]

bch2_bkey_drop_ec_mask(k, mask) ==
  LET dropped[n \in 0..Cardinality(PtrIdx(k))] ==
        IF n = 0 THEN k
        ELSE IF n \in mask
        THEN bch2_bkey_drop_ec(dropped[n - 1], dropped[n - 1].v[NthPtr(dropped[n - 1], n)].dev)
        ELSE dropped[n - 1]
  IN  dropped[Cardinality(PtrIdx(k))]

\* new covers only the live sectors of old: the pointers under old move up.
bch2_bkey_narrow_crc(k, old, new) ==
  LET c    == bkey_find_crc(k, old)
      next == SelectInSubSeq(k.v, c + 1, Len(k.v), extent_entry_is_crc)
      last == IF next = 0 THEN Len(k.v) ELSE next - 1
  IN  IF c = 0 THEN k
      ELSE [k EXCEPT !.v = [i \in DOMAIN @ |->
               IF i = c THEN bch2_extent_crc_pack(new, @[c].type)
               ELSE IF i \in c + 1 .. last /\ extent_entry_is_ptr(@[i])
               THEN [@[i] EXCEPT !.offset = @ + old.offset]
               ELSE @[i]]]

bch2_bkey_propagate_incompressible(k, src) ==
  IF ~bch2_bkey_is_incompressible(src) THEN k
  ELSE [k EXCEPT !.v = [i \in DOMAIN @ |->
           IF extent_entry_is_crc(@[i]) /\ @[i].comp = "none"
           THEN [@[i] EXCEPT !.comp = "incompressible"] ELSE @[i]]]

\* Mutant: pointers move although a crc before them has moved.
CutFrontTwice(where, k) ==
  LET sub == where - bkey_start_offset(k)
  IN  IF sub <= 0 THEN k
      ELSE [k EXCEPT !.size = @ - sub,
                     !.v = IF k.type # "extent" THEN @ ELSE [i \in DOMAIN @ |->
                        IF extent_entry_is_crc(@[i]) \/ extent_entry_is_ptr(@[i])
                        THEN [@[i] EXCEPT !.offset = @ + sub] ELSE @[i]]]

\* Pointers before the first crc move; after it the crc offsets do.
bch2_cut_front(where, k) ==
  LET sub   == where - bkey_start_offset(k)
      crc1  == SelectInSeq(k.v, extent_entry_is_crc)
      first == IF crc1 = 0 THEN Len(k.v) + 1 ELSE crc1
      cut(i) == LET e == k.v[i]
                IN  IF extent_entry_is_crc(e)
                    THEN [e EXCEPT !.offset = (@ + sub) % SizeMax[e.type]]
                    ELSE IF extent_entry_is_ptr(e) /\ i < first
                    THEN [e EXCEPT !.offset = @ + sub] ELSE e
  IN  IF sub <= 0 THEN k
      ELSE IF k.size = sub THEN [k EXCEPT !.size = 0, !.type = "deleted", !.v = <<>>]
      ELSE [k EXCEPT !.size = @ - sub,
                     !.v = IF k.type = "extent" THEN [i \in DOMAIN @ |-> cut(i)] ELSE @]

bch2_cut_back(where, k) ==
  LET len == where - bkey_start_offset(k)
  IN  IF where >= k.p THEN k
      ELSE [k EXCEPT !.p = where, !.size = len,
                     !.type = IF len = 0 THEN "deleted" ELSE @,
                     !.v = IF len = 0 THEN <<>> ELSE @]

\* Keys of the same type and version that meet.
bch2_bkey_maybe_mergable(l, r) ==
  /\ l.type = r.type /\ l.version = r.version
  /\ l.p = bkey_start_offset(r)

bch2_key_resize(k, new_size) == [k EXCEPT !.p = @ - k.size + new_size, !.size = new_size]

\* Whether r can be merged into l.  Extents with pointers are never merged; a
\* reservation's value is <<[generation, nr_replicas]>>.
MergeOk(l, r) == /\ bch2_bkey_maybe_mergable(l, r)
                 /\ \/ l.type = "set"
                    \/ l.type = "reservation" /\ l.v = r.v

bch2_bkey_merge(l, r) == bch2_key_resize(l, l.size + r.size)
=============================================================================
