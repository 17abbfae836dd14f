----------------------- MODULE BucketLifecycleProofs -----------------------
(***************************************************************************)
(* The operations of the open engine keep GenInv and BeforeInv as well, as *)
(* long as callers insert into buckets they allocated and no generation    *)
(* wraps: a caller that kept a bucket is told apart from the next owner by *)
(* the generation (Kept).  TreesConsistent and RebuildExact follow.        *)
(***************************************************************************)
EXTENDS BucketWorkProofs

(* A bucket a caller has allocated is still its own, or has a later          *)
(* generation.                                                               *)
Kept ==
    IF Up
    THEN \A t \in Thread : \A m \in mine[t] :
           /\ m[2] <= tr.alloc[m[1]].gen
           /\ m[2] = tr.alloc[m[1]].gen => tr.alloc[m[1]].type = "btree"
    ELSE \A t \in Thread : mine[t] = {}

TreeInv == GenInv /\ BeforeInv /\ Kept

-----------------------------------------------------------------------------
(* GenInv and Kept are kept by the transactions of the open engine.          *)

(* No generation is about to wrap around.  With 255 it may: the caller of an *)
(* old allocation and the new owner then have the same generation.           *)
Unwrapped == \A b \in Bucket : tr.alloc[b].gen < 255

\* What the trees of an open filesystem owe GenInv.
LEMMA GenUp ==
    ASSUME GenInv, Up, UNCHANGED rb,
           OneGen(tr'.extents), GenOf(tr'.alloc, tr'.extents), Owned(tr'),
           tr'.freespace = Frees(tr'.alloc),
           ~rb.stale => tr'.needDiscard = Discards(tr'.alloc),
           ~rb.torn => \A e \in tr'.extents : tr'.alloc[e.bucket].type = "btree"
    PROVE  GenInv' /\ BeforeInv'
  <1>1. rb'.stage = "up" /\ "up" \notin Early
    BY DEF Up, Early
  <1>2. Records' = tr'.alloc
    BY <1>1, SMTT(30) DEF Records
  <1>3. GenInv'
    <2>1. Gens'
      BY <1>1, <1>2 DEF GenInv, Gens
    <2>2. Spaces'
      BY <1>1, <1>2 DEF GenInv, Spaces
    <2>3. Flags'
      BY <1>1, <1>2 DEF GenInv, Flags
    <2> QED
      BY <2>1, <2>2, <2>3 DEF GenInv
  <1>4. BeforeInv'
    BY <1>1, SMTT(30) DEF BeforeInv
  <1> QED
    BY <1>3, <1>4

\* What GenInv says of the trees of an open filesystem.
LEMMA GenOpened ==
    ASSUME GenInv, Up
    PROVE  /\ OneGen(tr.extents) /\ GenOf(tr.alloc, tr.extents) /\ Owned(tr)
           /\ tr.freespace = Frees(tr.alloc)
           /\ ~rb.stale => tr.needDiscard = Discards(tr.alloc)
           /\ ~rb.torn => \A e \in tr.extents : tr.alloc[e.bucket].type = "btree"
  <1>1. rb.stage = "up" /\ "up" \notin Early /\ Records = tr.alloc
    BY DEF Up, Early, Records
  <1> QED
    BY <1>1 DEF GenInv, Gens, Spaces, Flags, Whole

(* Extents that come and go change no type and no generation.                *)
LEMMA AllocSame ==
    ASSUME NEW p, NEW q,
           \A c \in Bucket : Like(q[c], p[c])
    PROVE  Frees(q) = Frees(p) /\ Discards(q) = Discards(p)
  <1>1. \A c \in Bucket : FreespacePos(c, q[c]) = FreespacePos(c, p[c])
    BY DEF Like, FreespacePos
  <1> QED
    BY <1>1 DEF Frees, Discards, Like

\* Kept survives a step that leaves every bucket's generation and type alone.
LEMMA KeptSame ==
    ASSUME Claims, Kept, Up, UNCHANGED <<rb, mine>>,
           \A c \in Bucket : Like(tr'.alloc[c], tr.alloc[c])
    PROVE  Kept'
  <1>1. Up'
    BY DEF Up
  <1>2. ASSUME NEW t \in Thread, NEW m \in mine[t]
        PROVE  m[1] \in Bucket
    <2>1. mine[t] \subseteq Bucket \X (0 .. 255)
      BY DEF Claims
    <2> QED
      BY <2>1, <1>2
  <1> QED
    BY <1>1, <1>2 DEF Kept, Like

\* An allocation keeps the generations and moves one bucket from the freespace
\* index into use.
LEMMA TreeAllocated ==
    ASSUME WorkInv, TreeInv, Up, NEW b \in Bucket, tr.alloc[b].type = "free",
           tr' = Allocated(tr, b), UNCHANGED rb
    PROVE  /\ GenInv' /\ BeforeInv'
           /\ \A c \in Bucket : tr'.alloc[c].gen = tr.alloc[c].gen
           /\ \A c \in Bucket \ {b} : tr'.alloc[c].type = tr.alloc[c].type
           /\ tr'.alloc[b].type = "btree"
  <1> USE DEF WorkInv, TreeInv
  <1>0. tr \in Trees /\ tr' \in Trees /\ tr.alloc[b] \in Alloc
        /\ tr.alloc \in [Bucket -> Alloc] /\ tr'.alloc \in [Bucket -> Alloc]
    <2>1. tr \in Trees
      BY Opened
    <2>2. tr' \in Trees
      BY <2>1, AllocatedFields, Zenon
    <2> QED
      BY <2>1, <2>2 DEF Trees
  <1>1. /\ tr'.extents = tr.extents /\ tr'.needDiscard = tr.needDiscard
        /\ tr'.freespace = tr.freespace \ {FreespacePos(b, tr.alloc[b])}
        /\ \A c \in Bucket \ {b} : tr'.alloc[c] = tr.alloc[c]
        /\ tr'.alloc[b] = [tr.alloc[b] EXCEPT !.type = "btree"]
    BY <1>0, AllocatedFields
  <1>2. tr'.alloc[b].type = "btree" /\ tr'.alloc[b].gen = tr.alloc[b].gen
    BY <1>0, <1>1, ZenonT(40) DEF Alloc
  <1>3. \A e \in tr.extents : e.bucket \in Bucket
    BY <1>0, SMTT(30) DEF Trees, Extent
  <1>4. GenOf(tr'.alloc, tr'.extents) /\ Owned(tr') /\ OneGen(tr'.extents)
    <2>1. \A e \in tr'.extents : /\ e \in tr.extents /\ tr.alloc[e.bucket].type # "none"
                                 /\ e.gen = tr.alloc[e.bucket].gen
      BY <1>1, GenOpened DEF GenOf, Owned
    <2>2. \A e \in tr'.extents : /\ tr'.alloc[e.bucket].type # "none"
                                 /\ e.gen = tr'.alloc[e.bucket].gen
      <3>1. \A c \in Bucket : tr.alloc[c].type # "none"
                                => /\ tr'.alloc[c].type # "none"
                                   /\ tr'.alloc[c].gen = tr.alloc[c].gen
        BY <1>1, <1>2, ZenonT(40)
      <3> QED
        BY <1>3, <2>1, <3>1
    <2>3. OneGen(tr'.extents)
      BY <1>1, GenOpened
    <2> QED
      BY <2>2, <2>3 DEF GenOf, Owned
  <1>5. tr'.freespace = Frees(tr'.alloc)
    <2>1. \A c \in Bucket \ {b} : /\ tr'.alloc[c].type = tr.alloc[c].type
                                  /\ FreespacePos(c, tr'.alloc[c]) = FreespacePos(c, tr.alloc[c])
      BY <1>1, SMTT(30)
    <2>2. Frees(tr'.alloc) = Frees(tr.alloc) \ {FreespacePos(b, tr.alloc[b])}
      BY <1>0, <1>2, <2>1, FreesStep, SMTT(30)
    <2> QED
      BY <1>1, <2>2, GenOpened
  <1>6. Discards(tr'.alloc) = Discards(tr.alloc)
    <2>1. \A c \in Bucket : tr'.alloc[c].type = "need_discard" <=> tr.alloc[c].type = "need_discard"
      BY <1>1, <1>2, ZenonT(40)
    <2> QED
      BY <2>1 DEF Discards
  <1>7. ~rb.torn => \A e \in tr'.extents : tr'.alloc[e.bucket].type = "btree"
    BY <1>1, <1>2, <1>3, GenOpened
  <1>8. ~rb.stale => tr'.needDiscard = Discards(tr'.alloc)
    BY <1>1, <1>6, GenOpened
  <1>9. GenInv' /\ BeforeInv'
    BY <1>4, <1>5, <1>7, <1>8, GenUp, SMTT(30)
  <1> QED
    BY <1>1, <1>2, <1>9, Zenon

(* The removal of an extent.                                                 *)
LEMMA TreeDelete ==
    ASSUME WorkInv, TreeInv, NEW t \in Thread, Delete(t)
    PROVE  TreeInv'
  <1> USE DEF WorkInv, TreeInv
  <1>1. Up /\ UNCHANGED <<rb, mine>>
    BY DEF Delete, Begin, jvars
  <1>2. PICK e \in tr.extents : tr' = Deleted(tr, e)
    BY DEF Delete
  <1> DEFINE b == e.bucket
  <1>3. b \in Bucket /\ \A f \in tr.extents : f.bucket \in Bucket
    BY <1>1, Opened, SMTT(30) DEF Trees, Extent
  <1>4. /\ tr'.extents = tr.extents \ {e}
        /\ tr'.needDiscard = tr.needDiscard /\ tr'.freespace = tr.freespace
        /\ \A c \in Bucket \ {b} : tr'.alloc[c] = tr.alloc[c]
        /\ tr'.alloc[b].type = (IF tr.alloc[b].type = "none" THEN "free" ELSE tr.alloc[b].type)
        /\ tr'.alloc[b].gen = (IF tr.alloc[b].gen = 0 THEN e.gen ELSE tr.alloc[b].gen)
        /\ tr'.alloc[b].oldest = tr.alloc[b].oldest
    BY <1>1, <1>2, Opened, DeletedFields
  <1>5. tr.alloc[b].type # "none" /\ e.gen = tr.alloc[b].gen
    BY <1>1, GenOpened DEF Owned, GenOf
  <1>6. \A c \in Bucket : Like(tr'.alloc[c], tr.alloc[c])
    BY <1>4, <1>5, SMTT(30) DEF Like
  <1> HIDE DEF b
  <1>7. /\ OneGen(tr'.extents) /\ GenOf(tr'.alloc, tr'.extents) /\ Owned(tr')
        /\ ~rb.torn => \A f \in tr'.extents : tr'.alloc[f.bucket].type = "btree"
    BY <1>1, <1>3, <1>4, <1>6, GenOpened, ZenonT(60) DEF OneGen, GenOf, Owned, Like
  <1>8. Frees(tr'.alloc) = Frees(tr.alloc) /\ Discards(tr'.alloc) = Discards(tr.alloc)
    BY <1>6, AllocSame, SMTT(30)
  <1>9. /\ tr'.freespace = Frees(tr'.alloc)
        /\ ~rb.stale => tr'.needDiscard = Discards(tr'.alloc)
    BY <1>1, <1>4, <1>8, GenOpened, SMTT(30)
  <1>10. GenInv' /\ BeforeInv'
    BY <1>1, <1>7, <1>9, GenUp, ZenonT(40)
  <1> QED
    BY <1>1, <1>6, <1>10, KeptSame, SMTT(30)

(* The insertion of an extent: the generation shows that the bucket is still *)
(* the caller's.                                                             *)
LEMMA TreeInsert ==
    ASSUME WorkInv, TreeInv, Generations = {}, NEW t \in Thread, Insert(t)
    PROVE  TreeInv'
  <1> USE DEF WorkInv, TreeInv
  <1>1. Up /\ UNCHANGED <<rb, mine>>
    BY DEF Insert, Begin, jvars
  <1>2. PICK m \in mine[t] \cup (Bucket \X Generations), e \in Extent :
          /\ e.bucket = m[1] /\ e.gen = m[2] /\ m[1] \in Bucket
          /\ \A q \in tr.extents : q.bucket # e.bucket \/ q.slot # e.slot
          /\ MayInsert(tr, e) /\ tr' = Inserted(tr, e)
    BY ExtentInserted, SMTT(30)
  <1> DEFINE b == e.bucket
  <1>3. m \in mine[t] /\ b \in Bucket /\ e.gen \in 0 .. 255
    BY <1>2, SMTT(30) DEF Extent
  <1>4. tr.alloc[b].gen \in 0 .. 255
    BY <1>1, <1>3, Opened, ZenonT(60) DEF Trees, Alloc
  <1>5. tr.alloc[b].gen = e.gen /\ tr.alloc[b].type = "btree"
    <2>1. /\ e.gen <= tr.alloc[b].gen
          /\ e.gen = tr.alloc[b].gen => tr.alloc[b].type = "btree"
      BY <1>1, <1>2, <1>3, ZenonT(60) DEF Kept
    <2>2. tr.alloc[b].gen = 0 \/ tr.alloc[b].gen = e.gen
      BY <1>2 DEF MayInsert
    <2>3. \A x, y \in 0 .. 255 : y <= x /\ (x = 0 \/ x = y) => x = y
      BY SMTT(30)
    <2> HIDE DEF b
    <2>4. tr.alloc[b].gen = e.gen
      BY <1>3, <1>4, <2>1, <2>2, <2>3, ZenonT(60)
    <2> QED
      BY <2>1, <2>4
  <1>6. /\ tr'.extents = tr.extents \cup {e}
        /\ tr'.needDiscard = tr.needDiscard /\ tr'.freespace = tr.freespace
        /\ \A c \in Bucket \ {b} : tr'.alloc[c] = tr.alloc[c]
        /\ tr'.alloc[b].type = (IF tr.alloc[b].type = "none" THEN "free" ELSE tr.alloc[b].type)
        /\ tr'.alloc[b].gen = (IF tr.alloc[b].gen = 0 THEN e.gen ELSE tr.alloc[b].gen)
        /\ tr'.alloc[b].oldest = tr.alloc[b].oldest
    BY <1>1, <1>2, Opened, InsertedFields
  <1>7. \A c \in Bucket : Like(tr'.alloc[c], tr.alloc[c])
    BY <1>5, <1>6, Zenon DEF Like
  <1>8. \A f \in tr.extents : /\ f.bucket \in Bucket /\ tr.alloc[f.bucket].type # "none"
                              /\ f.gen = tr.alloc[f.bucket].gen
    <2>1. \A f \in tr.extents : f.bucket \in Bucket
      BY <1>1, Opened, SMTT(30) DEF Trees, Extent
    <2> QED
      BY <1>1, <2>1, GenOpened, ZenonT(60) DEF Owned, GenOf
  <1>9. \A f \in tr'.extents : /\ f.bucket \in Bucket /\ tr'.alloc[f.bucket].type # "none"
                               /\ f.gen = tr'.alloc[f.bucket].gen
    BY <1>3, <1>5, <1>6, <1>7, <1>8 DEF Like
  <1>10. OneGen(tr'.extents) /\ GenOf(tr'.alloc, tr'.extents) /\ Owned(tr')
    BY <1>9, SMTT(30) DEF OneGen, GenOf, Owned
  <1>11. ~rb.torn => \A f \in tr'.extents : tr'.alloc[f.bucket].type = "btree"
    BY <1>1, <1>3, <1>5, <1>6, <1>7, <1>8, GenOpened, ZenonT(40) DEF Like
  <1>12. Frees(tr'.alloc) = Frees(tr.alloc) /\ Discards(tr'.alloc) = Discards(tr.alloc)
    BY <1>7, AllocSame, ZenonT(60)
  <1>13. /\ tr'.freespace = Frees(tr'.alloc)
         /\ ~rb.stale => tr'.needDiscard = Discards(tr'.alloc)
    BY <1>1, <1>6, <1>12, GenOpened, ZenonT(60)
  <1>14. GenInv' /\ BeforeInv'
    BY <1>1, <1>10, <1>11, <1>13, GenUp, ZenonT(60)
  <1> QED
    BY <1>1, <1>7, <1>14, KeptSame, SMTT(30)

(* A record of a bucket without extents changes, and the indexes with it.    *)
LEMMA TreeRecord ==
    ASSUME WorkInv, TreeInv, Up, NEW b \in Bucket, UNCHANGED rb, tr' \in Trees,
           \A e \in tr.backpointers : e.bucket # b, tr'.extents = tr.extents,
           \A c \in Bucket \ {b} : tr'.alloc[c] = tr.alloc[c],
           tr'.freespace = Frees(tr'.alloc),
           ~rb.stale => tr'.needDiscard = Discards(tr'.alloc)
    PROVE  GenInv' /\ BeforeInv'
  <1> USE DEF WorkInv, TreeInv
  <1>1. \A e \in tr.extents : e.bucket \in Bucket \ {b}
    BY Opened, SMTT(30) DEF Complete, Trees, Extent
  <1>2. \A e \in tr.extents : tr.alloc[e.bucket].type # "none" /\ e.gen = tr.alloc[e.bucket].gen
    BY GenOpened, ZenonT(40) DEF Owned, GenOf
  <1>3. \A e \in tr'.extents : e \in tr.extents /\ tr'.alloc[e.bucket] = tr.alloc[e.bucket]
    BY <1>1
  <1>4. GenOf(tr'.alloc, tr'.extents) /\ Owned(tr')
    BY <1>2, <1>3, SMTT(30) DEF GenOf, Owned
  <1>5. OneGen(tr'.extents)
    BY GenOpened, SMTT(30)
  <1>6. ~rb.torn => \A e \in tr'.extents : tr'.alloc[e.bucket].type = "btree"
    BY <1>3, GenOpened
  <1> QED
    BY <1>4, <1>5, <1>6, GenUp, ZenonT(60)

(* reclaim_bucket: the generation goes up before the bucket is anybody       *)
(* else's.                                                                   *)
LEMMA TreeNeedDiscard ==
    ASSUME WorkInv, TreeInv, Unwrapped, Up, NEW b \in Bucket, UNCHANGED <<rb, mine>>,
           tr' = NeedDiscard(tr, b), \A e \in tr.backpointers : e.bucket # b
    PROVE  TreeInv'
  <1> USE DEF WorkInv, TreeInv
  <1>0. tr \in Trees /\ tr.alloc \in [Bucket -> Alloc]
    BY Opened, SMTT(30) DEF Trees
  <1>1. /\ tr' \in Trees /\ tr'.extents = tr.extents
        /\ tr'.needDiscard = tr.needDiscard \cup {b}
        /\ tr'.freespace = tr.freespace \ {FreespacePos(b, tr.alloc[b])}
        /\ \A c \in Bucket \ {b} : tr'.alloc[c] = tr.alloc[c]
        /\ tr'.alloc[b].type = "need_discard"
        /\ tr'.alloc[b].gen = (tr.alloc[b].gen + 1) % 256
    BY <1>0, NeedDiscardFields
  <1>2. tr'.alloc \in [Bucket -> Alloc]
    BY <1>1 DEF Trees
  <1>3. tr'.freespace = Frees(tr'.alloc)
    <2>1. \A c \in Bucket \ {b} : /\ tr'.alloc[c].type = tr.alloc[c].type
                                  /\ FreespacePos(c, tr'.alloc[c]) = FreespacePos(c, tr.alloc[c])
      BY <1>1, SMTT(30)
    <2>2. Frees(tr'.alloc) = Frees(tr.alloc) \ {FreespacePos(b, tr.alloc[b])}
      BY <1>0, <1>1, <1>2, <2>1, FreesStep
    <2> QED
      BY <1>1, <2>2, GenOpened, SMTT(30)
  <1>4. Discards(tr'.alloc) = Discards(tr.alloc) \cup {b}
    BY <1>1 DEF Discards
  <1>5. ~rb.stale => tr'.needDiscard = Discards(tr'.alloc)
    BY <1>1, <1>4, GenOpened, ZenonT(60)
  <1>6. GenInv' /\ BeforeInv'
    BY <1>1, <1>3, <1>5, TreeRecord, SMTT(30)
  <1>7. tr'.alloc[b].gen = tr.alloc[b].gen + 1 /\ tr.alloc[b].gen \in 0 .. 255
    <2>1. tr.alloc[b].gen \in 0 .. 255 /\ tr.alloc[b].gen < 255
      BY <1>0, ZenonT(40) DEF Alloc, Unwrapped
    <2>2. \A x \in 0 .. 255 : x < 255 => (x + 1) % 256 = x + 1
      BY SMTT(30)
    <2>3. (tr.alloc[b].gen + 1) % 256 = tr.alloc[b].gen + 1
      BY <2>1, <2>2, ZenonT(60)
    <2> QED
      BY <1>1, <2>1, <2>3, ZenonT(60)
  <1>8. Kept'
    <2>1. SUFFICES ASSUME NEW t \in Thread, NEW m \in mine[t]
                   PROVE  /\ m[2] <= tr'.alloc[m[1]].gen
                          /\ m[2] = tr'.alloc[m[1]].gen => tr'.alloc[m[1]].type = "btree"
      BY DEF Kept, Up
    <2>2. m[1] \in Bucket /\ m[2] \in 0 .. 255
      <3>1. mine[t] \subseteq Bucket \X (0 .. 255)
        BY DEF Claims
      <3> QED
        BY <3>1
    <2>3. /\ m[2] <= tr.alloc[m[1]].gen
          /\ m[2] = tr.alloc[m[1]].gen => tr.alloc[m[1]].type = "btree"
      BY SMTT(30) DEF Kept
    <2>4. CASE m[1] = b
      <3>1. \A x, y \in 0 .. 255 : y <= x => y <= x + 1 /\ y # x + 1
        BY SMTT(30)
      <3>2. m[2] <= tr.alloc[b].gen + 1 /\ m[2] # tr.alloc[b].gen + 1
        BY <1>7, <2>2, <2>3, <2>4, <3>1, ZenonT(60)
      <3> QED
        BY <1>7, <2>4, <3>2, ZenonT(40)
    <2>5. CASE m[1] # b
      BY <1>1, <2>2, <2>3, <2>5, ZenonT(60)
    <2> QED
      BY <2>4, <2>5, SMTT(30)
  <1> QED
    BY <1>6, <1>8

\* A finished discard moves a bucket without extents back to the freespace index.
LEMMA TreeFreed ==
    ASSUME WorkInv, TreeInv, Up, NEW b \in Bucket, UNCHANGED <<rb, mine>>,
           tr' = Freed(tr, b), tr.alloc[b].type = "need_discard",
           \A e \in tr.backpointers : e.bucket # b
    PROVE  TreeInv'
  <1> USE DEF WorkInv, TreeInv
  <1>0. tr \in Trees /\ tr.alloc \in [Bucket -> Alloc] /\ tr.alloc[b] \in Alloc
    BY Opened DEF Trees
  <1>1. /\ tr' \in Trees /\ tr'.extents = tr.extents
        /\ tr'.needDiscard = tr.needDiscard \ {b}
        /\ tr'.freespace = tr.freespace \cup {FreespacePos(b, tr.alloc[b])}
        /\ \A c \in Bucket \ {b} : tr'.alloc[c] = tr.alloc[c]
        /\ tr'.alloc[b] = [tr.alloc[b] EXCEPT !.type = "free"]
    BY <1>0, FreedFields, SMTT(30)
  <1>2. /\ tr'.alloc \in [Bucket -> Alloc] /\ tr'.alloc[b].type = "free"
        /\ tr'.alloc[b].gen = tr.alloc[b].gen /\ tr'.alloc[b].oldest = tr.alloc[b].oldest
    BY <1>0, <1>1, ZenonT(60) DEF Trees, Alloc
  <1>3. tr'.freespace = Frees(tr'.alloc)
    <2>1. \A c \in Bucket \ {b} : /\ tr'.alloc[c].type = tr.alloc[c].type
                                  /\ FreespacePos(c, tr'.alloc[c]) = FreespacePos(c, tr.alloc[c])
      BY <1>1
    <2>2. Frees(tr'.alloc) = (Frees(tr.alloc) \ {FreespacePos(b, tr.alloc[b])})
                               \cup {FreespacePos(b, tr'.alloc[b])}
      BY <1>0, <1>2, <2>1, FreesStep
    <2>3. FreespacePos(b, tr'.alloc[b]) = FreespacePos(b, tr.alloc[b])
      BY <1>2 DEF FreespacePos
    <2> QED
      BY <1>1, <2>2, <2>3, GenOpened
  <1>4. Discards(tr'.alloc) = Discards(tr.alloc) \ {b}
    <2>1. \A c \in Bucket : tr'.alloc[c].type = "need_discard"
                              <=> tr.alloc[c].type = "need_discard" /\ c # b
      BY <1>1, <1>2, ZenonT(60)
    <2> QED
      BY <2>1 DEF Discards
  <1>5. ~rb.stale => tr'.needDiscard = Discards(tr'.alloc)
    BY <1>1, <1>4, GenOpened
  <1>6. GenInv' /\ BeforeInv'
    BY <1>1, <1>3, <1>5, TreeRecord
  <1>7. Kept'
    <2>1. SUFFICES ASSUME NEW t \in Thread, NEW m \in mine[t]
                   PROVE  /\ m[2] <= tr'.alloc[m[1]].gen
                          /\ m[2] = tr'.alloc[m[1]].gen => tr'.alloc[m[1]].type = "btree"
      BY DEF Kept, Up
    <2>2. m[1] \in Bucket
      <3>1. mine[t] \subseteq Bucket \X (0 .. 255)
        BY DEF Claims
      <3> QED
        BY <3>1
    <2>3. /\ m[2] <= tr.alloc[m[1]].gen
          /\ m[2] = tr.alloc[m[1]].gen => tr.alloc[m[1]].type = "btree"
      BY SMTT(30) DEF Kept
    <2>4. CASE m[1] = b
      BY <1>2, <2>3, <2>4
    <2>5. CASE m[1] # b
      BY <1>1, <2>2, <2>3, <2>5, SMTT(30)
    <2> QED
      BY <2>4, <2>5, SMTT(30)
  <1> QED
    BY <1>6, <1>7

-----------------------------------------------------------------------------
(* TreeInv is kept with WorkInv.                                             *)
LEMMA TreeSame ==
    ASSUME TreeInv, UNCHANGED <<tr, rb, mine>>
    PROVE  TreeInv'
  <1>1. GenInv'
    BY ZenonT(60) DEF TreeInv, GenInv, Gens, Spaces, Flags, Records
  <1>2. BeforeInv'
    BY ZenonT(40) DEF TreeInv, BeforeInv, Records
  <1>3. Kept'
    BY DEF TreeInv, Kept, Up
  <1> QED
    BY <1>1, <1>2, <1>3, SMTT(30) DEF TreeInv

\* AllocateCommit keeps the trees consistent: the bucket was still free.
LEMMA TreeAllocateCommit ==
    ASSUME WorkInv, TreeInv, NEW t \in Thread, AllocateCommit(t)
    PROVE  TreeInv'
  <1> USE DEF WorkInv, TreeInv
  <1>1. Up /\ UNCHANGED rb
    BY InCall DEF AllocateCommit, jvars
  <1>2. Up'
    BY <1>1 DEF Up
  <1>3. CASE Candidates(tr) = {}
    <2>1. UNCHANGED <<tr, mine>>
      BY <1>3 DEF AllocateCommit
    <2> QED
      BY <1>1, <2>1, TreeSame, SMTT(30)
  <1>4. CASE Candidates(tr) # {}
    <2> DEFINE b == Min(Candidates(tr))
    <2>1. b \in Bucket /\ tr.alloc[b].type = "free"
      BY <1>1, <1>4, Opened, CandidateTaken, SMTT(30)
    <2>2. /\ tr' = Allocated(tr, b)
          /\ mine' = [mine EXCEPT ![t] = @ \cup {<<b, tr.alloc[b].gen>>}]
      BY <1>4, SMTT(30) DEF AllocateCommit
    <2> HIDE DEF b
    <2>3. /\ GenInv' /\ BeforeInv'
          /\ \A c \in Bucket : tr'.alloc[c].gen = tr.alloc[c].gen
          /\ \A c \in Bucket \ {b} : tr'.alloc[c].type = tr.alloc[c].type
          /\ tr'.alloc[b].type = "btree"
      BY <1>1, <2>1, <2>2, TreeAllocated, SMTT(30)
    <2>4. Kept'
      <3>1. SUFFICES ASSUME NEW u \in Thread, NEW m \in mine'[u]
                     PROVE  /\ m[2] <= tr'.alloc[m[1]].gen
                            /\ m[2] = tr'.alloc[m[1]].gen => tr'.alloc[m[1]].type = "btree"
        BY <1>2, SMTT(30) DEF Kept
      <3>2. m \in mine[u] \/ m = <<b, tr.alloc[b].gen>>
        BY <2>2, <3>1, SMTT(30) DEF Claims
      <3>3. CASE m \in mine[u]
        <4>1. m[1] \in Bucket
          <5>1. mine[u] \subseteq Bucket \X (0 .. 255)
            BY DEF Claims
          <5> QED
            BY <3>3, <5>1
        <4>2. /\ m[2] <= tr.alloc[m[1]].gen
              /\ m[2] = tr.alloc[m[1]].gen => tr.alloc[m[1]].type = "btree"
          BY <1>1, <3>3, SMTT(30) DEF Kept
        <4> QED
          BY <2>3, <4>1, <4>2
      <3>4. CASE m = <<b, tr.alloc[b].gen>>
        <4>1. tr.alloc[b].gen \in 0 .. 255
          BY <1>1, <2>1, Opened, ZenonT(60) DEF Trees, Alloc
        <4>2. \A x \in 0 .. 255 : x <= x
          OBVIOUS
        <4> QED
          BY <2>1, <2>3, <3>4, <4>1, <4>2, ZenonT(40)
      <3> QED
        BY <3>2, <3>3, <3>4, SMTT(30)
    <2> QED
      BY <2>3, <2>4, SMTT(30)
  <1> QED
    BY <1>3, <1>4, SMTT(30)

\* ReclaimCommit keeps the trees consistent: the bucket it retires has no extent.
LEMMA TreeReclaimCommit ==
    ASSUME WorkInv, TreeInv, Unwrapped, NEW t \in Thread, ReclaimCommit(t)
    PROVE  TreeInv'
  <1> DEFINE b == job[t].bucket
  <1>1. Up /\ UNCHANGED <<rb, mine>>
    BY InCall, ZenonT(60) DEF ReclaimCommit, WorkInv
  <1>2. b \in Bucket /\ tr' = Reclaimed(tr, b, lastOndisk).tr
    BY JobOf, SMTT(30) DEF ReclaimCommit, Placed, Busy, WorkInv
  <1> HIDE DEF b
  <1>3. \/ tr' = tr
        \/ /\ tr' = NeedDiscard(tr, b)
           /\ \A e \in tr.backpointers : e.bucket # b
        \/ /\ tr' = Freed(tr, b) /\ tr.alloc[b].type = "need_discard"
           /\ \A e \in tr.backpointers : e.bucket # b
    BY <1>2, ReclaimedCases
  <1> QED
    BY <1>1, <1>2, <1>3, TreeSame, TreeNeedDiscard, TreeFreed

\* Crash keeps what is durable.
LEMMA TreeCrash ==
    ASSUME WorkInv, TreeInv, Crash
    PROVE  TreeInv'
  <1>1. Stops(0) /\ mine' = [t \in Thread |-> {}]
    BY DEF Crash
  <1>2. GenInv' /\ BeforeInv'
    BY <1>1, GenStops, SMTT(30) DEF WorkInv, TreeInv
  <1>3. rb'.stage = "down"
    BY <1>1, StopsFields DEF WorkInv, CountInv, Base
  <1>4. Kept'
    BY <1>1, <1>3, SMTT(30) DEF Kept, Up
  <1> QED
    BY <1>2, <1>4 DEF TreeInv

\* Every step of recovery keeps the trees as consistent as its stage promises.
LEMMA TreeRecovery ==
    ASSUME WorkInv, TreeInv, Recovery
    PROVE  TreeInv'
  <1>1. RecoveryStep /\ UNCHANGED mine
    BY DEF Recovery
  <1>2. GenInv' /\ BeforeInv'
    BY <1>1, GenRecovery, SMTT(30) DEF WorkInv, TreeInv
  <1>3. ~Up
    BY <1>1, ZenonT(40) DEF RecoveryStep, OpenImage, ClearAlloc, ClearFreespace, ClearBackpointers,
                RebuildExtents, Restore, RebuildFreespace, CheckOpened, Repair, Verify, Up
  <1>4. \A t \in Thread : mine'[t] = {}
    BY <1>1, <1>3 DEF TreeInv, Kept
  <1>5. Kept'
    BY <1>4 DEF Kept
  <1> QED
    BY <1>2, <1>5 DEF TreeInv

\* Every step keeps the trees consistent.
LEMMA TreeNext ==
    ASSUME Generations = {}, WorkInv, TreeInv, Unwrapped, [Next]_vars
    PROVE  TreeInv'
  <1>1. ASSUME NEW t \in Thread, Call(t) PROVE TreeInv'
    <2>1. CASE Insert(t)
      BY <2>1, TreeInsert
    <2>2. CASE Delete(t)
      BY <2>2, TreeDelete
    <2>3. CASE \/ Allocate(t) \/ OpenBucket(t) \/ CloseBucket(t) \/ SetDeviceRw(t)
               \/ Reclaim(t) \/ Discard(t) \/ QueueDiscard(t) \/ Discover(t)
               \/ RunWorker(t) \/ RunWorkerOnce(t)
      <3>1. UNCHANGED <<tr, rb, mine>>
        BY <2>3 DEF Allocate, OpenBucket, CloseBucket, SetDeviceRw, Reclaim, Discard,
                    QueueDiscard, Discover, RunWorker, RunWorkerOnce, jvars
      <3> QED
        BY <3>1, TreeSame
    <2> QED
      BY <1>1, <2>1, <2>2, <2>3 DEF Call
  <1>2. ASSUME NEW t \in Thread, Step(t) PROVE TreeInv'
    <2>1. CASE AllocateCommit(t)
      BY <2>1, TreeAllocateCommit
    <2>2. CASE ReclaimCommit(t)
      BY <2>2, TreeReclaimCommit, SMTT(30)
    <2>3. CASE \/ ReclaimCheck(t) \/ DiscardCheck(t) \/ DiscoverQueue(t)
               \/ WorkerRound(t) \/ WorkerPop(t) \/ WorkerDefer(t) \/ WorkerDone(t)
      <3>1. UNCHANGED <<tr, rb, mine>>
        BY <2>3 DEF ReclaimCheck, DiscardCheck, DiscoverQueue, WorkerRound, WorkerPop,
                    WorkerDefer, WorkerDone, jvars
      <3> QED
        BY <3>1, TreeSame
    <2> QED
      BY <1>2, <2>1, <2>2, <2>3 DEF Step
  <1>3. CASE JournalAdvance
    BY <1>3, TreeSame DEF JournalAdvance
  <1>4. CASE UNCHANGED vars
    BY <1>4, TreeSame DEF vars, jvars
  <1> QED
    BY <1>1, <1>2, <1>3, <1>4, TreeCrash, TreeRecovery DEF Next

\* The trees of an initial state are consistent.
LEMMA TreeInit ==
    ASSUME Init
    PROVE  TreeInv
  <1>1. PICK a \in Alloc : /\ tr = First(a) /\ a.dirty = 0
                           /\ a = NoAlloc \/ a.type = "need_discard"
    BY FirstFields
  <1>2. /\ tr.extents = {} /\ tr.freespace = {<<b, 0>> : b \in Bucket \ {1}}
        /\ tr.needDiscard = (IF a.type = "none" THEN {} ELSE {1})
        /\ \A b \in Bucket : tr.alloc[b] = IF b = 1 THEN a ELSE FreshFree
        /\ 1 \in Bucket
    BY <1>1, BucketsAssumption DEF First, Bucket
  <1>3. a.type = "none" \/ a.type = "need_discard"
    BY <1>1, FirstRecords, SMTT(30)
  <1>4. Discards(tr.alloc) = tr.needDiscard
    BY <1>2, <1>3, FirstRecords, SMTT(30) DEF Discards
  <1>5. {c \in Bucket : tr.alloc[c].type = "free"} = Bucket \ {1}
    BY <1>2, <1>3, FirstRecords, SMTT(30)
  <1>6. \A b \in Bucket \ {1} : FreespacePos(b, tr.alloc[b]) = <<b, 0>>
    <2>1. ((0 - 0) % 256) \div 16 = 0
      OBVIOUS
    <2> QED
      BY <1>2, <2>1, FirstRecords DEF FreespacePos
  <1>7. Frees(tr.alloc) = tr.freespace
    BY <1>2, <1>5, <1>6 DEF Frees
  <1>8. /\ rb.stage = "up" /\ rb.ret = 0 /\ rb.torn = FALSE /\ rb.stale = FALSE
        /\ mine = [t \in Thread |-> {}]
    BY DEF Init, Fresh
  <1>9. "up" \notin Early /\ Records = tr.alloc
    BY <1>8, SMTT(30) DEF Early, Records
  <1>10. GenInv
    <2>1. Gens
      BY <1>2, <1>4, <1>7, <1>8, <1>9 DEF Gens, OneGen, GenOf, Owned
    <2>2. Spaces
      BY <1>7, <1>8, <1>9 DEF Spaces
    <2>3. Flags
      BY <1>2, <1>4, <1>8, <1>9 DEF Flags
    <2> QED
      BY <2>1, <2>2, <2>3 DEF GenInv
  <1>11. BeforeInv /\ Kept
    BY <1>8 DEF BeforeInv, Kept, Up
  <1> QED
    BY <1>10, <1>11, SMTT(30) DEF TreeInv

-----------------------------------------------------------------------------
\* The invariants imply the property the run checks.
LEMMA ConsistentFromInvariants ==
    ASSUME WorkInv, TreeInv
    PROVE  TreesConsistent
  <1>1. SUFFICES ASSUME Up
                 PROVE  IndexesConsistent /\ (rb.torn \/ NoLiveInReclaimed)
    BY DEF TreesConsistent
  <1>2. DerivedOk(tr)
    BY <1>1, Derives, SMTT(30) DEF WorkInv, TreeInv, Up
  <1>3. tr.freespace = ExpectedFreespace(tr)
    BY <1>1, GenOpened, Indexes, SMTT(30) DEF TreeInv
  <1>4. ~rb.stale => tr.needDiscard = OfType(tr, "need_discard")
    BY <1>1, GenOpened, Indexes, SMTT(30) DEF TreeInv
  <1>5. ~rb.torn => NoLiveInReclaimed
    BY <1>1, GenOpened DEF TreeInv, NoLiveInReclaimed
  <1> QED
    BY <1>2, <1>3, <1>4, <1>5 DEF IndexesConsistent, BucketIndexesOk

(* While callers use the buckets they allocated, and no generation is about  *)
(* to wrap, the trees agree after every operation and after every recovery,  *)
(* however the threads interleave and wherever the process dies: what        *)
(* verify_bucket_indexes and verify_derived_state check holds, and no extent *)
(* lives in a bucket that is free or waits for its discard.                  *)
THEOREM TreesAreConsistent ==
    ASSUME Generations = {}
    PROVE  Spec /\ []Unwrapped => []TreesConsistent
  <1>1. WorkInv /\ TreeInv => TreesConsistent
    BY ConsistentFromInvariants
  <1>2. Init => WorkInv /\ TreeInv
    BY WorkInit, TreeInit
  <1>3. WorkInv /\ TreeInv /\ Unwrapped /\ [Next]_vars => (WorkInv /\ TreeInv)'
    BY WorkNext, TreeNext
  <1> QED
    BY <1>1, <1>2, <1>3, PTL DEF Spec

(* Under the same conditions opening an image is invisible: the trees after  *)
(* rebuild_derived_state are those the engine had when it stopped, unless a  *)
(* crash fell into the window in which the alloc records are in memory only, *)
(* and no open and no fsck fails.                                            *)
THEOREM RebuildIsExact ==
    ASSUME Generations = {}
    PROVE  Spec /\ []Unwrapped => []RebuildExact
  <1>1. WorkInv /\ TreeInv => RebuildExact
    BY ExactFromInvariants DEF WorkInv, TreeInv
  <1>2. Init => WorkInv /\ TreeInv
    BY WorkInit, TreeInit
  <1>3. WorkInv /\ TreeInv /\ Unwrapped /\ [Next]_vars => (WorkInv /\ TreeInv)'
    BY WorkNext, TreeNext
  <1> QED
    BY <1>1, <1>2, <1>3, PTL DEF Spec
=============================================================================
