------------------------- MODULE DerivedStateProofs -------------------------
(***************************************************************************)
(* The allocation trees under recovery: what every step of an open, of a   *)
(* repair and of a crash keeps, for any number of buckets and slots and    *)
(* any number of crashes.  BucketWorkProofs and BucketLifecycleProofs add  *)
(* the operations of the open engine.                                      *)
(*                                                                         *)
(* The argument has two layers.  CountInv is about records and counts: the *)
(* dirty count of a record is the number of its extents, or of those       *)
(* derived so far.  GenInv is about generations and data types, and rests  *)
(* on CountInv: Records are the alloc records the engine has or will have  *)
(* again, which a rebuild keeps in memory while the alloc tree is cleared. *)
(***************************************************************************)
EXTENDS DerivedState, FiniteSetTheorems, NaturalsInduction, WellFoundedInduction, TLAPS

Trees == [alloc : [Bucket -> Alloc], freespace : SUBSET (Bucket \X Int),
          needDiscard : SUBSET Bucket, backpointers : SUBSET Extent,
          extents : SUBSET Extent]

(* The stages in which the records are in rb.kept, and those in which the    *)
(* derived trees are complete.                                               *)
Early == {"alloc", "freespace", "backpointers", "extents", "restore"}
Whole == {"restore", "index", "check", "repair", "up"}

Process == [stage : Early \cup Whole \cup {"down"}, kept : [Bucket -> Alloc],
            at : Nat \ {0}, fsck : BOOLEAN, ret : Int, before : Trees,
            torn : BOOLEAN, stale : BOOLEAN]

(* The extents of S in bucket b.                                             *)
In(S, b) == {e \in S : e.bucket = b}

(* Two extents of the tree have different keys.                              *)
Apart(S) == \A e, f \in S : e.bucket = f.bucket /\ e.slot = f.slot => e = f

Counted(alloc, S) == \A b \in Bucket : alloc[b].dirty = Cardinality(In(S, b))

(* A bucket without a record has nothing, and one without extents no count.  *)
Blank(alloc) == \A b \in Bucket : alloc[b].type = "none" => alloc[b] = NoAlloc
Empty(alloc, S) == \A b \in Bucket : In(S, b) = {} => alloc[b].dirty = 0

(* A record derived from the extents in S alone.                             *)
Rebuilt(a, S, b) == IF In(S, b) = {} THEN a = NoAlloc ELSE a.type = "free"

(* Trees that any crash may leave, and trees whose derivation is complete.   *)
Base(t) ==
    /\ t \in Trees /\ IsFiniteSet(t.extents) /\ Apart(t.extents)
    /\ t.backpointers \subseteq t.extents
    /\ Blank(t.alloc) /\ Empty(t.alloc, t.extents)

Complete(t) == t.backpointers = t.extents /\ Counted(t.alloc, t.extents)

CountInv ==
    /\ Base(tr) /\ rb \in Process
    /\ rb.stage \in Early => Blank(rb.kept) /\ Empty(rb.kept, tr.extents)
    /\ rb.stage \in Whole => Complete(tr)
    /\ rb.stage = "alloc" => \A b \in Bucket : tr.alloc[b] \in {rb.kept[b], NoAlloc}
    /\ rb.stage \in {"freespace", "backpointers"} => \A b \in Bucket : tr.alloc[b] = NoAlloc
    /\ rb.stage = "extents" =>
         /\ Counted(tr.alloc, tr.backpointers)
         /\ \A b \in Bucket : Rebuilt(tr.alloc[b], tr.backpointers, b)
    /\ rb.stage = "restore" =>
         \A b \in Bucket : b >= rb.at \/ rb.kept[b].type = "none"
                             => Rebuilt(tr.alloc[b], tr.extents, b)

-----------------------------------------------------------------------------
Records == IF rb.stage \in Early THEN rb.kept ELSE tr.alloc

(* The extents of a bucket have one generation, that of its record.          *)
OneGen(S) == \A e, f \in S : e.bucket = f.bucket => e.gen = f.gen
GenOf(alloc, S) == \A e \in S : alloc[e.bucket].type # "none" => e.gen = alloc[e.bucket].gen

Owned(t) == \A e \in t.extents : t.alloc[e.bucket].type # "none"

Discards(alloc) == {b \in Bucket : alloc[b].type = "need_discard"}
Frees(alloc) == {FreespacePos(b, alloc[b]) : b \in {c \in Bucket : alloc[c].type = "free"}}

(* Two records that differ at most in the sequence that emptied the bucket.  *)
Like(a, o) == a.type = o.type /\ a.gen = o.gen /\ a.oldest = o.oldest

Gens ==
    /\ OneGen(tr.extents) /\ GenOf(tr.alloc, tr.extents)
    /\ rb.stage \in Early => GenOf(rb.kept, tr.extents)
    /\ rb.stage = "extents" => \A e \in tr.backpointers : e.gen = tr.alloc[e.bucket].gen
    /\ rb.stage \in Whole => Owned(tr)

(* The freespace index, and how far the restore is.                          *)
Spaces ==
    /\ rb.stage \in {"up", "check", "repair"} => tr.freespace = Frees(tr.alloc)
    /\ rb.stage = "index" => tr.freespace \subseteq Frees(tr.alloc)
    /\ rb.stage \in {"backpointers", "extents", "restore"} => tr.freespace = {}
    /\ rb.stage \in Early \ {"restore"} => rb.at = 1
    /\ rb.stage = "restore" =>
         \A b \in Bucket : b < rb.at /\ rb.kept[b].type # "none"
                             => Like(tr.alloc[b], rb.kept[b])

(* No open fails; what holds unless a crash has torn the records.            *)
Flags ==
    /\ rb.ret = 0 /\ (rb.stale => rb.torn)
    /\ ~rb.stale => tr.needDiscard = Discards(Records)
    /\ ~rb.torn => \A e \in tr.extents : Records[e.bucket].type = "btree"

GenInv == Gens /\ Spaces /\ Flags

(* The trees when the engine last stopped, as seen from a later open.        *)
BeforeInv ==
    rb.stage # "up" /\ ~rb.torn =>
      /\ tr.extents = rb.before.extents /\ tr.needDiscard = rb.before.needDiscard
      /\ rb.before.backpointers = rb.before.extents
      /\ rb.before.freespace = Frees(rb.before.alloc)
      /\ Counted(rb.before.alloc, rb.before.extents)
      /\ \A b \in Bucket : Like(Records[b], rb.before.alloc[b])

-----------------------------------------------------------------------------
(* Lemmas about the operators.                                               *)

(* A restored record has the old one's type and generations.                 *)
LEMMA RestoredFields ==
    ASSUME NEW old \in Alloc, NEW new \in Alloc
    PROVE  LET v == Restored(old, new)
           IN  /\ v \in Alloc /\ v.type = old.type
               /\ v.dirty = IF new.type = "none" THEN old.dirty ELSE new.dirty
  <1>1. CASE new.type = "none"
    BY <1>1 DEF Restored
  <1>2. CASE new.type # "none"
    <2> DEFINE v == [new EXCEPT !.type = old.type, !.gen = old.gen, !.oldest = old.oldest]
    <2>1. v \in Alloc /\ v.type = old.type /\ v.dirty = new.dirty
      BY ZenonT(40) DEF Alloc
    <2>2. Restored(old, new) = v
      BY <1>2 DEF Restored
    <2> HIDE DEF v
    <2> QED
      BY <1>2, <2>1, <2>2
  <1> QED
    BY <1>1, <1>2

(* Records that agree but for the sequence that emptied the bucket.          *)
LEMMA LikeRecords ==
    ASSUME NEW a \in Alloc, NEW o \in Alloc, Like(a, o), a.dirty = o.dirty
    PROVE  [a EXCEPT !.seqEmpty = 0] = [o EXCEPT !.seqEmpty = 0]
  <1> DEFINE Rec(t, g, l, d) == [type |-> t, gen |-> g, oldest |-> l, dirty |-> d, seqEmpty |-> 0]
  <1>1. \A r \in Alloc : [r EXCEPT !.seqEmpty = 0] = Rec(r.type, r.gen, r.oldest, r.dirty)
    BY DEF Alloc
  <1> HIDE DEF Rec
  <1> QED
    BY <1>1 DEF Like

(* The number of extents of a bucket grows and shrinks by one.               *)
LEMMA InAdd ==
    ASSUME NEW S, IsFiniteSet(S), NEW e, e \notin S, NEW b
    PROVE  /\ IsFiniteSet(In(S, b)) /\ IsFiniteSet(S \cup {e})
           /\ Cardinality(In(S, b)) \in Nat
           /\ In(S \cup {e}, b) = IF e.bucket = b THEN In(S, b) \cup {e} ELSE In(S, b)
           /\ e.bucket = b => Cardinality(In(S \cup {e}, b)) = Cardinality(In(S, b)) + 1
           /\ e.bucket # b => Cardinality(In(S \cup {e}, b)) = Cardinality(In(S, b))
  <1>1. In(S, b) \subseteq S /\ e \notin In(S, b)
    BY DEF In
  <1>2. IsFiniteSet(In(S, b)) /\ IsFiniteSet(S \cup {e})
    BY <1>1, FS_Subset, FS_AddElement
  <1>3. Cardinality(In(S, b)) \in Nat
    BY <1>2, FS_CardinalityType
  <1>4. In(S \cup {e}, b) = IF e.bucket = b THEN In(S, b) \cup {e} ELSE In(S, b)
    BY DEF In
  <1>5. Cardinality(In(S, b) \cup {e}) = Cardinality(In(S, b)) + 1
    BY <1>1, <1>2, FS_AddElement, Zenon
  <1> QED
    BY <1>2, <1>3, <1>4, <1>5

\* Removing one entry lowers the count of its own bucket by one and no other.
LEMMA InRemove ==
    ASSUME NEW S, IsFiniteSet(S), NEW e \in S, NEW b
    PROVE  /\ IsFiniteSet(In(S, b)) /\ IsFiniteSet(S \ {e})
           /\ Cardinality(In(S, b)) \in Nat
           /\ In(S \ {e}, b) = In(S, b) \ {e}
           /\ e.bucket = b => Cardinality(In(S \ {e}, b)) = Cardinality(In(S, b)) - 1
           /\ e.bucket # b => Cardinality(In(S \ {e}, b)) = Cardinality(In(S, b))
  <1>1. In(S, b) \subseteq S /\ (e \in In(S, b) <=> e.bucket = b)
    BY DEF In
  <1>2. IsFiniteSet(In(S, b)) /\ IsFiniteSet(S \ {e})
    BY <1>1, FS_Subset, FS_RemoveElement
  <1>3. Cardinality(In(S, b)) \in Nat
    BY <1>2, FS_CardinalityType
  <1>4. In(S \ {e}, b) = In(S, b) \ {e}
    BY DEF In
  <1>5. Cardinality(In(S, b) \ {e}) =
          IF e \in In(S, b) THEN Cardinality(In(S, b)) - 1 ELSE Cardinality(In(S, b))
    BY <1>2, FS_RemoveElement, Zenon
  <1> QED
    BY <1>1, <1>2, <1>3, <1>4, <1>5, Zenon

(* A bucket has no more extents than sectors: dirty fits its type.           *)
LEMMA InBound ==
    ASSUME NEW S \in SUBSET Extent, IsFiniteSet(S), Apart(S), NEW b \in Bucket
    PROVE  Cardinality(In(S, b)) \in 0 .. Slots
  <1> DEFINE f == [e \in In(S, b) |-> e.slot]
  <1>1. IsFiniteSet(In(S, b)) /\ Cardinality(In(S, b)) \in Nat
    BY FS_Subset, FS_CardinalityType DEF In
  <1>2. f \in [In(S, b) -> 1 .. Slots]
    BY DEF In, Extent
  <1>3. \A x, y \in In(S, b) : x # y => f[x] # f[y]
    BY DEF In, Apart
  <1>4. IsFiniteSet(1 .. Slots) /\ Cardinality(1 .. Slots) = Slots
    BY BucketsAssumption, FS_Interval
  <1>5. ~(Cardinality(1 .. Slots) < Cardinality(In(S, b)))
    <2> HIDE DEF f
    <2> QED BY <1>1, <1>2, <1>3, <1>4, FS_PigeonHole, ZenonT(40)
  <1> QED
    BY <1>1, <1>4, <1>5, BucketsAssumption

\* A bucket counts no entry when it has none.
LEMMA NoneIn ==
    ASSUME NEW S, IsFiniteSet(S), NEW b
    PROVE  Cardinality(In(S, b)) = 0 <=> In(S, b) = {}
  <1>1. IsFiniteSet(In(S, b))
    BY FS_Subset DEF In
  <1> QED
    BY <1>1, FS_EmptySet

(* allocate_bucket takes the first candidate, which there is.                *)
LEMMA MinIn ==
    ASSUME NEW S \in SUBSET Nat, S # {}
    PROVE  Min(S) \in S
  <1> DEFINE R == {ss \in Nat \X Nat : ss[1] < ss[2]}
  <1>1. IsWellFoundedOn(R, Nat)
    BY NatLessThanWellFounded, Zenon DEF OpToRel
  <1>2. PICK x \in S : \A y \in S : <<y, x>> \notin R
    <2> HIDE DEF R
    <2> QED BY <1>1, WFMin, Zenon
  <1>3. \A y \in S : x <= y
    <2>1. SUFFICES ASSUME NEW y \in S, ~(x <= y) PROVE FALSE
      OBVIOUS
    <2>2. x \in Nat /\ y \in Nat /\ y < x
      BY <2>1
    <2>3. <<y, x>> \in R
      BY <2>2
    <2> QED
      BY <1>2, <2>3
  <1> QED
    BY <1>3, Zenon DEF Min

-----------------------------------------------------------------------------
(* The position of a bucket in the freespace index names the bucket, and is  *)
(* a function of the two generations.                                        *)
LEMMA PosOf ==
    ASSUME NEW b \in Bucket, NEW a \in Alloc
    PROVE  /\ FreespacePos(b, a) \in Bucket \X Int /\ FreespacePos(b, a)[1] = b
           /\ \A o : o.gen = a.gen /\ o.oldest = a.oldest
                      => FreespacePos(b, o) = FreespacePos(b, a)
  <1>0. a.gen \in 0 .. 255 /\ a.oldest \in 0 .. 255
    BY DEF Alloc
  <1>1. \A x, y \in 0 .. 255 : ((x - y) % 256) \div 16 \in Int
    OBVIOUS
  <1>2. ((a.gen - a.oldest) % 256) \div 16 \in Int
    BY <1>0, <1>1, ZenonT(40)
  <1> QED
    BY <1>2 DEF FreespacePos

(* What the freespace index has to be when one record changes.               *)
LEMMA FreesStep ==
    ASSUME NEW p \in [Bucket -> Alloc], NEW q \in [Bucket -> Alloc], NEW b \in Bucket,
           \A c \in Bucket \ {b} : q[c].type = p[c].type /\ FreespacePos(c, q[c]) = FreespacePos(c, p[c])
    PROVE  /\ q[b].type # "free" => Frees(q) = Frees(p) \ {FreespacePos(b, p[b])}
           /\ q[b].type = "free" =>
                Frees(q) = (Frees(p) \ {FreespacePos(b, p[b])}) \cup {FreespacePos(b, q[b])}
  <1>1. \A c \in Bucket : FreespacePos(c, p[c])[1] = c /\ FreespacePos(c, q[c])[1] = c
    BY PosOf
  <1> QED
    BY <1>1 DEF Frees

-----------------------------------------------------------------------------
(* The transactions of the open engine, field by field.                      *)

(* A transaction writes one record and some of the other trees.              *)
Tree(A, F, N, B, E) == [alloc |-> A, freespace |-> F, needDiscard |-> N,
                        backpointers |-> B, extents |-> E]

\* What an allocation changes in the trees: the type of one bucket and its
\* freespace entry.
LEMMA AllocatedFields ==
    ASSUME NEW t \in Trees, NEW b \in Bucket, NEW u, u = Allocated(t, b)
    PROVE  /\ u \in Trees /\ u.extents = t.extents /\ u.backpointers = t.backpointers
           /\ u.needDiscard = t.needDiscard
           /\ u.freespace = t.freespace \ {FreespacePos(b, t.alloc[b])}
           /\ \A c \in Bucket \ {b} : u.alloc[c] = t.alloc[c]
           /\ u.alloc[b] = [t.alloc[b] EXCEPT !.type = "btree"]
  <1> DEFINE v == [t.alloc[b] EXCEPT !.type = "btree"]
             F == t.freespace \ {FreespacePos(b, t.alloc[b])}
  <1>1. v \in Alloc /\ F \in SUBSET (Bucket \X Int)
    BY DEF Trees, Alloc
  <1>2. u = Tree([t.alloc EXCEPT ![b] = v], F, t.needDiscard, t.backpointers, t.extents)
    BY Zenon DEF Allocated, Tree, Trees
  <1> HIDE DEF v, F
  <1>3. t.needDiscard \in SUBSET Bucket /\ t.backpointers \in SUBSET Extent
        /\ t.extents \in SUBSET Extent
    BY DEF Trees
  <1>4. /\ u \in Trees /\ u.freespace = F /\ u.needDiscard = t.needDiscard
        /\ u.backpointers = t.backpointers /\ u.extents = t.extents
        /\ u.alloc[b] = v /\ \A c \in Bucket \ {b} : u.alloc[c] = t.alloc[c]
    BY <1>1, <1>2, <1>3 DEF Tree, Trees
  <1> QED
    BY <1>4 DEF v, F

\* What a reclaim changes: the bucket waits for its discard under the next
\* generation.
LEMMA NeedDiscardFields ==
    ASSUME NEW t \in Trees, NEW b \in Bucket, NEW u, u = NeedDiscard(t, b)
    PROVE  /\ u \in Trees /\ u.extents = t.extents /\ u.backpointers = t.backpointers
           /\ u.needDiscard = t.needDiscard \cup {b}
           /\ u.freespace = t.freespace \ {FreespacePos(b, t.alloc[b])}
           /\ \A c \in Bucket \ {b} : u.alloc[c] = t.alloc[c]
           /\ u.alloc[b].type = "need_discard" /\ u.alloc[b].dirty = t.alloc[b].dirty
           /\ u.alloc[b].gen = (t.alloc[b].gen + 1) % 256
  <1> DEFINE a == t.alloc[b]
             o == IF a.oldest = a.gen THEN (a.oldest + 1) % 256 ELSE a.oldest
             g == (a.gen + 1) % 256
             v == [a EXCEPT !.type = "need_discard", !.oldest = o, !.gen = g]
             F == t.freespace \ {FreespacePos(b, a)}
             N == t.needDiscard \cup {b}
  <1>1. a \in Alloc
    BY SMTT(30) DEF Trees
  <1>2. a.gen \in 0 .. 255 /\ a.oldest \in 0 .. 255
    BY <1>1, ZenonT(60) DEF Alloc
  <1>3. \A x \in 0 .. 255 : (x + 1) % 256 \in 0 .. 255
    OBVIOUS
  <1>4. o \in 0 .. 255 /\ g \in 0 .. 255
    BY <1>2, <1>3, ZenonT(40)
  <1>5. v \in Alloc /\ v.type = "need_discard" /\ v.dirty = a.dirty /\ v.gen = g
    <2> HIDE DEF o, g
    <2> QED BY <1>1, <1>4, ZenonT(40) DEF Alloc
  <1>6. F \in SUBSET (Bucket \X Int) /\ N \in SUBSET Bucket
        /\ t.backpointers \in SUBSET Extent /\ t.extents \in SUBSET Extent
    BY DEF Trees
  <1>7. u = Tree([t.alloc EXCEPT ![b] = v], F, N, t.backpointers, t.extents)
    BY ZenonT(40) DEF NeedDiscard, Tree, Trees
  <1> HIDE DEF v, F, N
  <1>8. /\ u \in Trees /\ u.freespace = F /\ u.needDiscard = N
        /\ u.backpointers = t.backpointers /\ u.extents = t.extents
        /\ u.alloc[b] = v /\ \A c \in Bucket \ {b} : u.alloc[c] = t.alloc[c]
    BY <1>5, <1>6, <1>7 DEF Tree, Trees
  <1> QED
    BY <1>5, <1>8 DEF F, N

\* What a finished discard changes: the bucket is free and listed again.
LEMMA FreedFields ==
    ASSUME NEW t \in Trees, NEW b \in Bucket, NEW u, u = Freed(t, b)
    PROVE  /\ u \in Trees /\ u.extents = t.extents /\ u.backpointers = t.backpointers
           /\ u.needDiscard = t.needDiscard \ {b}
           /\ u.freespace = t.freespace \cup {FreespacePos(b, t.alloc[b])}
           /\ \A c \in Bucket \ {b} : u.alloc[c] = t.alloc[c]
           /\ u.alloc[b] = [t.alloc[b] EXCEPT !.type = "free"]
  <1> DEFINE v == [t.alloc[b] EXCEPT !.type = "free"]
             F == t.freespace \cup {FreespacePos(b, t.alloc[b])}
             N == t.needDiscard \ {b}
  <1>1. v \in Alloc /\ t.alloc[b] \in Alloc
    <2>1. t.alloc[b] \in Alloc
      BY DEF Trees
    <2>2. \A a \in Alloc : [a EXCEPT !.type = "free"] \in Alloc
      BY Zenon DEF Alloc
    <2> QED
      BY <2>1, <2>2
  <1>2. F \in SUBSET (Bucket \X Int) /\ N \in SUBSET Bucket
        /\ t.backpointers \in SUBSET Extent /\ t.extents \in SUBSET Extent
    BY <1>1, PosOf DEF Trees
  <1>3. u = Tree([t.alloc EXCEPT ![b] = v], F, N, t.backpointers, t.extents)
    BY Zenon DEF Freed, Tree, Trees
  <1> HIDE DEF v, F, N
  <1>4. /\ u \in Trees /\ u.freespace = F /\ u.needDiscard = N
        /\ u.backpointers = t.backpointers /\ u.extents = t.extents
        /\ u.alloc[b] = v /\ \A c \in Bucket \ {b} : u.alloc[c] = t.alloc[c]
    BY <1>1, <1>2, <1>3 DEF Tree, Trees
  <1> QED
    BY <1>4 DEF v, F, N

(* bch2_trigger_extent counts the extent and takes its generation if the     *)
(* record has none.                                                          *)
LEMMA DerivedFields ==
    ASSUME NEW t \in Trees, NEW e \in Extent, NEW u, u = DerivedFrom(t, e),
           e \notin t.backpointers, IsFiniteSet(t.backpointers),
           Apart(t.backpointers \cup {e}), Counted(t.alloc, t.backpointers)
    PROVE  /\ u \in Trees /\ u.extents = t.extents /\ u.needDiscard = t.needDiscard
           /\ u.freespace = t.freespace
           /\ u.backpointers = t.backpointers \cup {e}
           /\ \A c \in Bucket \ {e.bucket} : u.alloc[c] = t.alloc[c]
           /\ LET a == t.alloc[e.bucket]
                  v == u.alloc[e.bucket]
              IN  /\ v.type = (IF a.type = "none" THEN "free" ELSE a.type)
                  /\ v.gen = (IF a.gen = 0 THEN e.gen ELSE a.gen)
                  /\ v.oldest = a.oldest /\ v.dirty = a.dirty + 1
           /\ Counted(u.alloc, u.backpointers)
  <1> DEFINE b == e.bucket
             a == t.alloc[b]
             v == [a EXCEPT !.type = IF a.type = "none" THEN "free" ELSE a.type,
                            !.gen = IF a.gen = 0 THEN e.gen ELSE a.gen,
                            !.dirty = a.dirty + 1]
             B == t.backpointers \cup {e}
  <1>1. a \in Alloc /\ b \in Bucket /\ e.gen \in 0 .. 255
    BY DEF Trees, Extent
  <1>2. \A c \in Bucket : Cardinality(In(B, c)) = t.alloc[c].dirty + (IF c = b THEN 1 ELSE 0)
    <2> SUFFICES ASSUME NEW c \in Bucket
                 PROVE  Cardinality(In(B, c)) = t.alloc[c].dirty + (IF c = b THEN 1 ELSE 0)
      OBVIOUS
    <2>1. t.alloc[c].dirty = Cardinality(In(t.backpointers, c))
      BY DEF Counted
    <2>2. ASSUME b = c PROVE Cardinality(In(B, c)) = Cardinality(In(t.backpointers, c)) + 1
      BY <2>2, InAdd, Zenon
    <2>3. ASSUME b # c PROVE Cardinality(In(B, c)) = Cardinality(In(t.backpointers, c))
      BY <2>3, InAdd, ZenonT(40)
    <2>4. Cardinality(In(t.backpointers, c)) \in Nat
      BY InAdd, Zenon
    <2> QED
      BY <2>1, <2>2, <2>3, <2>4
  <1>3. a.dirty + 1 \in 0 .. Slots
    <2>1. IsFiniteSet(B) /\ B \in SUBSET Extent
      BY FS_AddElement DEF Trees
    <2>2. Cardinality(In(B, b)) \in 0 .. Slots
      BY <1>1, <2>1, InBound
    <2> QED
      BY <1>1, <1>2, <2>2, Zenon
  <1>4. /\ v \in Alloc /\ v.dirty = a.dirty + 1 /\ v.oldest = a.oldest
        /\ v.type = (IF a.type = "none" THEN "free" ELSE a.type)
        /\ v.gen = (IF a.gen = 0 THEN e.gen ELSE a.gen)
    <2> DEFINE y == IF a.type = "none" THEN "free" ELSE a.type
               g == IF a.gen = 0 THEN e.gen ELSE a.gen
               d == a.dirty + 1
    <2>1. y \in {"none", "free", "btree", "need_discard"} /\ g \in 0 .. 255 /\ d \in 0 .. Slots
      BY <1>1, <1>3, ZenonT(40) DEF Alloc
    <2>2. v = [a EXCEPT !.type = y, !.gen = g, !.dirty = d]
      OBVIOUS
    <2> HIDE DEF y, g, d, v, a, b
    <2>3. v \in Alloc /\ v.dirty = d /\ v.oldest = a.oldest /\ v.type = y /\ v.gen = g
      BY <1>1, <2>1, <2>2, ZenonT(60) DEF Alloc
    <2> QED
      BY <2>3 DEF y, g, d, a, b
  <1>5. {q \in t.backpointers : q.bucket # e.bucket \/ q.slot # e.slot} \cup {e} = B
    BY DEF Apart
  <1>6. u = Tree([t.alloc EXCEPT ![b] = v], t.freespace, t.needDiscard, B, t.extents)
    <2>1. [Record(a) EXCEPT !.gen = IF @ = 0 THEN e.gen ELSE @, !.dirty = @ + 1] = v
      BY <1>1, ZenonT(40) DEF Record, Alloc
    <2> HIDE DEF v, B
    <2> QED
      BY <2>1, <1>5, Zenon DEF DerivedFrom, Tree, Trees
  <1>7. B \in SUBSET Extent /\ t.extents \in SUBSET Extent
        /\ t.freespace \in SUBSET (Bucket \X Int) /\ t.needDiscard \in SUBSET Bucket
    BY DEF Trees
  <1>8. /\ u \in Trees /\ u.backpointers = B
        /\ u.extents = t.extents /\ u.needDiscard = t.needDiscard /\ u.freespace = t.freespace
        /\ u.alloc[b] = v /\ \A c \in Bucket \ {b} : u.alloc[c] = t.alloc[c]
    <2> HIDE DEF v, B
    <2> QED BY <1>1, <1>4, <1>6, <1>7 DEF Tree, Trees
  <1>9. Counted(u.alloc, u.backpointers)
    <2> SUFFICES ASSUME NEW c \in Bucket
                 PROVE  u.alloc[c].dirty = Cardinality(In(B, c))
      BY <1>8 DEF Counted
    <2>1. CASE c = b
      <3> HIDE DEF v, B
      <3> QED BY <1>2, <1>4, <1>8, <2>1
    <2>2. CASE c # b
      <3>1. t.alloc[c].dirty \in Nat
        BY DEF Trees, Alloc
      <3> HIDE DEF v, B
      <3> QED BY <1>2, <1>8, <2>2, <3>1
    <2> QED
      BY <2>1, <2>2
  <1> HIDE DEF v
  <1> QED
    BY <1>4, <1>8, <1>9

(* The insertion of an extent whose key is not in the tree.                  *)
LEMMA InsertedFields ==
    ASSUME NEW t, Base(t), Complete(t), NEW e \in Extent, NEW u, u = Inserted(t, e),
           \A q \in t.extents : q.bucket # e.bucket \/ q.slot # e.slot
    PROVE  /\ Base(u) /\ Complete(u)
           /\ u.extents = t.extents \cup {e}
           /\ u.needDiscard = t.needDiscard /\ u.freespace = t.freespace
           /\ \A c \in Bucket \ {e.bucket} : u.alloc[c] = t.alloc[c]
           /\ LET a == t.alloc[e.bucket]
                  v == u.alloc[e.bucket]
              IN  /\ v.type = (IF a.type = "none" THEN "free" ELSE a.type)
                  /\ v.gen = (IF a.gen = 0 THEN e.gen ELSE a.gen)
                  /\ v.oldest = a.oldest
  <1> DEFINE w == DerivedFrom(t, e)
  <1>1. /\ t \in Trees /\ IsFiniteSet(t.extents) /\ Apart(t.extents)
        /\ t.backpointers = t.extents /\ Counted(t.alloc, t.extents) /\ Blank(t.alloc)
    BY DEF Base, Complete
  <1>2. e \notin t.extents /\ e.bucket \in Bucket
    BY DEF Extent
  <1>3. Apart(t.extents \cup {e})
    BY <1>1 DEF Apart
  <1>4. /\ w \in Trees /\ w.extents = t.extents /\ w.needDiscard = t.needDiscard
        /\ w.freespace = t.freespace
        /\ w.backpointers = t.extents \cup {e}
        /\ \A c \in Bucket \ {e.bucket} : w.alloc[c] = t.alloc[c]
        /\ LET a == t.alloc[e.bucket]
               v == w.alloc[e.bucket]
           IN  /\ v.type = (IF a.type = "none" THEN "free" ELSE a.type)
               /\ v.gen = (IF a.gen = 0 THEN e.gen ELSE a.gen)
               /\ v.oldest = a.oldest /\ v.dirty = a.dirty + 1
        /\ Counted(w.alloc, w.backpointers)
    <2> HIDE DEF w
    <2>1. w = DerivedFrom(t, e)
      BY DEF w
    <2> QED BY <1>1, <1>2, <1>3, <2>1, DerivedFields
  <1>5. u = [w EXCEPT !.extents = w.extents \cup {e}]
    BY DEF Inserted
  <1> HIDE DEF w
  <1>6. /\ u \in Trees /\ u.extents = t.extents \cup {e} /\ u.backpointers = u.extents
        /\ u.needDiscard = t.needDiscard /\ u.freespace = t.freespace /\ u.alloc = w.alloc
    BY <1>4, <1>5 DEF Trees
  <1>7. Counted(u.alloc, u.extents)
    BY <1>4, <1>6
  <1>8. IsFiniteSet(u.extents)
    BY <1>1, <1>6, FS_AddElement
  <1>9. Blank(u.alloc)
    <2> SUFFICES ASSUME NEW c \in Bucket, u.alloc[c].type = "none"
                 PROVE  u.alloc[c] = NoAlloc
      BY DEF Blank
    <2> QED
      BY <1>1, <1>4, <1>6 DEF Blank
  <1>10. Empty(u.alloc, u.extents)
    BY <1>7, <1>8, NoneIn DEF Empty, Counted
  <1> QED
    BY <1>3, <1>4, <1>6, <1>7, <1>8, <1>9, <1>10 DEF Base, Complete

(* The removal of an extent.                                                 *)
LEMMA DeletedFields ==
    ASSUME NEW t, Base(t), Complete(t), NEW e \in t.extents, NEW u, u = Deleted(t, e)
    PROVE  /\ Base(u) /\ Complete(u)
           /\ u.extents = t.extents \ {e}
           /\ u.needDiscard = t.needDiscard /\ u.freespace = t.freespace
           /\ \A c \in Bucket \ {e.bucket} : u.alloc[c] = t.alloc[c]
           /\ LET a == t.alloc[e.bucket]
                  v == u.alloc[e.bucket]
              IN  /\ v.type = (IF a.type = "none" THEN "free" ELSE a.type)
                  /\ v.gen = (IF a.gen = 0 THEN e.gen ELSE a.gen)
                  /\ v.oldest = a.oldest
  <1> DEFINE b == e.bucket
             a == t.alloc[b]
             y == IF a.type = "none" THEN "free" ELSE a.type
             g == IF a.gen = 0 THEN e.gen ELSE a.gen
             d == a.dirty - 1
             v == [a EXCEPT !.type = y, !.gen = g, !.dirty = d]
             E == t.extents \ {e}
  <1>1. /\ t \in Trees /\ IsFiniteSet(t.extents) /\ Apart(t.extents)
        /\ t.backpointers = t.extents /\ Counted(t.alloc, t.extents) /\ Blank(t.alloc)
    BY DEF Base, Complete
  <1>2. a \in Alloc /\ b \in Bucket /\ e.gen \in 0 .. 255 /\ E \in SUBSET Extent
    BY <1>1 DEF Trees, Extent
  <1>3. Cardinality(In(E, b)) = a.dirty - 1
    <2>1. a.dirty = Cardinality(In(t.extents, b))
      BY <1>1, <1>2 DEF Counted
    <2>2. Cardinality(In(E, b)) = Cardinality(In(t.extents, b)) - 1
      BY <1>1, InRemove, ZenonT(40)
    <2> QED BY <2>1, <2>2
  <1>4. ASSUME NEW c \in Bucket, c # b PROVE Cardinality(In(E, c)) = t.alloc[c].dirty
    <2>1. t.alloc[c].dirty = Cardinality(In(t.extents, c))
      BY <1>1 DEF Counted
    <2>2. Cardinality(In(E, c)) = Cardinality(In(t.extents, c))
      BY <1>1, <1>4, InRemove, ZenonT(40)
    <2> QED BY <2>1, <2>2
  <1>5. IsFiniteSet(E) /\ Apart(E)
    BY <1>1, FS_RemoveElement DEF Apart
  <1>6. Cardinality(In(E, b)) \in 0 .. Slots
    <2> HIDE DEF E, b
    <2> QED BY <1>2, <1>5, InBound, SMTT(30)
  <1>7. y \in {"none", "free", "btree", "need_discard"} /\ g \in 0 .. 255 /\ d \in 0 .. Slots
    BY <1>2, <1>3, <1>6, ZenonT(40) DEF Alloc
  <1>8. v \in Alloc /\ v.dirty = d /\ v.oldest = a.oldest /\ v.type = y /\ v.gen = g
    <2> HIDE DEF y, g, d, a, b
    <2> QED BY <1>2, <1>7, ZenonT(60) DEF Alloc
  <1>9. {q \in t.extents : q.bucket # e.bucket \/ q.slot # e.slot} = E
    BY <1>1 DEF Apart
  <1>10. u = Tree([t.alloc EXCEPT ![b] = v], t.freespace, t.needDiscard, E, E)
    <2>1. [Record(a) EXCEPT !.gen = IF @ = 0 THEN e.gen ELSE @, !.dirty = @ - 1] = v
      BY <1>2, ZenonT(40) DEF Record, Alloc
    <2> HIDE DEF v
    <2> QED
      BY <1>1, <1>9, <2>1, Zenon DEF Deleted, Tree, Trees
  <1>11. t.freespace \in SUBSET (Bucket \X Int) /\ t.needDiscard \in SUBSET Bucket
    BY <1>1 DEF Trees
  <1>12. /\ u \in Trees /\ u.backpointers = E /\ u.extents = E
         /\ u.needDiscard = t.needDiscard /\ u.freespace = t.freespace
         /\ u.alloc[b] = v /\ \A c \in Bucket \ {b} : u.alloc[c] = t.alloc[c]
    <2> HIDE DEF v, E
    <2> QED BY <1>1, <1>2, <1>8, <1>10, <1>11 DEF Tree, Trees
  <1>13. Counted(u.alloc, u.extents)
    <2> SUFFICES ASSUME NEW c \in Bucket
                 PROVE  u.alloc[c].dirty = Cardinality(In(E, c))
      BY <1>12 DEF Counted
    <2> HIDE DEF v, E, a, b
    <2>1. CASE c = b
      BY <1>3, <1>8, <1>12, <2>1 DEF d
    <2>2. CASE c # b
      BY <1>4, <1>12, <2>2
    <2> QED
      BY <2>1, <2>2
  <1>14. Blank(u.alloc)
    <2> SUFFICES ASSUME NEW c \in Bucket, u.alloc[c].type = "none"
                 PROVE  u.alloc[c] = NoAlloc
      BY DEF Blank
    <2> HIDE DEF v
    <2> QED
      BY <1>1, <1>8, <1>12 DEF Blank
  <1>15. Empty(u.alloc, u.extents)
    <2> HIDE DEF E
    <2> QED BY <1>5, <1>12, <1>13, NoneIn DEF Empty, Counted
  <1> HIDE DEF v, E
  <1>16. Base(u) /\ Complete(u)
    BY <1>5, <1>12, <1>13, <1>14, <1>15 DEF Base, Complete
  <1> QED
    BY <1>8, <1>12, <1>16 DEF E

(* A change of types and generations alone keeps the counts.                 *)
LEMMA RecordStep ==
    ASSUME NEW t, Base(t), Complete(t), NEW u \in Trees,
           u.extents = t.extents, u.backpointers = t.backpointers,
           \A c \in Bucket : /\ u.alloc[c].dirty = t.alloc[c].dirty
                             /\ u.alloc[c].type = "none" => u.alloc[c] = t.alloc[c]
    PROVE  Base(u) /\ Complete(u)
  BY DEF Base, Complete, Counted, Blank, Empty

-----------------------------------------------------------------------------
(* The process record, field by field.                                       *)
Stage == Early \cup Whole \cup {"down"}

\* A step that only moves recovery to its next stage.
LEMMA GoesFields ==
    ASSUME rb \in Process, NEW s \in Stage, Goes(s)
    PROVE  /\ rb' \in Process /\ rb'.stage = s /\ rb'.kept = rb.kept /\ rb'.at = rb.at
           /\ rb'.fsck = rb.fsck /\ rb'.ret = rb.ret /\ rb'.before = rb.before
           /\ rb'.torn = rb.torn /\ rb'.stale = rb.stale
  <1> HIDE DEF Trees
  <1> QED BY DEF Goes, Process, Stage

\* A recovery that gives up leaves the trees as they are and remembers what it
\* had exposed.
LEMMA StopsFields ==
    ASSUME rb \in Process, tr \in Trees, NEW r \in Int, Stops(r)
    PROVE  /\ rb' \in Process /\ rb'.stage = "down" /\ rb'.ret = r /\ tr' = tr
           /\ rb'.before = (IF Up THEN tr ELSE rb.before)
           /\ rb'.torn = (rb.torn \/ Exposed) /\ rb'.stale = (rb.stale \/ Exposed)
  <1> DEFINE p == IF Up THEN tr ELSE rb.before
             x == rb.torn \/ Exposed
             y == rb.stale \/ Exposed
  <1>1. p \in Trees /\ x \in BOOLEAN /\ y \in BOOLEAN
    BY DEF Process, Exposed
  <1>2. rb' = [rb EXCEPT !.stage = "down", !.ret = r, !.before = p, !.torn = x, !.stale = y]
        /\ tr' = tr
    BY DEF Stops
  <1> HIDE DEF p, x, y
  <1>3. /\ rb' \in Process /\ rb'.stage = "down" /\ rb'.ret = r /\ rb'.before = p
        /\ rb'.torn = x /\ rb'.stale = y
    BY <1>1, <1>2, Zenon DEF Process
  <1> QED
    BY <1>2, <1>3 DEF p, x, y

-----------------------------------------------------------------------------
(* CountInv is kept by every step of an open or a repair.                    *)

(* All that a process that ends leaves is Base.                              *)
LEMMA CountStops ==
    ASSUME CountInv, NEW r \in Int, Stops(r)
    PROVE  CountInv'
  <1>1. rb' \in Process /\ rb'.stage = "down" /\ tr' = tr
    BY StopsFields DEF CountInv, Base
  <1>2. Base(tr')
    BY <1>1 DEF CountInv
  <1> QED
    BY <1>1, <1>2 DEF CountInv, Early, Whole

\* OpenImage finds the counts as the last run left them.
LEMMA CountOpenImage ==
    ASSUME CountInv, NEW f \in BOOLEAN, OpenImage(f)
    PROVE  CountInv'
  <1>1. tr' = tr /\ rb \in Process /\ tr \in Trees
    BY DEF OpenImage, CountInv, Base
  <1>2. rb' \in Process /\ rb'.stage = "alloc" /\ rb'.kept = tr.alloc
    <2>1. tr.alloc \in [Bucket -> Alloc] /\ 1 \in Nat \ {0}
      BY <1>1 DEF Trees
    <2> QED
      BY <1>1, <2>1, Zenon DEF OpenImage, Process, Early
  <1>3. Base(tr') /\ Blank(rb'.kept) /\ Empty(rb'.kept, tr'.extents)
    BY <1>1, <1>2 DEF CountInv, Base
  <1> QED
    BY <1>1, <1>2, <1>3 DEF CountInv, Early, Whole

\* ClearAlloc empties the alloc tree one bucket at a time; the rebuilt counts are
\* still to come.
LEMMA CountClearAlloc ==
    ASSUME CountInv, ClearAlloc
    PROVE  CountInv'
  <1> DEFINE left == Bucket \ OfType(tr, "none")
  <1>0. rb \in Process /\ tr \in Trees /\ rb.stage = "alloc"
    BY DEF ClearAlloc, CountInv, Base
  <1>1. CASE left = {} /\ Goes("freespace") /\ UNCHANGED tr
    <2>1. rb' \in Process /\ rb'.stage = "freespace" /\ rb'.kept = rb.kept
      BY <1>0, <1>1, GoesFields DEF Stage, Early
    <2>2. \A b \in Bucket : tr.alloc[b] = NoAlloc
      BY <1>1 DEF CountInv, Base, Blank, OfType
    <2> QED
      BY <1>0, <1>1, <2>1, <2>2 DEF CountInv, Early, Whole
  <1>2. CASE UNCHANGED rb /\ tr' = [tr EXCEPT !.alloc[Min(left)] = NoAlloc]
    <2>1. NoAlloc \in Alloc /\ NoAlloc.type = "none" /\ NoAlloc.dirty = 0
      BY BucketsAssumption DEF NoAlloc, Alloc
    <2>2. /\ tr' \in Trees /\ tr'.extents = tr.extents /\ tr'.backpointers = tr.backpointers
          /\ \A c \in Bucket : tr'.alloc[c] = IF c = Min(left) THEN NoAlloc ELSE tr.alloc[c]
      <3> DEFINE m == Min(left)
      <3>1. tr' = [tr EXCEPT !.alloc[m] = NoAlloc]
        BY <1>2
      <3> HIDE DEF m
      <3>2. /\ tr' \in Trees /\ tr'.extents = tr.extents /\ tr'.backpointers = tr.backpointers
            /\ \A c \in Bucket : tr'.alloc[c] = IF c = m THEN NoAlloc ELSE tr.alloc[c]
        BY <1>0, <2>1, <3>1 DEF Trees
      <3> QED BY <3>2 DEF m
    <2>3. \A c \in Bucket : tr'.alloc[c] \in {tr.alloc[c], NoAlloc}
      BY <2>2
    <2>4. Base(tr')
      BY <2>1, <2>2, <2>3 DEF CountInv, Base, Blank, Empty
    <2>5. \A c \in Bucket : tr'.alloc[c] \in {rb'.kept[c], NoAlloc}
      BY <1>0, <1>2, <2>3 DEF CountInv
    <2> QED
      BY <1>0, <1>2, <2>2, <2>4, <2>5 DEF CountInv, Early, Whole
  <1> QED
    BY <1>1, <1>2 DEF ClearAlloc

\* ClearFreespace touches no count.
LEMMA CountClearFreespace ==
    ASSUME CountInv, ClearFreespace
    PROVE  CountInv'
  <1>0. rb \in Process /\ tr \in Trees /\ rb.stage = "freespace"
    BY DEF ClearFreespace, CountInv, Base
  <1>1. CASE Goes("backpointers") /\ UNCHANGED tr
    <2>1. rb' \in Process /\ rb'.stage = "backpointers" /\ rb'.kept = rb.kept
      BY <1>0, <1>1, GoesFields DEF Stage, Early
    <2> QED
      BY <1>0, <1>1, <2>1 DEF CountInv, Early, Whole
  <1>2. CASE UNCHANGED rb /\ \E p \in tr.freespace : tr' = [tr EXCEPT !.freespace = @ \ {p}]
    <2>1. /\ tr' \in Trees /\ tr'.extents = tr.extents /\ tr'.backpointers = tr.backpointers
          /\ tr'.alloc = tr.alloc
      BY <1>0, <1>2 DEF Trees
    <2>2. Base(tr')
      BY <2>1 DEF CountInv, Base
    <2> QED
      BY <1>0, <1>2, <2>1, <2>2 DEF CountInv, Early, Whole
  <1> QED
    BY <1>1, <1>2 DEF ClearFreespace

\* ClearBackpointers removes backpointers whose extents restore them later.
LEMMA CountClearBackpointers ==
    ASSUME CountInv, ClearBackpointers
    PROVE  CountInv'
  <1>0. rb \in Process /\ tr \in Trees /\ rb.stage = "backpointers"
    BY DEF ClearBackpointers, CountInv, Base
  <1>1. CASE tr.backpointers = {} /\ Goes("extents") /\ UNCHANGED tr
    <2>1. rb' \in Process /\ rb'.stage = "extents" /\ rb'.kept = rb.kept
      BY <1>0, <1>1, GoesFields DEF Stage, Early
    <2>2. \A b \in Bucket : In(tr.backpointers, b) = {} /\ tr.alloc[b] = NoAlloc
      BY <1>0, <1>1 DEF CountInv, In
    <2>3. Counted(tr.alloc, tr.backpointers)
      BY <2>2, FS_EmptySet DEF Counted, NoAlloc
    <2>4. \A b \in Bucket : Rebuilt(tr.alloc[b], tr.backpointers, b)
      BY <2>2 DEF Rebuilt
    <2> QED
      BY <1>0, <1>1, <2>1, <2>3, <2>4 DEF CountInv, Early, Whole
  <1>2. CASE UNCHANGED rb /\ \E e \in tr.backpointers : tr' = [tr EXCEPT !.backpointers = @ \ {e}]
    <2>1. /\ tr' \in Trees /\ tr'.extents = tr.extents
          /\ tr'.backpointers \subseteq tr.backpointers /\ tr'.alloc = tr.alloc
      BY <1>0, <1>2 DEF Trees
    <2>2. Base(tr')
      BY <2>1 DEF CountInv, Base
    <2> QED
      BY <1>0, <1>2, <2>1, <2>2 DEF CountInv, Early, Whole
  <1> QED
    BY <1>1, <1>2 DEF ClearBackpointers

(* An error cannot happen halfway: the trees are those before the key, or    *)
(* the extent is counted.                                                    *)
LEMMA CountRebuildExtents ==
    ASSUME CountInv, RebuildExtents
    PROVE  CountInv'
  <1>0. rb \in Process /\ tr \in Trees /\ rb.stage = "extents"
    BY DEF RebuildExtents, CountInv, Base
  <1>1. CASE tr.extents \ tr.backpointers = {} /\ Goes("restore") /\ UNCHANGED tr
    <2>1. rb' \in Process /\ rb'.stage = "restore" /\ rb'.kept = rb.kept
      BY <1>0, <1>1, GoesFields DEF Stage, Early
    <2>2. tr.backpointers = tr.extents
      BY <1>1 DEF CountInv, Base
    <2>3. Complete(tr) /\ \A b \in Bucket : Rebuilt(tr.alloc[b], tr.extents, b)
      BY <1>0, <2>2 DEF CountInv, Complete
    <2> QED
      BY <1>0, <1>1, <2>1, <2>3 DEF CountInv, Early, Whole
  <1>2. CASE \E e \in tr.extents \ tr.backpointers : bch2_rebuild_derived_for_key(e)
    <2>1. PICK e \in tr.extents \ tr.backpointers : bch2_rebuild_derived_for_key(e)
      BY <1>2
    <2>2. CASE tr' = DerivedFrom(tr, e) /\ UNCHANGED rb
      <3>1. /\ e \in Extent /\ IsFiniteSet(tr.backpointers) /\ Apart(tr.extents)
            /\ tr.backpointers \subseteq tr.extents /\ IsFiniteSet(tr.extents)
            /\ Blank(tr.alloc) /\ Empty(tr.alloc, tr.extents)
        BY FS_Subset DEF CountInv, Base, Trees
      <3>2. Apart(tr.backpointers \cup {e})
        BY <3>1 DEF Apart
      <3>3. Counted(tr.alloc, tr.backpointers)
            /\ \A b \in Bucket : Rebuilt(tr.alloc[b], tr.backpointers, b)
        BY <1>0 DEF CountInv
      <3>4. /\ tr' \in Trees /\ tr'.extents = tr.extents
            /\ tr'.backpointers = tr.backpointers \cup {e}
            /\ \A c \in Bucket \ {e.bucket} : tr'.alloc[c] = tr.alloc[c]
            /\ tr'.alloc[e.bucket].type = (IF tr.alloc[e.bucket].type = "none" THEN "free"
                                           ELSE tr.alloc[e.bucket].type)
            /\ Counted(tr'.alloc, tr'.backpointers)
        BY <1>0, <2>2, <3>1, <3>2, <3>3, DerivedFields
      <3>5. e.bucket \in Bucket /\ tr'.alloc[e.bucket].type = "free"
        BY <3>1, <3>3, <3>4 DEF Rebuilt, Extent, NoAlloc
      <3>6. ASSUME NEW c \in Bucket PROVE Rebuilt(tr'.alloc[c], tr'.backpointers, c)
        <4>1. CASE c = e.bucket
          BY <3>4, <3>5, <4>1 DEF Rebuilt, In
        <4>2. CASE c # e.bucket
          <5>1. In(tr'.backpointers, c) = In(tr.backpointers, c)
            BY <3>4, <4>2 DEF In
          <5> QED
            BY <3>3, <3>4, <4>2, <5>1 DEF Rebuilt
        <4> QED
          BY <4>1, <4>2
      <3>7. Blank(tr'.alloc)
        BY <3>1, <3>4, <3>5 DEF Blank
      <3>8. Empty(tr'.alloc, tr'.extents)
        <4> SUFFICES ASSUME NEW c \in Bucket, In(tr.extents, c) = {}
                     PROVE  tr'.alloc[c].dirty = 0
          BY <3>4 DEF Empty
        <4>1. c # e.bucket
          BY DEF In
        <4> QED
          BY <3>1, <3>4, <4>1 DEF Empty
      <3>9. Base(tr')
        BY <3>1, <3>4, <3>7, <3>8 DEF Base
      <3> QED
        BY <1>0, <2>2, <3>4, <3>6, <3>9 DEF CountInv, Early, Whole
    <2>3. CASE Stops(-1)
      BY <2>3, CountStops
    <2> QED
      BY <2>1, <2>2, <2>3 DEF bch2_rebuild_derived_for_key
  <1> QED
    BY <1>1, <1>2 DEF RebuildExtents

\* Restore brings back one extent's backpointer and counts it in its bucket.
LEMMA CountRestore ==
    ASSUME CountInv, Restore
    PROVE  CountInv'
  <1> DEFINE b == rb.at
             old == rb.kept[b]
  <1>0. /\ rb \in Process /\ tr \in Trees /\ rb.stage = "restore" /\ b \in Nat \ {0}
        /\ Base(tr) /\ Complete(tr) /\ Blank(rb.kept) /\ Empty(rb.kept, tr.extents)
        /\ \A c \in Bucket : c >= b \/ rb.kept[c].type = "none"
                             => Rebuilt(tr.alloc[c], tr.extents, c)
    BY DEF Restore, CountInv, Base, Process, Early, Whole
  <1>1. CASE Goes("index") /\ UNCHANGED tr
    <2>1. rb' \in Process /\ rb'.stage = "index"
      BY <1>0, <1>1, GoesFields DEF Stage, Whole
    <2> QED
      BY <1>0, <1>1, <2>1 DEF CountInv, Early, Whole
  <1>2. CASE /\ ~(b > NrBuckets) /\ rb' = [rb EXCEPT !.at = b + 1]
             /\ tr' = IF old.type = "none" THEN tr ELSE [tr EXCEPT !.alloc[b] = Restored(old, @)]
    <2>1. rb' \in Process /\ rb'.stage = "restore" /\ rb'.kept = rb.kept /\ rb'.at = b + 1
      BY <1>0, <1>2 DEF Process
    <2>2. CASE old.type = "none"
      <3>1. tr' = tr
        BY <1>2, <2>2
      <3>2. \A c \in Bucket : c >= b + 1 => c >= b
        BY <1>0 DEF Bucket
      <3> QED
        BY <1>0, <2>1, <3>1, <3>2 DEF CountInv, Early, Whole
    <2>3. CASE old.type # "none" /\ b \in Bucket
      <3> DEFINE new == tr.alloc[b]
                 v == Restored(old, new)
      <3>1. old \in Alloc /\ new \in Alloc
        BY <1>0, <2>3 DEF Process, Trees
      <3>2. v \in Alloc /\ v.type = old.type
            /\ v.dirty = (IF new.type = "none" THEN old.dirty ELSE new.dirty)
        BY <3>1, RestoredFields
      <3>3. /\ tr' \in Trees /\ tr'.extents = tr.extents /\ tr'.backpointers = tr.backpointers
            /\ tr'.alloc[b] = v /\ \A c \in Bucket \ {b} : tr'.alloc[c] = tr.alloc[c]
        <4>1. tr' = [tr EXCEPT !.alloc[b] = v]
          BY <1>2, <2>3
        <4> HIDE DEF v
        <4> QED BY <1>0, <2>3, <3>2, <4>1 DEF Trees
      <3> HIDE DEF v
      <3>4. v.dirty = new.dirty
        <4>1. CASE new.type = "none"
          <5>1. Rebuilt(new, tr.extents, b)
            BY <1>0, <2>3 DEF Bucket
          <5>2. In(tr.extents, b) = {} /\ new.dirty = 0
            BY <4>1, <5>1 DEF Rebuilt, NoAlloc
          <5>3. old.dirty = 0
            BY <1>0, <2>3, <5>2 DEF Empty
          <5> QED
            BY <3>2, <4>1, <5>2, <5>3
        <4>2. CASE new.type # "none"
          BY <3>2, <4>2
        <4> QED
          BY <4>1, <4>2
      <3>5. \A c \in Bucket : /\ tr'.alloc[c].dirty = tr.alloc[c].dirty
                              /\ tr'.alloc[c].type = "none" => tr'.alloc[c] = tr.alloc[c]
        BY <2>3, <3>2, <3>3, <3>4
      <3>6. Base(tr') /\ Complete(tr')
        BY <1>0, <3>3, <3>5, RecordStep
      <3>7. ASSUME NEW c \in Bucket, c >= b + 1 \/ rb.kept[c].type = "none"
            PROVE  Rebuilt(tr'.alloc[c], tr'.extents, c)
        <4>1. c # b /\ (c >= b \/ rb.kept[c].type = "none")
          BY <1>0, <2>3, <3>7 DEF Bucket
        <4> QED
          BY <1>0, <3>3, <4>1
      <3> QED
        BY <1>0, <2>1, <3>3, <3>6, <3>7 DEF CountInv, Early, Whole
    <2>4. b \in Bucket \/ old.type = "none"
      BY <1>0, <1>2, BucketsAssumption DEF Bucket
    <2> QED
      BY <2>2, <2>3, <2>4
  <1> QED
    BY <1>1, <1>2 DEF Restore

(* After the restore the counts are final: the steps that follow write only  *)
(* the freespace and need_discard indexes.                                   *)
LEMMA CountIndex ==
    ASSUME CountInv, rb.stage \in {"index", "check", "repair", "up"},
           tr' \in Trees, tr'.alloc = tr.alloc, tr'.extents = tr.extents,
           tr'.backpointers = tr.backpointers, rb' \in Process,
           rb'.stage \in {"index", "check", "repair", "up", "down"}
    PROVE  CountInv'
  <1>1. Base(tr') /\ Complete(tr')
    BY DEF CountInv, Base, Complete, Whole
  <1> QED
    BY <1>1 DEF CountInv, Early, Whole

\* RebuildFreespace adds one expected entry, or finds all of them and goes on.
LEMMA RebuildFreespaceFields ==
    ASSUME rb \in Process, tr \in Trees, RebuildFreespace
    PROVE  /\ tr' \in Trees /\ tr'.alloc = tr.alloc /\ tr'.extents = tr.extents
           /\ tr'.backpointers = tr.backpointers /\ tr'.needDiscard = tr.needDiscard
           /\ \/ UNCHANGED tr /\ ExpectedFreespace(tr) \subseteq tr.freespace /\ Goes("check")
              \/ UNCHANGED rb /\ \E p \in ExpectedFreespace(tr) :
                                    tr'.freespace = tr.freespace \cup {p}
  <1>1. CASE UNCHANGED tr /\ ExpectedFreespace(tr) \ tr.freespace = {} /\ Goes("check")
    BY <1>1
  <1>2. CASE \E p \in ExpectedFreespace(tr) \ tr.freespace :
               tr' = [tr EXCEPT !.freespace = @ \cup {p}] /\ UNCHANGED rb
    <2>1. PICK p \in ExpectedFreespace(tr) : tr' = [tr EXCEPT !.freespace = @ \cup {p}]
      BY <1>2
    <2>2. p \in Bucket \X Int
      BY PosOf DEF ExpectedFreespace, OfType, Trees
    <2> QED
      BY <1>2, <2>1, <2>2 DEF Trees
  <1> QED
    BY <1>1, <1>2 DEF RebuildFreespace

\* CheckOpened reads the trees only; it repairs or comes up.
LEMMA CheckOpenedFields ==
    ASSUME rb \in Process, tr \in Trees, CheckOpened, DerivedOk(tr)
    PROVE  /\ UNCHANGED tr /\ rb' \in Process
           /\ rb'.stage \in {"repair", "up"} /\ rb'.before \in {rb.before, tr}
           /\ rb'.stage = "repair" => rb'.before = rb.before /\ rb'.ret = rb.ret
           /\ rb'.stage = "up" => rb'.ret = 0
           /\ rb'.torn = rb.torn /\ rb'.stale = rb.stale
  <1>1. CASE Goes("repair") /\ UNCHANGED tr
    <2>1. "repair" \in Stage
      BY DEF Stage, Whole
    <2> QED BY <1>1, <2>1, GoesFields
  <1>2. CASE rb' = [Fresh(tr) EXCEPT !.torn = rb.torn, !.stale = rb.stale] /\ UNCHANGED tr
    <2>1. rb' = [stage |-> "up", kept |-> tr.alloc, at |-> 1, fsck |-> FALSE, ret |-> 0,
                 before |-> tr, torn |-> rb.torn, stale |-> rb.stale]
      BY <1>2, Zenon DEF Fresh
    <2>2. tr.alloc \in [Bucket -> Alloc] /\ rb.torn \in BOOLEAN /\ rb.stale \in BOOLEAN
      BY DEF Trees, Process
    <2>3. "up" \in Early \cup Whole \cup {"down"} /\ 1 \in Nat \ {0}
      BY DEF Whole
    <2>4. rb' \in Process
      BY <2>1, <2>2, <2>3 DEF Process
    <2>5. /\ rb'.stage = "up" /\ rb'.before = tr /\ rb'.ret = 0
          /\ rb'.torn = rb.torn /\ rb'.stale = rb.stale
      BY <2>1
    <2> QED
      BY <1>2, <2>4, <2>5
  <1> QED
    BY <1>1, <1>2 DEF CheckOpened

\* Repair writes index entries and no extent, backpointer or alloc key.
LEMMA RepairFields ==
    ASSUME tr \in Trees, Repair
    PROVE  /\ tr' \in Trees /\ tr'.alloc = tr.alloc /\ tr'.extents = tr.extents
           /\ tr'.backpointers = tr.backpointers /\ UNCHANGED rb
  <1>1. CASE \E p \in tr.freespace : tr' = [tr EXCEPT !.freespace = @ \ {p}]
    BY <1>1 DEF Trees, Repair
  <1>2. CASE \E p \in ExpectedFreespace(tr) : tr' = [tr EXCEPT !.freespace = @ \cup {p}]
    <2>1. \A p \in ExpectedFreespace(tr) : p \in Bucket \X Int
      BY PosOf DEF ExpectedFreespace, OfType, Trees
    <2> QED
      BY <1>2, <2>1 DEF Trees, Repair
  <1>3. CASE \E b \in tr.needDiscard : tr' = [tr EXCEPT !.needDiscard = @ \ {b}]
    BY <1>3 DEF Trees, Repair
  <1>4. CASE \E b \in Bucket : tr' = [tr EXCEPT !.needDiscard = @ \cup {b}]
    BY <1>4 DEF Trees, Repair
  <1>5. tr' \in NextRepair(tr)
    BY DEF Repair
  <1> QED
    BY <1>1, <1>2, <1>3, <1>4, <1>5 DEF NextRepair, OfType

\* Verify reads the trees only; its result is what both checks say.
LEMMA VerifyFields ==
    ASSUME rb \in Process, Verify
    PROVE  /\ UNCHANGED tr /\ rb' \in Process /\ rb'.stage = "down" /\ ~rb'.stale
           /\ rb'.ret = (IF DerivedOk(tr) /\ BucketIndexesOk(tr) THEN 0 ELSE -1)
           /\ rb'.torn = rb.torn /\ rb'.before = rb.before
  <1> DEFINE r == IF DerivedOk(tr) /\ BucketIndexesOk(tr) THEN 0 ELSE -1
  <1>1. r \in Int /\ UNCHANGED tr
        /\ rb' = [rb EXCEPT !.stage = "down", !.stale = FALSE, !.ret = r]
    BY DEF Verify
  <1> HIDE DEF r
  <1>2. /\ rb' \in Process /\ rb'.stage = "down" /\ ~rb'.stale /\ rb'.ret = r
        /\ rb'.torn = rb.torn /\ rb'.before = rb.before
    BY <1>1, Zenon DEF Process
  <1> QED
    BY <1>1, <1>2 DEF r

(* The counts agree with the extents in every state of an open or a repair,  *)
(* whatever the extents are and wherever the process dies.                   *)
LEMMA CountRecovery ==
    ASSUME CountInv, RecoveryStep
    PROVE  CountInv'
  <1>0. rb \in Process /\ tr \in Trees
    BY DEF CountInv, Base
  <1>1. CASE RebuildFreespace
    <2>1. rb.stage = "index" /\ (Goes("check") \/ UNCHANGED rb)
      BY <1>0, <1>1, RebuildFreespaceFields DEF RebuildFreespace
    <2>2. rb' \in Process /\ rb'.stage \in {"index", "check"}
      BY <1>0, <2>1, GoesFields DEF Stage, Whole
    <2> QED
      BY <1>0, <1>1, <2>1, <2>2, RebuildFreespaceFields, CountIndex
  <1>2. CASE CheckOpened
    <2>1. rb.stage = "check"
      BY <1>2 DEF CheckOpened
    <2>2. CASE ~DerivedOk(tr)
      BY <1>2, <2>2, CountStops DEF CheckOpened
    <2>3. CASE DerivedOk(tr)
      BY <1>0, <1>2, <2>1, <2>3, CheckOpenedFields, CountIndex
    <2> QED
      BY <2>2, <2>3
  <1>3. CASE Repair
    <2>1. rb.stage = "repair"
      BY <1>3 DEF Repair
    <2> QED
      BY <1>0, <1>3, <2>1, RepairFields, CountIndex
  <1>4. CASE Verify
    <2>1. rb.stage = "repair"
      BY <1>4 DEF Verify
    <2> QED
      BY <1>0, <1>4, <2>1, VerifyFields, CountIndex
  <1> QED
    BY <1>1, <1>2, <1>3, <1>4, CountOpenImage, CountClearAlloc, CountClearFreespace,
       CountClearBackpointers, CountRebuildExtents, CountRestore DEF RecoveryStep

-----------------------------------------------------------------------------
(* GenInv and BeforeInv are kept by every step of an open or a repair.       *)

LEMMA Indexes ==
    ASSUME NEW t
    PROVE  /\ ExpectedFreespace(t) = Frees(t.alloc)
           /\ OfType(t, "need_discard") = Discards(t.alloc)
  BY DEF ExpectedFreespace, OfType, Frees, Discards

(* A step of the rebuild that leaves the records, the extents and the discard *)
(* queue alone keeps what is known of the trees before the crash.             *)
LEMMA BeforeSame ==
    ASSUME BeforeInv, rb.stage # "up", rb'.before = rb.before, rb'.torn = rb.torn,
           tr'.extents = tr.extents, tr'.needDiscard = tr.needDiscard, Records' = Records
    PROVE  BeforeInv'
  BY DEF BeforeInv

(* Outside the window of a rebuild the alloc tree has the records.           *)
LEMMA GenStops ==
    ASSUME CountInv, GenInv, BeforeInv, Stops(0)
    PROVE  GenInv' /\ BeforeInv'
  <1>1. rb \in Process /\ tr \in Trees
    BY DEF CountInv, Base
  <1>2. /\ rb'.stage = "down" /\ rb'.ret = 0 /\ tr' = tr
        /\ rb'.before = (IF Up THEN tr ELSE rb.before)
        /\ rb'.torn = (rb.torn \/ Exposed) /\ rb'.stale = (rb.stale \/ Exposed)
    BY <1>1, StopsFields
  <1>3. ~Exposed => Records = tr.alloc
    BY DEF Exposed, Records, Early
  <1>4. Records' = tr.alloc
    BY <1>2 DEF Records, Early
  <1>5. GenInv'
    <2>1. (rb.stale => rb.torn) /\ OneGen(tr.extents) /\ GenOf(tr.alloc, tr.extents)
      BY DEF GenInv, Gens, Spaces, Flags
    <2>2. rb'.stale => rb'.torn
      BY <1>2, <2>1, ZenonT(40)
    <2>3. ~rb'.stale => tr'.needDiscard = Discards(Records')
      BY <1>2, <1>3, <1>4, Zenon DEF GenInv, Gens, Spaces, Flags
    <2>4. ~rb'.torn => \A e \in tr'.extents : Records'[e.bucket].type = "btree"
      BY <1>2, <1>3, <1>4, Zenon DEF GenInv, Gens, Spaces, Flags
    <2> QED
      <3>1. Gens'
        BY <1>2, <2>1, <2>2, <2>3, <2>4 DEF GenInv, Gens, Early, Whole
      <3>2. Spaces'
        BY <1>2, <2>1, <2>2, <2>3, <2>4 DEF GenInv, Spaces, Early, Whole
      <3>3. Flags'
        BY <1>2, <2>1, <2>2, <2>3, <2>4 DEF GenInv, Flags, Early, Whole
      <3> QED
        BY <3>1, <3>2, <3>3 DEF GenInv
  <1>6. BeforeInv'
    <2> SUFFICES ASSUME ~rb'.torn PROVE BeforeInv'
      BY DEF BeforeInv
    <2>1. ~rb.torn /\ ~Exposed
      BY <1>2, Zenon
    <2>2. CASE Up
      <3>1. tr.freespace = Frees(tr.alloc) /\ Complete(tr)
        BY <2>2 DEF Up, GenInv, Gens, Spaces, Flags, CountInv, Whole
      <3>2. \A b \in Bucket : Like(tr.alloc[b], tr.alloc[b])
        BY DEF Like
      <3> QED
        BY <1>2, <1>4, <2>2, <3>1, <3>2 DEF BeforeInv, Complete
    <2>3. CASE ~Up
      BY <1>2, <1>3, <1>4, <2>1, <2>3 DEF BeforeInv, Up
    <2> QED
      BY <2>2, <2>3
  <1> QED
    BY <1>5, <1>6

(* A step that changes neither the records nor what is derived from them     *)
(* only has to keep its stage's part of GenInv.                              *)
LEMMA GenOpenImage ==
    ASSUME CountInv, GenInv, BeforeInv, NEW f \in BOOLEAN, OpenImage(f)
    PROVE  GenInv' /\ BeforeInv'
  <1>1. tr' = tr /\ rb \in Process /\ tr \in Trees /\ rb.stage = "down"
    BY DEF OpenImage, CountInv, Base
  <1>2. /\ rb'.stage = "alloc" /\ rb'.kept = tr.alloc /\ rb'.at = 1 /\ rb'.ret = rb.ret
        /\ rb'.before = rb.before /\ rb'.torn = rb.torn /\ rb'.stale = rb.stale
    BY <1>1 DEF OpenImage, Process
  <1>3. Records' = tr.alloc /\ Records = tr.alloc
    BY <1>1, <1>2 DEF Records, Early
  <1>4. GenInv'
    <2>1. Gens'
      BY <1>1, <1>2, <1>3 DEF GenInv, Gens, Early, Whole
    <2>2. Spaces'
      BY <1>1, <1>2, <1>3 DEF GenInv, Spaces, Early, Whole
    <2>3. Flags'
      BY <1>1, <1>2, <1>3 DEF GenInv, Flags, Early, Whole
    <2> QED
      BY <2>1, <2>2, <2>3 DEF GenInv
  <1>5. BeforeInv'
    BY <1>1, <1>2, <1>3 DEF BeforeInv
  <1> QED
    BY <1>4, <1>5

(* The loops that clear the trees.                                           *)
LEMMA GenClear ==
    ASSUME GenInv, BeforeInv, rb.stage \in Early, rb'.stage \in Early \ {"restore"},
           tr'.extents = tr.extents, tr'.needDiscard = tr.needDiscard,
           GenOf(tr'.alloc, tr'.extents),
           rb'.stage \in {"backpointers", "extents"} => tr'.freespace = {},
           rb'.stage = "extents" => \A e \in tr'.backpointers : e.gen = tr'.alloc[e.bucket].gen,
           rb'.kept = rb.kept, rb'.at = 1, rb'.ret = rb.ret, rb'.before = rb.before,
           rb'.torn = rb.torn, rb'.stale = rb.stale
    PROVE  GenInv' /\ BeforeInv'
  <1>1. Records' = Records /\ Records = rb.kept
    BY DEF Records
  <1>2. rb.stage # "up"
    BY DEF Early
  <1>3. GenInv'
    <2>1. rb'.stage \notin {"up", "check", "repair", "index", "restore"} /\ rb'.stage \notin Whole
      BY DEF Early, Whole
    <2>2. ~rb'.stale => tr'.needDiscard = Discards(Records')
      BY <1>1 DEF GenInv, Gens, Spaces, Flags
    <2>3. ~rb'.torn => \A e \in tr'.extents : Records'[e.bucket].type = "btree"
      BY <1>1 DEF GenInv, Gens, Spaces, Flags
    <2>4. OneGen(tr'.extents) /\ GenOf(rb'.kept, tr'.extents)
      BY DEF GenInv, Gens, Spaces, Flags
    <2>5. rb'.ret = 0 /\ (rb'.stale => rb'.torn)
      BY DEF GenInv, Gens, Spaces, Flags
    <2> QED
      <3>1. Gens'
        BY <2>1, <2>2, <2>3, <2>4, <2>5 DEF GenInv, Gens
      <3>2. Spaces'
        BY <2>1, <2>2, <2>3, <2>4, <2>5 DEF GenInv, Spaces
      <3>3. Flags'
        BY <2>1, <2>2, <2>3, <2>4, <2>5 DEF GenInv, Flags
      <3> QED
        BY <3>1, <3>2, <3>3 DEF GenInv
  <1>4. BeforeInv'
    BY <1>1, <1>2 DEF BeforeInv
  <1> QED
    BY <1>3, <1>4

\* ClearAlloc keeps the generations of the extents agreed.
LEMMA GenClearAlloc ==
    ASSUME CountInv, GenInv, BeforeInv, ClearAlloc
    PROVE  GenInv' /\ BeforeInv'
  <1> DEFINE left == Bucket \ OfType(tr, "none")
  <1>0. /\ rb \in Process /\ tr \in Trees /\ rb.stage = "alloc" /\ rb.at = 1
        /\ GenOf(tr.alloc, tr.extents)
    BY DEF ClearAlloc, CountInv, Base, GenInv, Gens, Spaces, Flags, Early
  <1>1. CASE Goes("freespace") /\ UNCHANGED tr
    <2>1. /\ rb'.stage = "freespace" /\ rb'.kept = rb.kept /\ rb'.at = rb.at
          /\ rb'.ret = rb.ret /\ rb'.before = rb.before
          /\ rb'.torn = rb.torn /\ rb'.stale = rb.stale
      BY <1>0, <1>1, GoesFields DEF Stage, Early
    <2> QED
      BY <1>0, <1>1, <2>1, GenClear DEF Early
  <1>2. CASE UNCHANGED rb /\ tr' = [tr EXCEPT !.alloc[Min(left)] = NoAlloc]
    <2> DEFINE m == Min(left)
    <2>1. tr' = [tr EXCEPT !.alloc[m] = NoAlloc]
      BY <1>2
    <2> HIDE DEF m
    <2>2. /\ tr'.extents = tr.extents /\ tr'.needDiscard = tr.needDiscard
          /\ \A c \in Bucket : tr'.alloc[c] = IF c = m THEN NoAlloc ELSE tr.alloc[c]
      BY <1>0, <2>1 DEF Trees
    <2>3. GenOf(tr'.alloc, tr'.extents)
      BY <1>0, <2>2 DEF GenOf, NoAlloc, Trees, Extent
    <2> QED
      BY <1>0, <1>2, <2>2, <2>3, GenClear DEF Early
  <1> QED
    BY <1>1, <1>2 DEF ClearAlloc

\* ClearFreespace changes no generation.
LEMMA GenClearFreespace ==
    ASSUME CountInv, GenInv, BeforeInv, ClearFreespace
    PROVE  GenInv' /\ BeforeInv'
  <1>0. /\ rb \in Process /\ tr \in Trees /\ rb.stage = "freespace" /\ rb.at = 1
        /\ GenOf(tr.alloc, tr.extents)
    BY DEF ClearFreespace, CountInv, Base, GenInv, Gens, Spaces, Flags, Early
  <1>1. CASE tr.freespace = {} /\ Goes("backpointers") /\ UNCHANGED tr
    <2>1. /\ rb'.stage = "backpointers" /\ rb'.kept = rb.kept /\ rb'.at = rb.at
          /\ rb'.ret = rb.ret /\ rb'.before = rb.before
          /\ rb'.torn = rb.torn /\ rb'.stale = rb.stale
      BY <1>0, <1>1, GoesFields DEF Stage, Early
    <2> QED
      BY <1>0, <1>1, <2>1, GenClear DEF Early
  <1>2. CASE UNCHANGED rb /\ \E p \in tr.freespace : tr' = [tr EXCEPT !.freespace = @ \ {p}]
    <2>1. /\ tr'.extents = tr.extents /\ tr'.needDiscard = tr.needDiscard
          /\ tr'.alloc = tr.alloc
      BY <1>0, <1>2 DEF Trees
    <2> QED
      BY <1>0, <1>2, <2>1, GenClear DEF Early
  <1> QED
    BY <1>1, <1>2 DEF ClearFreespace

\* ClearBackpointers changes no generation.
LEMMA GenClearBackpointers ==
    ASSUME CountInv, GenInv, BeforeInv, ClearBackpointers
    PROVE  GenInv' /\ BeforeInv'
  <1>0. /\ rb \in Process /\ tr \in Trees /\ rb.stage = "backpointers" /\ rb.at = 1
        /\ GenOf(tr.alloc, tr.extents) /\ tr.freespace = {}
    BY DEF ClearBackpointers, CountInv, Base, GenInv, Gens, Spaces, Flags, Early
  <1>1. CASE tr.backpointers = {} /\ Goes("extents") /\ UNCHANGED tr
    <2>1. /\ rb'.stage = "extents" /\ rb'.kept = rb.kept /\ rb'.at = rb.at
          /\ rb'.ret = rb.ret /\ rb'.before = rb.before
          /\ rb'.torn = rb.torn /\ rb'.stale = rb.stale
      BY <1>0, <1>1, GoesFields DEF Stage, Early
    <2> QED
      BY <1>0, <1>1, <2>1, GenClear DEF Early
  <1>2. CASE UNCHANGED rb /\ \E e \in tr.backpointers : tr' = [tr EXCEPT !.backpointers = @ \ {e}]
    <2>1. /\ tr'.extents = tr.extents /\ tr'.needDiscard = tr.needDiscard
          /\ tr'.alloc = tr.alloc /\ tr'.freespace = tr.freespace
      BY <1>0, <1>2 DEF Trees
    <2> QED
      BY <1>0, <1>2, <2>1, GenClear DEF Early
  <1> QED
    BY <1>1, <1>2 DEF ClearBackpointers

(* The trigger never refuses an extent: the record has the generation of the *)
(* extents derived before, which is that of the bucket.                      *)
LEMMA GenRebuildExtents ==
    ASSUME CountInv, GenInv, BeforeInv, RebuildExtents
    PROVE  GenInv' /\ BeforeInv'
  <1>0. /\ rb \in Process /\ tr \in Trees /\ rb.stage = "extents" /\ rb.at = 1
        /\ GenOf(tr.alloc, tr.extents) /\ tr.freespace = {} /\ OneGen(tr.extents)
        /\ \A e \in tr.backpointers : e.gen = tr.alloc[e.bucket].gen
        /\ tr.backpointers \subseteq tr.extents
        /\ \A b \in Bucket : Rebuilt(tr.alloc[b], tr.backpointers, b)
    BY DEF RebuildExtents, CountInv, Base, GenInv, Gens, Spaces, Flags, Early
  <1>1. CASE tr.extents \ tr.backpointers = {} /\ Goes("restore") /\ UNCHANGED tr
    <2>1. /\ rb'.stage = "restore" /\ rb'.kept = rb.kept /\ rb'.at = 1
          /\ rb'.ret = rb.ret /\ rb'.before = rb.before
          /\ rb'.torn = rb.torn /\ rb'.stale = rb.stale
      BY <1>0, <1>1, GoesFields DEF Stage, Early
    <2>2. Owned(tr)
      <3> SUFFICES ASSUME NEW e \in tr.extents PROVE tr.alloc[e.bucket].type # "none"
        BY DEF Owned
      <3>1. e.bucket \in Bucket /\ e \in In(tr.backpointers, e.bucket)
        BY <1>0, <1>1 DEF Trees, Extent, In
      <3> QED
        BY <1>0, <3>1 DEF Rebuilt
    <2>3. Records' = Records /\ Records = rb.kept
      BY <1>0, <2>1 DEF Records, Early
    <2>4. \A b \in Bucket : ~(b < 1)
      BY BucketsAssumption DEF Bucket
    <2>5. GenInv'
      <3>0. rb.stage = "extents" /\ UNCHANGED tr /\ Gens /\ Spaces /\ Flags
        BY <1>0, <1>1 DEF GenInv
      <3>1. Gens'
        BY <2>1, <2>2, <3>0 DEF Gens, Early, Whole, Owned
      <3>2. Spaces'
        BY <2>1, <2>4, <3>0 DEF Spaces, Early
      <3>3. Flags'
        BY <2>1, <2>3, <3>0 DEF Flags
      <3> QED
        BY <3>1, <3>2, <3>3 DEF GenInv
    <2>6. BeforeInv'
      BY <1>0, <1>1, <2>1, <2>3, BeforeSame
    <2> QED
      BY <2>5, <2>6
  <1>2. CASE \E e \in tr.extents \ tr.backpointers : bch2_rebuild_derived_for_key(e)
    <2>1. PICK e \in tr.extents \ tr.backpointers : bch2_rebuild_derived_for_key(e)
      BY <1>2
    <2> DEFINE b == e.bucket
               a == tr.alloc[b]
    <2>2. b \in Bucket /\ e \in Extent
      BY <1>0 DEF Trees, Extent
    <2>3. (a.type = "none" /\ a.gen = 0) \/ (a.type # "none" /\ a.gen = e.gen)
      <3>1. CASE In(tr.backpointers, b) = {}
        BY <1>0, <2>2, <3>1 DEF Rebuilt, NoAlloc
      <3>2. CASE In(tr.backpointers, b) # {}
        <4>1. PICK q \in tr.backpointers : q.bucket = b
          BY <3>2 DEF In
        <4>2. a.type # "none"
          BY <1>0, <2>2, <3>2 DEF Rebuilt
        <4> QED
          BY <1>0, <4>1, <4>2 DEF OneGen
      <3> QED
        BY <3>1, <3>2
    <2>4. MayInsert(tr, e)
      BY <2>3 DEF MayInsert
    <2>5. tr' = DerivedFrom(tr, e) /\ UNCHANGED rb
      BY <2>1, <2>4 DEF bch2_rebuild_derived_for_key
    <2>6. /\ IsFiniteSet(tr.backpointers) /\ Apart(tr.backpointers \cup {e})
          /\ Counted(tr.alloc, tr.backpointers)
      <3>1. IsFiniteSet(tr.backpointers)
        BY <1>0, FS_Subset DEF CountInv, Base
      <3>2. Apart(tr.backpointers \cup {e})
        BY <1>0 DEF CountInv, Base, Apart
      <3>3. rb.stage = "extents"
        BY <1>0
      <3>4. Counted(tr.alloc, tr.backpointers)
        BY <3>3 DEF CountInv
      <3> QED
        BY <3>1, <3>2, <3>4
    <2>7. /\ tr'.extents = tr.extents /\ tr'.needDiscard = tr.needDiscard
          /\ tr'.freespace = tr.freespace /\ tr'.backpointers = tr.backpointers \cup {e}
          /\ \A c \in Bucket \ {b} : tr'.alloc[c] = tr.alloc[c]
          /\ tr'.alloc[b].gen = (IF a.gen = 0 THEN e.gen ELSE a.gen)
      <3>1. tr \in Trees /\ e \in Extent /\ e \notin tr.backpointers
        BY <1>0, <2>2
      <3>2. /\ tr' = DerivedFrom(tr, e) /\ IsFiniteSet(tr.backpointers)
            /\ Apart(tr.backpointers \cup {e}) /\ Counted(tr.alloc, tr.backpointers)
        BY <2>5, <2>6
      <3> QED
        BY <3>1, <3>2, DerivedFields
    <2>8. tr'.alloc[b].gen = e.gen
      BY <2>3, <2>7
    <2>9. \A q \in tr'.backpointers : q.gen = tr'.alloc[q.bucket].gen
      BY <1>0, <2>7, <2>8 DEF OneGen, Trees, Extent
    <2>10. GenOf(tr'.alloc, tr'.extents)
      BY <1>0, <2>7, <2>8 DEF OneGen, GenOf, Trees, Extent
    <2> QED
      BY <1>0, <2>5, <2>7, <2>9, <2>10, GenClear DEF Early
  <1> QED
    BY <1>1, <1>2 DEF RebuildExtents

\* Restore gives a bucket the generation its extents carry.
LEMMA GenRestore ==
    ASSUME CountInv, GenInv, BeforeInv, Restore
    PROVE  GenInv' /\ BeforeInv'
  <1> DEFINE b == rb.at
             old == rb.kept[b]
  <1>0. /\ rb \in Process /\ tr \in Trees /\ rb.stage = "restore" /\ b \in Nat \ {0}
        /\ Blank(rb.kept) /\ \A c \in Bucket : c >= b \/ rb.kept[c].type = "none"
                                               => Rebuilt(tr.alloc[c], tr.extents, c)
    BY DEF Restore, CountInv, Base, Process, Early
  <1>1. /\ OneGen(tr.extents) /\ GenOf(tr.alloc, tr.extents) /\ GenOf(rb.kept, tr.extents)
        /\ Owned(tr) /\ tr.freespace = {} /\ rb.ret = 0 /\ (rb.stale => rb.torn)
        /\ \A c \in Bucket : c < b /\ rb.kept[c].type # "none" => Like(tr.alloc[c], rb.kept[c])
        /\ ~rb.stale => tr.needDiscard = Discards(rb.kept)
        /\ ~rb.torn => \A e \in tr.extents : rb.kept[e.bucket].type = "btree"
    <2>1. rb.stage = "restore" /\ Gens /\ Spaces /\ Flags
      BY <1>0 DEF GenInv
    <2>2. /\ OneGen(tr.extents) /\ GenOf(tr.alloc, tr.extents) /\ GenOf(rb.kept, tr.extents)
          /\ Owned(tr)
      BY <2>1 DEF Gens, Early, Whole
    <2>3. /\ tr.freespace = {}
          /\ \A c \in Bucket : c < b /\ rb.kept[c].type # "none" => Like(tr.alloc[c], rb.kept[c])
      BY <2>1 DEF Spaces
    <2>4. Records = rb.kept
      BY <2>1 DEF Records, Early
    <2>5. /\ rb.ret = 0 /\ (rb.stale => rb.torn)
          /\ ~rb.stale => tr.needDiscard = Discards(rb.kept)
          /\ ~rb.torn => \A e \in tr.extents : rb.kept[e.bucket].type = "btree"
      BY <2>1, <2>4 DEF Flags
    <2> QED
      BY <2>2, <2>3, <2>5
  <1>2. CASE b > NrBuckets /\ Goes("index") /\ UNCHANGED tr
    <2>1. /\ rb'.stage = "index" /\ rb'.ret = rb.ret /\ rb'.before = rb.before
          /\ rb'.torn = rb.torn /\ rb'.stale = rb.stale
      BY <1>0, <1>2, GoesFields DEF Stage, Whole
    <2>2. Records' = tr.alloc /\ Records = rb.kept
      BY <1>0, <1>2, <2>1 DEF Records, Early
    <2>3. \A c \in Bucket : c < b
      BY <1>0, <1>2, BucketsAssumption DEF Bucket
    <2>4. ASSUME NEW c \in Bucket, rb.kept[c].type # "none"
          PROVE  Like(tr.alloc[c], rb.kept[c])
      BY <1>1, <2>3, <2>4
    <2>5. ASSUME NEW c \in Bucket, rb.kept[c].type = "none"
          PROVE  /\ Rebuilt(tr.alloc[c], tr.extents, c) /\ rb.kept[c] = NoAlloc
                 /\ tr.alloc[c].type \in {"none", "free"}
      BY <1>0, <2>5 DEF Rebuilt, NoAlloc, Blank
    <2>6. Discards(tr.alloc) = Discards(rb.kept)
      BY <2>4, <2>5 DEF Discards, Like
    <2>7. ~rb.torn => \A e \in tr.extents : tr.alloc[e.bucket].type = "btree"
      BY <1>0, <1>1, <2>4 DEF Like, Trees, Extent
    <2>8. GenInv'
      <3>1. Gens'
        BY <1>1, <1>2, <2>1, <2>2, <2>6, <2>7 DEF Gens, Early, Whole
      <3>2. Spaces'
        BY <1>1, <1>2, <2>1, <2>2, <2>6, <2>7 DEF Spaces, Early, Whole
      <3>3. Flags'
        BY <1>1, <1>2, <2>1, <2>2, <2>6, <2>7 DEF Flags, Early, Whole
      <3> QED
        BY <3>1, <3>2, <3>3 DEF GenInv
    <2>9. ASSUME ~rb.torn, NEW c \in Bucket PROVE Like(tr.alloc[c], rb.before.alloc[c])
      <3>0. rb.stage # "up" /\ Records = rb.kept
        BY <1>0, <2>2
      <3>1. Like(rb.kept[c], rb.before.alloc[c])
        BY <2>9, <3>0 DEF BeforeInv
      <3>2. CASE rb.kept[c].type # "none"
        BY <2>4, <3>1, <3>2 DEF Like
      <3>3. CASE rb.kept[c].type = "none"
        <4>1. In(tr.extents, c) = {}
          BY <1>1, <2>9, <3>3 DEF In
        <4>2. tr.alloc[c] = rb.kept[c]
          BY <2>5, <3>3, <4>1 DEF Rebuilt
        <4> QED
          BY <3>1, <4>2
      <3> QED
        BY <3>2, <3>3
    <2>10. BeforeInv'
      BY <1>0, <1>2, <2>1, <2>2, <2>9 DEF BeforeInv
    <2> QED
      BY <2>8, <2>10
  <1>3. CASE /\ ~(b > NrBuckets) /\ rb' = [rb EXCEPT !.at = b + 1]
             /\ tr' = IF old.type = "none" THEN tr ELSE [tr EXCEPT !.alloc[b] = Restored(old, @)]
    <2>1. /\ rb'.stage = "restore" /\ rb'.ret = rb.ret /\ rb'.before = rb.before
          /\ rb'.torn = rb.torn /\ rb'.stale = rb.stale /\ rb'.kept = rb.kept
          /\ rb'.at = b + 1
      BY <1>0, <1>3 DEF Process
    <2>2. b \in Bucket
      BY <1>0, <1>3, BucketsAssumption DEF Bucket
    <2>3. Records' = rb.kept /\ Records = rb.kept
      BY <1>0, <2>1 DEF Records, Early
    <2>4. \A c \in Bucket : c < b + 1 <=> c < b \/ c = b
      BY <1>0 DEF Bucket
    <2>5. /\ tr'.extents = tr.extents /\ tr'.needDiscard = tr.needDiscard
          /\ tr'.freespace = tr.freespace
          /\ \A c \in Bucket \ {b} : tr'.alloc[c] = tr.alloc[c]
          /\ old.type # "none" => Like(tr'.alloc[b], old)
          /\ old.type = "none" => tr'.alloc[b] = tr.alloc[b]
      <3>1. CASE old.type = "none"
        BY <1>3, <3>1
      <3>2. CASE old.type # "none"
        <4> DEFINE v == Restored(old, tr.alloc[b])
        <4>1. old \in Alloc /\ tr.alloc[b] \in Alloc
          BY <1>0, <2>2, SMTT(30) DEF Process, Trees
        <4>2. Like(v, old)
          BY <4>1, Zenon DEF Restored, Alloc, Like
        <4>3. tr' = [tr EXCEPT !.alloc[b] = v]
          BY <1>3, <3>2
        <4> HIDE DEF v
        <4>4. /\ tr'.extents = tr.extents /\ tr'.needDiscard = tr.needDiscard
              /\ tr'.freespace = tr.freespace
              /\ \A c \in Bucket \ {b} : tr'.alloc[c] = tr.alloc[c]
              /\ tr'.alloc[b] = v
          BY <1>0, <2>2, <4>3 DEF Trees
        <4> QED
          BY <3>2, <4>2, <4>4
      <3> QED
        BY <3>1, <3>2
    <2>6. /\ GenOf(tr'.alloc, tr'.extents)
          /\ Owned(tr')
      <3> SUFFICES ASSUME NEW e \in tr.extents
                   PROVE  tr'.alloc[e.bucket].type # "none" /\ e.gen = tr'.alloc[e.bucket].gen
        BY <2>5 DEF GenOf, Owned
      <3>1. e.bucket \in Bucket
        BY <1>0 DEF Trees, Extent
      <3>2. tr.alloc[e.bucket].type # "none" /\ e.gen = tr.alloc[e.bucket].gen
        BY <1>1 DEF GenOf, Owned
      <3>3. CASE e.bucket = b /\ old.type # "none"
        <4>1. GenOf(rb.kept, tr.extents)
          BY <1>1
        <4>2. e.gen = old.gen
          BY <3>3, <4>1 DEF GenOf
        <4>3. Like(tr'.alloc[b], old)
          BY <2>5, <3>3
        <4> QED
          BY <3>3, <4>2, <4>3 DEF Like
      <3> QED
        BY <2>5, <3>1, <3>2, <3>3
    <2>7. \A c \in Bucket : c < b + 1 /\ rb.kept[c].type # "none"
                            => Like(tr'.alloc[c], rb.kept[c])
      BY <1>1, <2>4, <2>5, SMTT(30)
    <2>8. GenInv'
      <3>1. Gens'
        BY <1>1, <2>1, <2>3, <2>5, <2>6, <2>7 DEF Gens, Early, Whole
      <3>2. Spaces'
        BY <1>1, <2>1, <2>3, <2>5, <2>6, <2>7 DEF Spaces, Early, Whole
      <3>3. Flags'
        BY <1>1, <2>1, <2>3, <2>5, <2>6, <2>7 DEF Flags, Early, Whole
      <3> QED
        BY <3>1, <3>2, <3>3 DEF GenInv
    <2>9. BeforeInv'
      BY <1>0, <2>1, <2>3, <2>5, BeforeSame
    <2> QED
      BY <2>8, <2>9
  <1> QED
    BY <1>2, <1>3 DEF Restore

(* The steps after the restore, while the trees keep their records.          *)
LEMMA GenIndex ==
    ASSUME GenInv, BeforeInv, rb.stage \in {"index", "check", "repair"},
           rb'.stage \in {"index", "check", "repair", "down"},
           tr'.alloc = tr.alloc, tr'.extents = tr.extents,
           rb'.stage = "index" => tr'.freespace \subseteq Frees(tr.alloc),
           rb'.stage \in {"check", "repair"} => tr'.freespace = Frees(tr.alloc),
           rb'.torn = rb.torn, rb'.before = rb.before, rb'.ret = 0,
           rb'.stale => rb.stale,
           ~rb'.stale => tr'.needDiscard = Discards(tr.alloc),
           ~rb.torn => tr'.needDiscard = tr.needDiscard
    PROVE  GenInv' /\ BeforeInv'
  <1>1. Records' = tr.alloc /\ Records = tr.alloc
    BY DEF Records, Early
  <1>2. GenInv'
    <2>1. /\ OneGen(tr.extents) /\ GenOf(tr.alloc, tr.extents) /\ Owned(tr)
          /\ ~rb.torn => \A e \in tr.extents : tr.alloc[e.bucket].type = "btree"
          /\ (rb.stale => rb.torn)
      BY <1>1 DEF GenInv, Gens, Spaces, Flags, Whole
    <2>2. Owned(tr')
      BY <2>1 DEF Owned
    <2> QED
      <3>1. Gens'
        BY <1>1, <2>1, <2>2 DEF Gens, Early, Whole
      <3>2. Spaces'
        BY <1>1, <2>1, <2>2 DEF Spaces, Early, Whole
      <3>3. Flags'
        BY <1>1, <2>1, <2>2 DEF Flags, Early, Whole
      <3> QED
        BY <3>1, <3>2, <3>3 DEF GenInv
  <1>3. BeforeInv'
    BY <1>1 DEF BeforeInv
  <1> QED
    BY <1>2, <1>3

(* check_extents_to_backpointers finds nothing wrong once the restore is     *)
(* through.                                                                  *)
LEMMA Derives ==
    ASSUME CountInv, GenInv, rb.stage \in {"check", "repair", "up"}
    PROVE  DerivedOk(tr)
  <1>1. Complete(tr) /\ GenOf(tr.alloc, tr.extents) /\ Owned(tr)
    BY DEF CountInv, GenInv, Gens, Spaces, Flags, Whole
  <1>2. tr.backpointers = tr.extents
    BY <1>1 DEF Complete
  <1>3. ASSUME NEW b \in Bucket
        PROVE  /\ tr.alloc[b].dirty = Cardinality({e \in tr.extents : e.bucket = b})
               /\ \A e \in {q \in tr.extents : q.bucket = b} : e.gen = tr.alloc[b].gen
    BY <1>1 DEF Complete, Counted, In, GenOf, Owned
  <1> QED
    BY <1>2, <1>3, SMTT(30) DEF DerivedOk

(* With a freespace index that is exact only need_discard is repaired.       *)
LEMMA RepairLeft ==
    ASSUME tr \in Trees, tr.freespace = Frees(tr.alloc)
    PROVE  /\ NextRepair(tr) = {} <=> tr.needDiscard = Discards(tr.alloc)
           /\ \A u \in NextRepair(tr) : u.freespace = tr.freespace
  <1> DEFINE gone == tr.needDiscard \ Discards(tr.alloc)
             absent == Discards(tr.alloc) \ tr.needDiscard
  <1>1. NextRepair(tr) = IF gone # {} THEN {[tr EXCEPT !.needDiscard = @ \ {b}] : b \in gone}
                         ELSE {[tr EXCEPT !.needDiscard = @ \cup {b}] : b \in absent}
    BY Indexes, Zenon DEF NextRepair
  <1>2. gone = {} /\ absent = {} <=> tr.needDiscard = Discards(tr.alloc)
    BY DEF Trees
  <1> HIDE DEF gone, absent
  <1>3. NextRepair(tr) = {} <=> gone = {} /\ absent = {}
    BY <1>1, ZenonT(60)
  <1>4. \A u \in NextRepair(tr) : u.freespace = tr.freespace
    BY <1>1 DEF Trees
  <1> QED
    BY <1>2, <1>3, <1>4

(* The generations, the types and the indexes agree in every state of an     *)
(* open or a repair, and none of them fails.                                 *)
LEMMA GenRecovery ==
    ASSUME CountInv, GenInv, BeforeInv, RecoveryStep
    PROVE  GenInv' /\ BeforeInv'
  <1>0. /\ rb \in Process /\ tr \in Trees /\ rb.ret = 0 /\ (rb.stale => rb.torn)
        /\ rb.torn \in BOOLEAN /\ rb.stale \in BOOLEAN
    BY ZenonT(40) DEF CountInv, Base, GenInv, Gens, Spaces, Flags, Process
  <1>1. CASE RebuildFreespace
    <2>1. rb.stage = "index"
      BY <1>1 DEF RebuildFreespace
    <2>2. /\ tr.freespace \subseteq Frees(tr.alloc) /\ Records = tr.alloc
          /\ ~rb.stale => tr.needDiscard = Discards(tr.alloc)
      BY <2>1 DEF GenInv, Gens, Spaces, Flags, Records, Early
    <2>3. /\ tr'.alloc = tr.alloc /\ tr'.extents = tr.extents
          /\ tr'.needDiscard = tr.needDiscard
          /\ \/ UNCHANGED tr /\ Frees(tr.alloc) \subseteq tr.freespace /\ Goes("check")
             \/ UNCHANGED rb /\ \E p \in Frees(tr.alloc) : tr'.freespace = tr.freespace \cup {p}
      BY <1>0, <1>1, RebuildFreespaceFields, Indexes
    <2>4. CASE UNCHANGED tr /\ Frees(tr.alloc) \subseteq tr.freespace /\ Goes("check")
      <3>1. /\ rb'.stage = "check" /\ rb'.ret = rb.ret /\ rb'.before = rb.before
            /\ rb'.torn = rb.torn /\ rb'.stale = rb.stale
        BY <1>0, <2>4, GoesFields DEF Stage, Whole
      <3>2. tr'.freespace = Frees(tr.alloc)
        BY <2>2, <2>4, Zenon
      <3> QED
        BY <1>0, <2>1, <2>2, <2>3, <3>1, <3>2, GenIndex
    <2>5. CASE UNCHANGED rb /\ \E p \in Frees(tr.alloc) : tr'.freespace = tr.freespace \cup {p}
      <3>1. tr'.freespace \subseteq Frees(tr.alloc)
        BY <2>2, <2>5
      <3> QED
        BY <1>0, <2>1, <2>2, <2>3, <2>5, <3>1, GenIndex
    <2> QED
      BY <2>3, <2>4, <2>5
  <1>2. CASE CheckOpened
    <2>1. rb.stage = "check" /\ DerivedOk(tr)
      BY <1>2, Derives DEF CheckOpened
    <2>3. /\ UNCHANGED tr /\ rb'.stage \in {"repair", "up"}
          /\ rb'.stage = "repair" => rb'.before = rb.before /\ rb'.ret = rb.ret
          /\ rb'.stage = "up" => rb'.ret = 0
          /\ rb'.torn = rb.torn /\ rb'.stale = rb.stale
      BY <1>0, <1>2, <2>1, CheckOpenedFields
    <2>4. /\ tr.freespace = Frees(tr.alloc) /\ Records = tr.alloc
          /\ ~rb.stale => tr.needDiscard = Discards(tr.alloc)
      BY <2>1 DEF GenInv, Gens, Spaces, Flags, Records, Early
    <2>5. CASE rb'.stage = "repair"
      BY <1>0, <2>1, <2>3, <2>4, <2>5, GenIndex
    <2>6. CASE rb'.stage = "up"
      <3>1. Records' = tr.alloc
        BY <2>3, <2>6, SMTT(30) DEF Records, Early
      <3>2. GenInv'
        <4>0. Gens /\ Spaces /\ Flags
          BY DEF GenInv
        <4>1. Gens'
          BY <2>1, <2>3, <2>6, <4>0 DEF Gens, Early, Whole, Owned
        <4>2. Spaces'
          BY <2>3, <2>4, <2>6 DEF Spaces, Early
        <4>3. Flags'
          BY <2>3, <2>4, <2>6, <3>1, <4>0 DEF Flags
        <4> QED
          BY <4>1, <4>2, <4>3 DEF GenInv
      <3> QED
        BY <2>6, <3>2 DEF BeforeInv
    <2> QED
      BY <2>3, <2>5, <2>6
  <1>3. CASE Repair
    <2>1. rb.stage = "repair" /\ tr' \in NextRepair(tr)
      BY <1>3 DEF Repair
    <2>2. /\ tr.freespace = Frees(tr.alloc) /\ Records = tr.alloc
          /\ ~rb.stale => tr.needDiscard = Discards(tr.alloc)
      BY <2>1 DEF GenInv, Gens, Spaces, Flags, Records, Early
    <2>3. rb.stale /\ rb.torn /\ tr'.freespace = tr.freespace
      BY <1>0, <2>1, <2>2, RepairLeft
    <2>4. tr'.alloc = tr.alloc /\ tr'.extents = tr.extents /\ UNCHANGED rb
      BY <1>0, <1>3, RepairFields
    <2> QED
      BY <1>0, <2>1, <2>2, <2>3, <2>4, GenIndex, Zenon
  <1>4. CASE Verify
    <2>1. rb.stage = "repair" /\ NextRepair(tr) = {} /\ DerivedOk(tr)
      BY <1>4, Derives DEF Verify
    <2>2. tr.freespace = Frees(tr.alloc) /\ Records = tr.alloc
      BY <2>1 DEF GenInv, Gens, Spaces, Flags, Records, Early
    <2>3. tr.needDiscard = Discards(tr.alloc)
      BY <1>0, <2>1, <2>2, RepairLeft
    <2>4. BucketIndexesOk(tr)
      BY <2>2, <2>3, Indexes DEF BucketIndexesOk
    <2>5. /\ UNCHANGED tr /\ rb'.stage = "down" /\ ~rb'.stale /\ rb'.ret = 0
          /\ rb'.torn = rb.torn /\ rb'.before = rb.before
      BY <1>0, <1>4, <2>1, <2>4, VerifyFields
    <2> QED
      BY <2>1, <2>2, <2>3, <2>5, GenIndex
  <1> QED
    BY <1>1, <1>2, <1>3, <1>4, GenOpenImage, GenClearAlloc, GenClearFreespace,
       GenClearBackpointers, GenRebuildExtents, GenRestore DEF RecoveryStep

(* What the three invariants say of an open that is through: the trees are   *)
(* those of before.                                                          *)
LEMMA ExactFromInvariants ==
    ASSUME CountInv, GenInv, BeforeInv
    PROVE  RebuildExact
  <1>1. rb.ret = 0
    BY DEF GenInv, Gens, Spaces, Flags
  <1>2. ASSUME rb.stage = "check", ~rb.torn PROVE Visible(tr) = Visible(rb.before)
    <2> DEFINE o == rb.before
    <2>1. tr \in Trees /\ o \in Trees
      <3>1. Base(tr) /\ rb \in Process
        BY DEF CountInv
      <3>2. tr \in Trees
        BY <3>1 DEF Base
      <3>3. o \in Trees
        BY <3>1 DEF Process
      <3> QED
        BY <3>2, <3>3
    <2>2. /\ tr.freespace = Frees(tr.alloc) /\ tr.backpointers = tr.extents
          /\ Counted(tr.alloc, tr.extents) /\ Records = tr.alloc
      BY <1>2, ZenonT(40) DEF GenInv, Gens, Spaces, Flags, CountInv, Complete, Records, Early, Whole
    <2>3. /\ tr.extents = o.extents /\ tr.needDiscard = o.needDiscard
          /\ o.backpointers = o.extents /\ o.freespace = Frees(o.alloc)
          /\ Counted(o.alloc, o.extents)
          /\ \A b \in Bucket : Like(tr.alloc[b], o.alloc[b])
      BY <1>2, <2>2 DEF BeforeInv
    <2>4. \A b \in Bucket : /\ tr.alloc[b].type = o.alloc[b].type
                            /\ FreespacePos(b, tr.alloc[b]) = FreespacePos(b, o.alloc[b])
      BY <2>3 DEF Like, FreespacePos
    <2>5. Frees(tr.alloc) = Frees(o.alloc)
      BY <2>4 DEF Frees
    <2>6. ASSUME NEW b \in Bucket
          PROVE  [tr.alloc[b] EXCEPT !.seqEmpty = 0] = [o.alloc[b] EXCEPT !.seqEmpty = 0]
      <3>1. tr.alloc[b] \in Alloc /\ o.alloc[b] \in Alloc
        BY <2>1 DEF Trees
      <3>2. tr.alloc[b].dirty = o.alloc[b].dirty
        BY <2>2, <2>3 DEF Counted
      <3> QED
        BY <2>3, <3>1, <3>2, LikeRecords
    <2>7. [b \in Bucket |-> [tr.alloc[b] EXCEPT !.seqEmpty = 0]]
            = [b \in Bucket |-> [o.alloc[b] EXCEPT !.seqEmpty = 0]]
      BY <2>6
    <2> DEFINE x == [b \in Bucket |-> [tr.alloc[b] EXCEPT !.seqEmpty = 0]]
               y == [b \in Bucket |-> [o.alloc[b] EXCEPT !.seqEmpty = 0]]
    <2>8. Visible(tr) = [tr EXCEPT !.alloc = x] /\ Visible(o) = [o EXCEPT !.alloc = y]
      BY DEF Visible
    <2>9. x = y
      BY <2>7
    <2> HIDE DEF x, y, o
    <2>10. /\ tr.freespace = o.freespace /\ tr.needDiscard = o.needDiscard
           /\ tr.backpointers = o.backpointers /\ tr.extents = o.extents
      BY <2>2, <2>3, <2>5
    <2>11. \A t \in Trees : [t EXCEPT !.alloc = x] =
             Tree(x, t.freespace, t.needDiscard, t.backpointers, t.extents)
      BY DEF Trees, Tree
    <2> QED
      BY <2>1, <2>8, <2>9, <2>10, <2>11, SMTT(30) DEF o
  <1> QED
    BY <1>1, <1>2 DEF RebuildExact
=============================================================================
