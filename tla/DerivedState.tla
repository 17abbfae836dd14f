---------------------------- MODULE DerivedState ----------------------------
(***************************************************************************)
(* What opening an image does to the allocation trees: the alloc,          *)
(* freespace and backpointer trees are cleared and derived again from the  *)
(* extents (rebuild_derived_state in engine.rs), the result is checked,    *)
(* and fsck repairs the indexes (fsck_image).  Every key is a transaction  *)
(* of its own, so the process may die between any two of them.             *)
(*                                                                         *)
(* The journal keeps a prefix of the transactions, and all that a crash    *)
(* resets is volatile: to lose some of the last transactions is to die     *)
(* before them, so a crash leaves the trees as they are.                   *)
(***************************************************************************)
EXTENDS Buckets

VARIABLES
    tr,    \* the trees
    rb     \* where the process that has the image open is

(* stage: "down" when nothing has the image open, "up" when the engine is    *)
(* open, else the loop of the rebuild or of fsck that runs; kept: the alloc  *)
(* records read first (preserved_alloc); at: the next bucket of the restore; *)
(* fsck: the image is open for a repair; ret: result of the last open or     *)
(* fsck.  History: before, the trees when the engine last stopped; torn, a   *)
(* crash fell between the first record cleared and the last one restored;    *)
(* stale, none of the repairs since was completed.                           *)
Fresh(t) == [stage |-> "up", kept |-> t.alloc, at |-> 1, fsck |-> FALSE,
             ret |-> 0, before |-> t, torn |-> FALSE, stale |-> FALSE]

Up == rb.stage = "up"

(* The alloc records are not all in the alloc tree.                          *)
Exposed == /\ rb.stage \in {"alloc", "freespace", "backpointers", "extents", "restore"}
           /\ tr.alloc # rb.kept

Goes(stage) == rb' = [rb EXCEPT !.stage = stage]

(* The process ends, by a crash or by an error that drops the engine.        *)
Stops(r) ==
    /\ rb' = [rb EXCEPT !.stage = "down", !.ret = r,
                        !.before = IF Up THEN tr ELSE @,
                        !.torn = @ \/ Exposed, !.stale = @ \/ Exposed]
    /\ UNCHANGED tr

(* attach_persistent_journal_sized, after the replay: rebuild_derived_state  *)
(* reads the alloc records it will restore.                                  *)
OpenImage(fsck) ==
    /\ rb.stage = "down"
    /\ rb' = [rb EXCEPT !.stage = "alloc", !.kept = tr.alloc, !.at = 1,
                        !.fsck = fsck]
    /\ UNCHANGED tr

(* bch2_clear_derived_tree on the alloc, freespace and backpointer trees,    *)
(* one key at a time; the need_discard index is left alone.                  *)
ClearAlloc ==
    LET left == Bucket \ OfType(tr, "none")
    IN  /\ rb.stage = "alloc"
        /\ \/ /\ left = {} /\ Goes("freespace") /\ UNCHANGED tr
           \/ /\ left # {} /\ UNCHANGED rb
              /\ tr' = [tr EXCEPT !.alloc[Min(left)] = NoAlloc]

ClearFreespace ==
    /\ rb.stage = "freespace"
    /\ \/ /\ tr.freespace = {} /\ Goes("backpointers") /\ UNCHANGED tr
       \/ \E p \in tr.freespace :
            tr' = [tr EXCEPT !.freespace = @ \ {p}] /\ UNCHANGED rb

ClearBackpointers ==
    /\ rb.stage = "backpointers"
    /\ \/ /\ tr.backpointers = {} /\ Goes("extents") /\ UNCHANGED tr
       \/ \E e \in tr.backpointers :
            tr' = [tr EXCEPT !.backpointers = @ \ {e}] /\ UNCHANGED rb

(* The insertion trigger of an extent runs again; an error ends the open.    *)
bch2_rebuild_derived_for_key(e) ==
    IF MayInsert(tr, e) THEN tr' = DerivedFrom(tr, e) /\ UNCHANGED rb
    ELSE Stops(-1)

RebuildExtents ==
    LET left == tr.extents \ tr.backpointers
    IN  /\ rb.stage = "extents"
        /\ \/ /\ left = {} /\ Goes("restore") /\ UNCHANGED tr
           \/ \E e \in left : bch2_rebuild_derived_for_key(e)

(* Mutant: the data type of the record is not restored.                      *)
RestoredDefault(old, new) ==
    IF new.type = "none" THEN old
    ELSE [new EXCEPT !.gen = old.gen, !.oldest = old.oldest]

(* A preserved record: type and generations of the old one, the counts of    *)
(* the rebuilt one if the bucket has any extent.                             *)
Restored(old, new) ==
    IF new.type = "none" THEN old
    ELSE [new EXCEPT !.type = old.type, !.gen = old.gen, !.oldest = old.oldest]

Restore ==
    LET b   == rb.at
        old == rb.kept[b]
    IN  /\ rb.stage = "restore"
        /\ IF b > NrBuckets THEN Goes("index") /\ UNCHANGED tr
           ELSE /\ rb' = [rb EXCEPT !.at = b + 1]
                /\ tr' = IF old.type = "none" THEN tr
                         ELSE [tr EXCEPT !.alloc[b] = Restored(old, @)]

(* The freespace index of the free buckets, one bit at a time.               *)
RebuildFreespace ==
    LET left == ExpectedFreespace(tr) \ tr.freespace
    IN  /\ rb.stage = "index"
        /\ \/ /\ left = {} /\ Goes("check") /\ UNCHANGED tr
           \/ \E p \in left :
                tr' = [tr EXCEPT !.freespace = @ \cup {p}] /\ UNCHANGED rb

(* check_extents_to_backpointers decides whether the open succeeds.          *)
CheckOpened ==
    /\ rb.stage = "check"
    /\ IF ~DerivedOk(tr) THEN Stops(-1)
       ELSE /\ \/ rb.fsck /\ Goes("repair")
               \/ /\ ~rb.fsck
                  /\ rb' = [Fresh(tr) EXCEPT !.torn = rb.torn, !.stale = rb.stale]
            /\ UNCHANGED tr

-----------------------------------------------------------------------------
(* repair_derived_indexes: stale freespace entries are deleted and missing   *)
(* ones inserted, then those of the need_discard index; bit_mod_sync commits *)
(* each.  The trees after the next of them, nothing when all are done.       *)
NextRepair(t) ==
    LET stale   == t.freespace \ ExpectedFreespace(t)
        missing == ExpectedFreespace(t) \ t.freespace
        gone    == t.needDiscard \ OfType(t, "need_discard")
        absent  == OfType(t, "need_discard") \ t.needDiscard
    IN  CASE stale # {} -> {[t EXCEPT !.freespace = @ \ {p}] : p \in stale}
          [] stale = {} /\ missing # {} ->
               {[t EXCEPT !.freespace = @ \cup {p}] : p \in missing}
          [] stale \cup missing = {} /\ gone # {} ->
               {[t EXCEPT !.needDiscard = @ \ {b}] : b \in gone}
          [] OTHER -> {[t EXCEPT !.needDiscard = @ \cup {b}] : b \in absent}

Repair ==
    /\ rb.stage = "repair" /\ NextRepair(tr) # {}
    /\ tr' \in NextRepair(tr) /\ UNCHANGED rb

(* fsck_image flushes the journal, runs verify_all and drops the engine.     *)
Verify ==
    /\ rb.stage = "repair" /\ NextRepair(tr) = {}
    /\ rb' = [rb EXCEPT !.stage = "down", !.stale = FALSE,
                        !.ret = IF DerivedOk(tr) /\ BucketIndexesOk(tr) THEN 0
                                ELSE -1]
    /\ UNCHANGED tr

RecoveryStep ==
    \/ \E fsck \in BOOLEAN : OpenImage(fsck)
    \/ ClearAlloc \/ ClearFreespace \/ ClearBackpointers \/ RebuildExtents
    \/ Restore \/ RebuildFreespace \/ CheckOpened \/ Repair \/ Verify

-----------------------------------------------------------------------------
(* What a reader of the alloc tree can tell apart; a rebuild does not keep   *)
(* the sequence that emptied the bucket.                                     *)
Visible(t) == [t EXCEPT !.alloc = [b \in Bucket |-> [@[b] EXCEPT !.seqEmpty = 0]]]

(* Opening an image is invisible: when rebuild_derived_state is through, the *)
(* trees are those the engine had when it stopped, wherever it was killed    *)
(* and however often the open was, outside the window in which the alloc     *)
(* records are in memory only; and no open or fsck fails, not even after a   *)
(* crash in that window.                                                     *)
RebuildExact ==
    /\ rb.stage = "check" /\ ~rb.torn => Visible(tr) = Visible(rb.before)
    /\ rb.ret = 0
=============================================================================
