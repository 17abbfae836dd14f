----------------------------- MODULE MCKeyIter -----------------------------
(* Model checking of KeyIter.                                                *)
EXTENDS KeyIter

(* From the middle of the first offset to the middle of the second.          *)
MCRanges == {<<bpos(1, 2), bpos(2, 2)>>}
=============================================================================
