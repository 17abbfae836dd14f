---------------------------- MODULE MCBtreeNode ----------------------------
(* Instances of BtreeNode for TLC.                                           *)
EXTENDS BtreeNode
=============================================================================
