---------------------------- MODULE MCExtentTree ----------------------------
(* Instances of ExtentTree: every way a write can lay out its pointers once. *)
EXTENDS ExtentTree

CONSTANTS d1, d2

Ptr(d, bytes, comp, cached, ec) ==
  [dev |-> d, bytes |-> bytes, comp |-> comp, cached |-> cached, ec |-> ec]

MCDevs == {d1, d2}

\* Two copies under one checksum; a compressed copy with a bare cached pointer;
\* an incompressible copy and an erasure-coded one, each with its checksum.
MCShapes == {
  <<Ptr(d1, 4, "none", FALSE, FALSE), Ptr(d2, 4, "none", FALSE, FALSE)>>,
  <<Ptr(d2, 4, "lz4", FALSE, FALSE), Ptr(d1, 0, "none", TRUE, FALSE)>>,
  <<Ptr(d1, 10, "incompressible", FALSE, FALSE), Ptr(d2, 10, "none", FALSE, TRUE)>>}

MCSizeMax == [crc32 |-> 2, crc64 |-> 4, crc128 |-> 8]
MCNonceMax == [crc32 |-> 0, crc64 |-> 1, crc128 |-> 3]
MCCsumBytesMax == [crc32 |-> 4, crc64 |-> 10, crc128 |-> 16]
=============================================================================
