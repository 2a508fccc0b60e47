--------------------------- MODULE MCBlobManager ---------------------------
(* An instance of BlobManager for TLC. *)
EXTENDS BlobManager, TLC

CONSTANTS k1, k2, b1, b2, b3, c1, c2
=============================================================================
