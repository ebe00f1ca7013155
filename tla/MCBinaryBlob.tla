---------------------------- MODULE MCBinaryBlob ----------------------------
(* BinaryBlob for TLC: two byte values, a register of two bytes, blobs,    *)
(* positions and counts up to three.                                       *)
EXTENDS BinaryBlob, TLC

MCBytes == {0, 1}
=============================================================================
