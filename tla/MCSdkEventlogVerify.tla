------------------------ MODULE MCSdkEventlogVerify ------------------------
(* Instantiation of SdkEventlogVerify for TLC: two IMRs, two digests; the *)
(* cfgs bound the logs (MaxEvents).                                        *)
EXTENDS SdkEventlogVerify, TLC

CONSTANTS d1, d2

MCRegs == {0, 1}
MCDigests == {d1, d2}

\* Digests are only compared for equality.
MCSymmetry == Permutations(MCDigests)
=============================================================================
