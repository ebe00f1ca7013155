--------------------------- MODULE MCSdkSingleton ---------------------------
(* Instantiation of SdkSingleton for TLC: three threads calling inst().     *)
EXTENDS SdkSingleton, TLC

CONSTANTS t1, t2, t3

MCThreads == {t1, t2, t3}
=============================================================================
