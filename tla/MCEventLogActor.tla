-------------------------- MODULE MCEventLogActor --------------------------
(* Instantiation of EventLogActor for TLC: one ordinary register and the   *)
(* runtime register, two digests, logs of up to two events.                *)
EXTENDS EventLogActor, TLC

CONSTANTS d1, d2

MCRegs == {1, 2}
MCDigests == {d1, d2}

\* Digests are only compared for equality.
MCSymmetry == Permutations(MCDigests)
=============================================================================
