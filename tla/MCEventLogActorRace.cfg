\* test_rtmrs.py with IMA measuring files while the tests run.
CONSTANTS
    d1 = d1
    d2 = d2
    Regs <- MCRegs
    Digests <- MCDigests
    RUNTIME_REGISTER = 2
    MaxBootEvents = 2
    MaxImaEvents = 2
    MaxReplays = 2
    NewActorPerReplay = TRUE

SPECIFICATION Spec
SYMMETRY MCSymmetry

INVARIANT GenuineLogNeverMismatches

CHECK_DEADLOCK FALSE
