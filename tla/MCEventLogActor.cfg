\* test_rtmrs.py: a fresh CCEventLogActor per test.
CONSTANTS
    d1 = d1
    d2 = d2
    Regs <- MCRegs
    Digests <- MCDigests
    RUNTIME_REGISTER = 2
    MaxBootEvents = 2
    MaxImaEvents = 2
    MaxReplays = 2
    NewActorPerReplay = TRUE

SPECIFICATION Spec
SYMMETRY MCSymmetry

PROPERTY ImplementsVerifier

\* The test session ends after MaxReplays tests and IMA stops at MaxImaEvents.
CHECK_DEADLOCK FALSE
