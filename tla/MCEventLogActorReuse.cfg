\* Two replay() calls on the same CCEventLogActor.
CONSTANTS
    d1 = d1
    d2 = d2
    Regs <- MCRegs
    Digests <- MCDigests
    RUNTIME_REGISTER = 2
    MaxBootEvents = 2
    MaxImaEvents = 2
    MaxReplays = 2
    NewActorPerReplay = FALSE

SPECIFICATION Spec
SYMMETRY MCSymmetry

INVARIANT NoFalseMismatch

CHECK_DEADLOCK FALSE
