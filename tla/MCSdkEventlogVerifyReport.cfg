\* ccnp_example.py -v against a server whose records may differ from the
\* measured ones and which may stop serving during the loop.
CONSTANTS
    d1 = d1
    d2 = d2
    NoneValue = NoneValue
    Regs <- MCRegs
    Digests <- MCDigests
    MaxEvents = 2

SPECIFICATION Spec
SYMMETRY MCSymmetry

INVARIANT EveryRegisterReported

\* The example exits after its loop or an exception.
CHECK_DEADLOCK FALSE
