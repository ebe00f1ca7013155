\* ccnp_example.py -v and test_eventlog_verify against a server whose records
\* may differ from the measured ones.
CONSTANTS
    d1 = d1
    d2 = d2
    NoneValue = NoneValue
    Regs <- MCRegs
    Digests <- MCDigests
    MaxEvents = 3

SPECIFICATION Spec
SYMMETRY MCSymmetry

INVARIANT TypeOK
PROPERTY ImplementsVerifier

\* The example exits after its loop or an exception.
CHECK_DEADLOCK FALSE
