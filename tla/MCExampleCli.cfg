\* ccnp_example.py and py_perf.py with any flags, inside or outside a
\* container, on a TDX or another platform, against a server that may stop
\* and start.
CONSTANTS
    NoneValue = NoneValue
    Raised = Raised

SPECIFICATION Spec

INVARIANT CliReportsOrRaises

\* Each program exits at the end of its branch.
CHECK_DEADLOCK FALSE
