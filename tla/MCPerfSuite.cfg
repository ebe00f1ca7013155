\* The six perf tests in order, against a server whose calls may return or raise.
CONSTANTS
    NoneValue = NoneValue
    TaskNum = 2
    MaxCalls = 2
    CallsMayFail = TRUE
    RepeatTimes = 3
    Costs <- MCCosts

SPECIFICATION Spec

INVARIANT TypeOK
INVARIANT ThroughputTotalExact
INVARIANT ThroughputOvercountAtMostOne
INVARIANT ResponseAverageExact
PROPERTY SuiteCompletesUnlessCallFails

\* The session ends after test_ccnp_init, and a parent that waits on a dead
\* child hangs (MCPerfSuiteCallFails.cfg).
CHECK_DEADLOCK FALSE
