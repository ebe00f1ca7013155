\* The six perf tests in order, against a server whose calls may raise.
CONSTANTS
    NoneValue = NoneValue
    TaskNum = 2
    MaxCalls = 2
    CallsMayFail = TRUE
    RepeatTimes = 3
    Costs <- MCCosts

SPECIFICATION Spec

PROPERTY SuiteCompletes

\* A hung parent is what the property is about; the finished session also stops.
CHECK_DEADLOCK FALSE
