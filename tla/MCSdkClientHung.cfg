\* Two threads calling the SDK against a server process that may stop
\* answering with its socket open: no stub call has a deadline.
CONSTANTS
    t1 = t1
    t2 = t2
    i1 = i1
    NoneValue = NoneValue
    Threads <- MCThreads
    Ids <- MCIds
    Script <- MCScript
    MaxObjects = 5
    MaxMountLines = 2
    HangPossible = TRUE

SPECIFICATION ClientSpec

PROPERTY EveryCallEnds
