\* Two threads calling the SDK against a server that may be down, starting
\* or up, may restart at any time, and may hang.
CONSTANTS
    t1 = t1
    t2 = t2
    i1 = i1
    NoneValue = NoneValue
    Threads <- MCThreads
    Ids <- MCIds
    Script <- MCScript
    MaxObjects = 5
    MaxMountLines = 2
    HangPossible = TRUE

SPECIFICATION ClientSpec

INVARIANT ContainerIdIsFirstMatch
PROPERTY CallsEndUnlessServerHangs
