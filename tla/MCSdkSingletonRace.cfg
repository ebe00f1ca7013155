\* Threads that both find _inst unset each build and return their own object.
CONSTANTS
    t1 = t1
    t2 = t2
    t3 = t3
    NoneValue = NoneValue
    MaxObjects = 3
    Threads <- MCThreads

SPECIFICATION Spec

INVARIANT SingleInstance

