\* get_bytes and RTMR.__eq__ on blobs shorter than, as long as and longer
\* than the register, with and without python -O.
CONSTANTS
    NoneValue = NoneValue
    AssertionError = AssertionError
    OutOfRange = OutOfRange
    Bytes <- MCBytes
    Width = 2
    MaxLen = 3

SPECIFICATION Spec

INVARIANT GetBytesKeepsReadContract
