----------------------------- MODULE BinaryBlob -----------------------------
(***************************************************************************)
(* BinaryBlob and RTMR of src/test/e2e-test/py-test/pysdk_utils.py: a byte *)
(* string read by position, get_bytes(pos, count), and the register value  *)
(* RTMR, compared over its first RTMR_LENGTH_BY_BYTES bytes.  Bytes are    *)
(* members of the small set Bytes and the register width is Width.  The    *)
(* bound check of get_bytes is an assert statement, which the interpreter  *)
(* drops under python -O: whether it runs is a choice of the build.        *)
(***************************************************************************)
EXTENDS Naturals, Sequences, SequencesExt

CONSTANTS
    Bytes,           \* byte values
    Width,           \* RTMR.RTMR_LENGTH_BY_BYTES
    MaxLen,          \* bound on the length of a blob and on pos and count
    NoneValue,       \* Python None
    AssertionError,  \* the exception a failed assert raises
    OutOfRange       \* the reader's error in spec section 4.2

VARIABLES
    data,        \* self._data of the blob read
    other,       \* the RTMR it is compared with (a replayed value: Width bytes)
    asserts,     \* assert statements run (the interpreter is not run with -O)
    call,        \* <<pos, count>> of a get_bytes call; NoneValue after a comparison
    ret          \* what the call returned, or the exception it raised

vars == <<data, other, asserts, call, ret>>

\* data[from:to]: a Python slice stops at the end of the data.
Slice(s, from, to) == SubSeq(s, from + 1, IF to < Len(s) THEN to ELSE Len(s))

\* get_bytes(pos, count): None for count == 0; the assert raises when the
\* data is too short; otherwise the slice and the new position.
GetBytes(d, pos, count) ==
    CASE count = 0                           -> NoneValue
      [] asserts /\ pos + count > Len(d)     -> AssertionError
      [] OTHER                               -> <<Slice(d, pos, pos + count), pos + count>>

\* RTMR.__eq__: unpack get_bytes(0, RTMR_LENGTH_BY_BYTES) of both values and
\* compare the two byte strings.
RtmrEq(a, b) ==
    LET x == GetBytes(a, 0, Width)
        y == GetBytes(b, 0, Width)
    IN  IF x = AssertionError \/ y = AssertionError THEN AssertionError ELSE x[1] = y[1]

Init ==
    /\ data \in SeqOf(Bytes, MaxLen)
    /\ other \in [1..Width -> Bytes]
    /\ asserts \in BOOLEAN
    /\ call = NoneValue
    /\ ret = NoneValue

\* A caller reads count bytes at pos.
GetBytesCall ==
    /\ \E pos, count \in 0..MaxLen :
          /\ call' = <<pos, count>>
          /\ ret' = GetBytes(data, pos, count)
    /\ UNCHANGED <<data, other, asserts>>

\* A test compares the blob, as an RTMR, with a replayed value.
RtmrCompare ==
    /\ call' = NoneValue
    /\ ret' = RtmrEq(data, other)
    /\ UNCHANGED <<data, other, asserts>>

Next == GetBytesCall \/ RtmrCompare

Spec == Init /\ [][Next]_vars

-----------------------------------------------------------------------------
(* Properties.                                                             *)

\* The Binary Record Reader contract of spec section 4.2: read(pos, count)
\* returns (None, pos) when count = 0, fails with OutOfRange when fewer
\* than count bytes remain, and otherwise returns the bytes and pos + count.
Read(d, pos, count) ==
    CASE count = 0                -> <<NoneValue, pos>>
      [] pos + count > Len(d)     -> OutOfRange
      [] OTHER                    -> <<SubSeq(d, pos + 1, pos + count), pos + count>>

\* Every get_bytes call keeps the reader contract, an AssertionError
\* standing for OutOfRange, in either build.
GetBytesKeepsReadContract ==
    call \in (0..MaxLen) \X (0..MaxLen) =>
        LET ref == Read(data, call[1], call[2])
        IN  ret = ref \/ (ret = AssertionError /\ ref = OutOfRange)

=============================================================================
