--------------------------- MODULE ReplayVerifier ---------------------------
(***************************************************************************)
(* What a replay-and-compare verifier of measurement registers promises,  *)
(* with no replay, no hashing and no platform in it: each check of a       *)
(* register ends with a verdict, and the verdict is tied to whether the    *)
(* event log served for that register is the one that was measured.       *)
(*                                                                         *)
(*   - "failed" is always possible (an unreadable log or live value);      *)
(*   - the runtime register is never judged when IMA over RTMR is on and   *)
(*     its log is missing;                                                 *)
(*   - a check whose log and live value were read consistently verifies    *)
(*     exactly the genuine logs and reports a mismatch for the others;     *)
(*   - a check of the runtime register that raced an IMA extension never   *)
(*     verifies: the live value holds an extension the replay has not.     *)
(***************************************************************************)
EXTENDS Sequences

CONSTANTS
    Regs,               \* the registers that can be checked
    RUNTIME_REGISTER    \* the register that IMA extends at run time

VARIABLES
    tampered,      \* the registers whose served log differs from the measured one
    ima_missing,   \* IMA over RTMR is on and its log cannot be read
    results        \* the verdicts, in the order the checks ended

vars == <<tampered, ima_missing, results>>

Init ==
    /\ tampered \in SUBSET Regs
    /\ ima_missing \in BOOLEAN
    /\ results = <<>>

\* The verdicts a check of register r may end with.
Allowed(r, raced) ==
    CASE r = RUNTIME_REGISTER /\ ima_missing -> {"failed"}
      [] raced                               -> {"failed", "mismatch"}
      [] r \in tampered                      -> {"failed", "mismatch"}
      [] OTHER                               -> {"failed", "verified"}

\* A check of register r ends.  Only the runtime register can race IMA.
Judge(r, v, raced) ==
    /\ raced => r = RUNTIME_REGISTER
    /\ v \in Allowed(r, raced)
    /\ results' = Append(results, [reg |-> r, verdict |-> v, raced |-> raced])
    /\ UNCHANGED <<tampered, ima_missing>>

Next ==
    \E r \in Regs, v \in {"verified", "mismatch", "failed"}, raced \in BOOLEAN :
        Judge(r, v, raced)

Spec == Init /\ [][Next]_vars

=============================================================================
