--------------------------- MODULE EventLogActor ---------------------------
(***************************************************************************)
(* Replay-and-verify of TDX RTMRs as done by CCEventLogActor               *)
(* (src/test/e2e-test/py-test/pysdk_utils.py) and driven by the RTMR tests *)
(* (src/test/e2e-test/py-test/test_rtmrs.py), against the platform that    *)
(* writes the boot-time event log, the IMA runtime log and the live RTMRs. *)
(*                                                                         *)
(* SHA-384 is modelled as a collision-free hash: a register value is the   *)
(* sequence of digests extended into it since the all-zero value, so two   *)
(* values are equal exactly when the same digests were extended in the     *)
(* same order.  bytes.fromhex(rtmr.hex() + digest_hex) is the byte         *)
(* concatenation rtmr ++ digest, which is what Extend hashes.              *)
(***************************************************************************)
EXTENDS Naturals, Sequences, SequencesExt

CONSTANTS
    Regs,               \* RTMR indices the tests replay
    RUNTIME_REGISTER,   \* CCEventLogActor.RUNTIME_REGISTER (2)
    Digests,            \* event digests (model values)
    MaxBootEvents,      \* bound on the length of the boot-time event log
    MaxImaEvents,       \* bound on the length of the IMA runtime log
    MaxReplays,         \* bound on the number of replay() calls
    NewActorPerReplay   \* TRUE: each replay() is on a fresh CCEventLogActor()

ASSUME RUNTIME_REGISTER \in Regs
ASSUME NewActorPerReplay \in BOOLEAN

-----------------------------------------------------------------------------
(* The replay algorithm (the code).                                        *)

\* bytearray(RTMR.RTMR_LENGTH_BY_BYTES): the all-zero register.
RTMR_ZERO == <<>>

\* Mutant: the hash input drops the accumulator (sha384(digest)).
ExtendDigestOnly(rtmr, digest) == <<digest>>

\* sha384(rtmr ++ digest).digest()
Extend(rtmr, digest) == Append(rtmr, digest)

\* A boot-time event as returned by Eventlog.get_platform_eventlog().
BootEvent == [reg_idx : Regs, digest : Digests]

\* boot_time_event_logs_by_index[index]: the events of one register, in log order.
EventsOfIndex(logs, index) == SelectSeq(logs, LAMBDA e : e.reg_idx = index)

\* _replay_single_boot_time_rtmr: fold the digests of the events into zero.
ReplaySingleBootTimeRtmr(event_logs) ==
    FoldLeft(Extend, RTMR_ZERO, [k \in DOMAIN event_logs |-> event_logs[k].digest])

\* _replay_runtime_rtmr for a non-empty log: continue the chain from base
\* with the digest field (elements[2]) of every runtime line.
ReplayRuntimeRtmr(event_logs, base) == FoldLeft(Extend, base, event_logs)

\* RTMR.__eq__: byte-wise equality over the full 48 bytes.
RtmrEq(a, b) == a = b

-----------------------------------------------------------------------------
(* The platform (not the code): the TDX module extends the live RTMRs and  *)
(* the kernel's IMA extends RUNTIME_REGISTER and appends to its log in one *)
(* step.                                                                   *)

HwExtend(rtmr, digest) == Append(rtmr, digest)

\* The digests the firmware really extended into register r, in order.
MeasuredDigests(log, r) ==
    LET es == SelectSeq(log, LAMBDA e : e.reg_idx = r)
    IN  [k \in DOMAIN es |-> es[k].digest]

VARIABLES
    boot_log,             \* the boot-time events the firmware measured
    served_log,           \* what Eventlog.get_platform_eventlog() returns
    ima_enabled,          \* "ima_hash=sha384" is on /proc/cmdline
    ima_file_present,     \* ascii_runtime_measurements is visible to the test
    ima_log,              \* digests of the IMA runtime log, in order
    live,                 \* live RTMR values, reg -> register value
    boot_time_event_logs, \* CCEventLogActor._boot_time_event_logs
    runtime_event_logs,   \* CCEventLogActor._runtime_event_logs
    pc,                   \* where the current replay() / test is
    index,                \* replay(index)
    rtmr_value,           \* replay(): rtmr_value
    ima_flag,             \* replay(): ima_flag
    ima_seen,             \* length of the IMA log when replay() read it
    results               \* verdicts of the finished tests, in order

platform == <<boot_log, served_log, ima_enabled, ima_file_present, ima_log, live>>
actor == <<boot_time_event_logs, runtime_event_logs>>
call == <<pc, index, rtmr_value, ima_flag, ima_seen>>
vars == <<platform, actor, call, results>>

\* The served event log differs from the measured one for register r.
Tampered(r) == MeasuredDigests(served_log, r) # MeasuredDigests(boot_log, r)

Verdicts == {"verified", "mismatch", "failed"}

\* A verdict, and whether the IMA log grew between the runtime-log read and
\* the live-RTMR read of this test.
Result == [reg : Regs, verdict : Verdicts, raced : BOOLEAN]

TypeOK ==
    /\ boot_log \in Seq(BootEvent) /\ served_log \in Seq(BootEvent)
    /\ ima_enabled \in BOOLEAN /\ ima_file_present \in BOOLEAN
    /\ ima_log \in Seq(Digests)
    /\ live \in [Regs -> Seq(Digests)]
    /\ boot_time_event_logs \in Seq(BootEvent)
    /\ runtime_event_logs \in Seq(Digests)
    /\ pc \in {"idle", "runtime", "live"}
    /\ index \in Regs
    /\ rtmr_value \in Seq(Digests)
    /\ ima_flag \in BOOLEAN
    /\ ima_seen \in Nat
    /\ results \in Seq(Result)

Init ==
    /\ boot_log \in SeqOf(BootEvent, MaxBootEvents)
    /\ served_log \in SeqOf(BootEvent, MaxBootEvents)
    /\ ima_enabled \in BOOLEAN
    /\ ima_file_present \in BOOLEAN
    \* With IMA on, the log starts with the boot_aggregate entry.
    /\ ima_log \in IF ima_enabled THEN {<<d>> : d \in Digests} ELSE {<<>>}
    /\ live = [r \in Regs |->
                 FoldLeft(HwExtend, RTMR_ZERO, MeasuredDigests(boot_log, r))
                 \o (IF r = RUNTIME_REGISTER THEN ima_log ELSE <<>>)]
    /\ boot_time_event_logs = <<>>
    /\ runtime_event_logs = <<>>
    /\ pc = "idle"
    /\ index = RUNTIME_REGISTER
    /\ rtmr_value = RTMR_ZERO
    /\ ima_flag = FALSE
    /\ ima_seen = 0
    /\ results = <<>>

\* The test of register r ends with verdict v.
Finish(r, v, raced) ==
    /\ results' = Append(results, [reg |-> r, verdict |-> v, raced |-> raced])
    /\ pc' = "idle"

-----------------------------------------------------------------------------
(* Actions of the test and of CCEventLogActor.replay().                    *)

\* test_rtmrN: CCEventLogActor() (unless the actor is reused), then replay()
\* up to the /proc/cmdline check: fetch the boot-time log, keep the events
\* of index, replay them from zero, and read the IMA flag.
ReplayBootTime(i) ==
    /\ pc = "idle"
    /\ Len(results) < MaxReplays
    /\ index' = i
    /\ runtime_event_logs' = IF NewActorPerReplay THEN <<>> ELSE runtime_event_logs
    /\ boot_time_event_logs' = served_log
    /\ rtmr_value' = ReplaySingleBootTimeRtmr(EventsOfIndex(served_log, i))
    /\ ima_flag' = ima_enabled
    /\ ima_seen' = 0
    /\ pc' = "runtime"
    /\ UNCHANGED <<platform, results>>

\* get_platform_eventlog() raises: the test fails.
BootLogUnavailable(i) ==
    /\ pc = "idle"
    /\ Len(results) < MaxReplays
    /\ index' = i
    /\ Finish(i, "failed", FALSE)
    /\ UNCHANGED <<platform, actor, rtmr_value, ima_flag, ima_seen>>

\* Not the runtime register, or IMA over RTMR not enabled: the boot-time
\* value is the replay result.
SkipRuntime ==
    /\ pc = "runtime"
    /\ ~(index = RUNTIME_REGISTER /\ ima_flag)
    /\ pc' = "live"
    /\ UNCHANGED <<platform, actor, index, rtmr_value, ima_flag, ima_seen, results>>

\* assert os.path.exists(ima_measurement_file) fails.
ImaFileMissing ==
    /\ pc = "runtime"
    /\ index = RUNTIME_REGISTER /\ ima_flag
    /\ ~ima_file_present
    /\ Finish(index, "failed", FALSE)
    /\ UNCHANGED <<platform, actor, index, rtmr_value, ima_flag, ima_seen>>

\* _fetch_runtime_event_logs: every line of the file is appended to
\* _runtime_event_logs, which is never cleared.
FetchRuntimeEventLogs == runtime_event_logs \o ima_log

\* replay() fetches the runtime log; _replay_runtime_rtmr continues from rtmr_value and
\* raises UnboundLocalError (sha384_algo unset) when there is no line.
ReplayRuntime ==
    LET logs == FetchRuntimeEventLogs
    IN  /\ pc = "runtime"
        /\ index = RUNTIME_REGISTER /\ ima_flag
        /\ ima_file_present
        /\ runtime_event_logs' = logs
        /\ ima_seen' = Len(ima_log)
        /\ IF logs = <<>>
             THEN /\ Finish(index, "failed", FALSE)
                  /\ UNCHANGED rtmr_value
             ELSE /\ rtmr_value' = ReplayRuntimeRtmr(logs, rtmr_value)
                  /\ pc' = "live"
                  /\ UNCHANGED results
        /\ UNCHANGED <<platform, boot_time_event_logs, index, ima_flag>>

\* Measurement.get_platform_measurement(TYPE_TDX_RTMR, None, index), then
\* assert rtmr_val == replay_val.
CompareLive ==
    /\ pc = "live"
    /\ Finish(index, IF RtmrEq(live[index], rtmr_value) THEN "verified" ELSE "mismatch",
              index = RUNTIME_REGISTER /\ ima_flag /\ ima_seen # Len(ima_log))
    /\ UNCHANGED <<platform, actor, index, rtmr_value, ima_flag, ima_seen>>

\* The live measurement cannot be read: the test fails.
LiveUnavailable ==
    /\ pc = "live"
    /\ Finish(index, "failed", FALSE)
    /\ UNCHANGED <<platform, actor, index, rtmr_value, ima_flag, ima_seen>>

\* IMA measures a file: it extends RUNTIME_REGISTER and appends the line.
\* The kernel adds no measurement whose digest is already in its list, so
\* the IMA log (boot_aggregate included) never holds a digest twice.
ImaMeasure(d) ==
    /\ ima_enabled
    /\ d \notin Range(ima_log)
    /\ Len(ima_log) < MaxImaEvents
    /\ ima_log' = Append(ima_log, d)
    /\ live' = [live EXCEPT ![RUNTIME_REGISTER] = HwExtend(@, d)]
    /\ UNCHANGED <<boot_log, served_log, ima_enabled, ima_file_present,
                   actor, call, results>>

Next ==
    \/ \E i \in Regs : ReplayBootTime(i) \/ BootLogUnavailable(i)
    \/ SkipRuntime
    \/ ImaFileMissing
    \/ ReplayRuntime
    \/ CompareLive
    \/ LiveUnavailable
    \/ \E d \in Digests : ImaMeasure(d)

Spec == Init /\ [][Next]_vars

-----------------------------------------------------------------------------
(* Properties.                                                             *)

\* A mismatch is only reported when the served boot-time log differs from
\* what was measured, or when IMA extended the runtime register between the
\* test's read of the IMA log and its read of the live RTMR: replay() itself
\* never produces a false alarm (replay order, register filtering, runtime
\* continuation from the boot-time value, fresh runtime lines per call).
NoFalseMismatch ==
    \A k \in DOMAIN results :
        results[k].verdict = "mismatch" => Tampered(results[k].reg) \/ results[k].raced

\* The tests, with CCEventLogActor, implement the abstract verifier: a
\* consistently read register verifies exactly when its served log is the
\* measured one (no false alarm from replay order, register filtering,
\* the runtime continuation or stale runtime lines, and no event lost by
\* the folds), and the runtime register is never judged without its IMA
\* log (the assert in replay()).
Verifier == INSTANCE ReplayVerifier WITH
    tampered    <- {r \in Regs : Tampered(r)},
    ima_missing <- ima_enabled /\ ~ima_file_present,
    results     <- results

ImplementsVerifier == Verifier!Spec

\* A test of a register whose served log is the measured one never fails
\* its assert rtmr_val == replay_val on a mismatch.  test_rtmr2 reads the
\* IMA log in replay() and the live RTMR afterwards, so a file IMA measures
\* in between makes the live register one extension ahead of the replay.
GenuineLogNeverMismatches ==
    \A k \in DOMAIN results :
        ~Tampered(results[k].reg) => results[k].verdict # "mismatch"

=============================================================================
