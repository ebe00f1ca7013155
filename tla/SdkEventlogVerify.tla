------------------------- MODULE SdkEventlogVerify -------------------------
(***************************************************************************)
(* Event-log verification through the CCNP SDK, as done by                 *)
(* src/container/ccnp-example/ccnp_example.py -v:                          *)
(*   evt = CcnpSdk.inst().get_cc_eventlog()                                *)
(*   replay = CcnpSdk.inst().replay_cc_eventlog(evt)                       *)
(*   for r in replay: m = get_cc_measurement([r, 12]); compare             *)
(* and by test_eventlog_verify (src/test/ci-test/py-test/test_ccnp.py and  *)
(* test_cima.py), the same loop with an assert in place of the log line.   *)
(* CcnpSdk (src/sdk/python3/ccnp/sdk.py) turns the server's event records  *)
(* into TcgImrEvent / TcgPcClientImrEvent objects and reads live IMRs.     *)
(* replay_cc_eventlog belongs to cctrusted_base, outside the repository:   *)
(* it is part of the environment, and extends each TcgImrEvent's digest    *)
(* into its IMR and skips the single-digest (TcgPcClientImrEvent) records. *)
(* SHA-384 is a collision-free hash, as in EventLogActor: a register value *)
(* is the sequence of digests extended into it.                            *)
(***************************************************************************)
EXTENDS Naturals, Sequences, SequencesExt

CONSTANTS
    Regs,          \* IMR indices
    Digests,       \* digests (model values)
    MaxEvents,     \* bound on the length of the event log
    NoneValue      \* Python None

-----------------------------------------------------------------------------
(* The server's records (ccnp_server_pb2 event logs): a record carries a   *)
(* list of digests, or none and a single legacy digest.                    *)
ServerEvent ==
    {[imr_index |-> r, digests |-> <<>>, digest |-> d] : r \in Regs, d \in Digests}
    \cup {[imr_index |-> r, digests |-> <<d>>, digest |-> d] : r \in Regs, d \in Digests}

\* The SDK's event objects.
SdkEvent == [type : {"TcgImrEvent", "TcgPcClientImrEvent"}, imr_index : Regs,
             digests : Seq(Digests), digest : Digests]

\* get_cc_eventlog, one record: TcgImrEvent when it has digests, otherwise
\* TcgPcClientImrEvent with its single digest.
ToSdkEvent(evt) ==
    IF Len(evt.digests) > 0
      THEN [type |-> "TcgImrEvent", imr_index |-> evt.imr_index,
            digests |-> evt.digests, digest |-> evt.digest]
      ELSE [type |-> "TcgPcClientImrEvent", imr_index |-> evt.imr_index,
            digests |-> <<>>, digest |-> evt.digest]

\* Mutant: resp.event_logs is returned without conversion.
ToSdkEventsRaw(event_logs) == event_logs

\* Mutant: each record is put in front of the previous ones.
ToSdkEventsPrepend(event_logs) ==
    [k \in DOMAIN event_logs |-> ToSdkEvent(event_logs[Len(event_logs) - k + 1])]

\* get_cc_eventlog: every record, in the server's order.
ToSdkEvents(event_logs) == [k \in DOMAIN event_logs |-> ToSdkEvent(event_logs[k])]

-----------------------------------------------------------------------------
(* The environment: the platform and cctrusted_base's replay.              *)

\* The digests extended into IMR r by the records of a server log: the
\* platform only extends records that carry a digest list.
MeasuredDigests(log, r) ==
    LET es == SelectSeq(log, LAMBDA e : e.imr_index = r /\ e.digests # <<>>)
    IN  [k \in DOMAIN es |-> es[k].digests[1]]

\* replay_cc_eventlog(evt): IMR -> value for the IMRs that TcgImrEvents
\* extend, and the order of the dict's keys (first extension first).
Extended(evt) == SelectSeq(evt, LAMBDA e : e.type = "TcgImrEvent")
ReplayValue(evt, r) ==
    LET es == SelectSeq(Extended(evt), LAMBDA e : e.imr_index = r)
    IN  [k \in DOMAIN es |-> es[k].digests[1]]
RECURSIVE FirstSeen(_, _)
FirstSeen(es, seen) ==
    IF es = <<>> THEN seen
    ELSE FirstSeen(Tail(es),
                   IF \E k \in DOMAIN seen : seen[k] = Head(es).imr_index
                     THEN seen ELSE Append(seen, Head(es).imr_index))
ReplayKeys(evt) == FirstSeen(Extended(evt), <<>>)

VARIABLES
    measured,      \* the records whose digests the platform extended
    served,        \* the records the server returns to get_cc_eventlog
    container_id,  \* _get_container_id() finds a docker / kubelet mount
    evt,           \* the example's evt (a sequence, or NoneValue)
    keys,          \* the IMRs of replay still to verify, in order
    program,       \* "example" (ccnp_example.py -v) or "test" (test_eventlog_verify)
    phase,         \* "start", "fetched", "loop", "done", "crashed" or "failed"
    verdict,       \* IMR -> "none", "verified" or "mismatch" (the log lines)
    results        \* history: the verdicts in the order the loop reached them

vars == <<measured, served, container_id, evt, keys, program, phase, verdict, results>>

Tampered(r) == MeasuredDigests(served, r) # MeasuredDigests(measured, r)

\* The live IMR value read by get_cc_measurement.
Live(r) == MeasuredDigests(measured, r)

TypeOK ==
    /\ measured \in Seq(ServerEvent) /\ served \in Seq(ServerEvent)
    /\ container_id \in BOOLEAN
    /\ evt \in Seq(SdkEvent) \cup {NoneValue}
    /\ keys \in Seq(Regs)
    /\ program \in {"example", "test"}
    /\ phase \in {"start", "fetched", "loop", "done", "crashed", "failed"}
    /\ verdict \in [Regs -> {"none", "verified", "mismatch"}]
    /\ results \in Seq([reg : Regs, verdict : {"verified", "mismatch"}, raced : {FALSE}])

Init ==
    /\ measured \in SeqOf(ServerEvent, MaxEvents)
    /\ served \in SeqOf(ServerEvent, MaxEvents)
    /\ container_id \in BOOLEAN
    /\ evt = NoneValue
    /\ keys = <<>>
    /\ program \in {"example", "test"}
    /\ phase = "start"
    /\ verdict = [r \in Regs |-> "none"]
    /\ results = <<>>

-----------------------------------------------------------------------------
(* Steps of the example.                                                   *)

\* CcnpSdk.get_cc_eventlog(): None without a container ID; with one, the
\* stub call raises grpc.RpcError when the server is not serving, and
\* otherwise the records are converted (a protobuf reply is never None and
\* its repeated field event_logs is never None).
GetCcEventlog ==
    /\ phase = "start"
    /\ \/ ~container_id /\ evt' = NoneValue /\ phase' = "fetched"
       \/ container_id /\ evt' = NoneValue /\ phase' = "crashed"
       \/ container_id /\ evt' = ToSdkEvents(served) /\ phase' = "fetched"
    /\ UNCHANGED <<measured, served, container_id, keys, program, verdict, results>>

\* replay_cc_eventlog(evt): iterating over None raises.
ReplayCcEventlog ==
    /\ phase = "fetched"
    /\ IF evt = NoneValue
         THEN /\ phase' = "crashed"
              /\ UNCHANGED keys
         ELSE /\ keys' = ReplayKeys(evt)
              /\ phase' = "loop"
    /\ UNCHANGED <<measured, served, container_id, evt, program, verdict, results>>

\* CcnpSdk.get_cc_measurement([r, 12]) when it returns: the live IMR value
\* (the container ID was found for get_cc_eventlog and mountinfo does not
\* change; the reply's measurement field is never None).
GetCcMeasurement(r) == Live(r)

\* The outcome of comparing IMR r's live value m with its replayed value.
Outcome(r, m) == IF m = ReplayValue(evt, r) THEN "verified" ELSE "mismatch"

\* The loop reaches a verdict for IMR r.
Judge(r, v) ==
    /\ verdict' = [verdict EXCEPT ![r] = v]
    /\ results' = Append(results, [reg |-> r, verdict |-> v, raced |-> FALSE])

\* get_cc_measurement raises grpc.RpcError (the server stopped serving
\* after get_cc_eventlog); nothing catches it, in either program.
MeasurementRaises ==
    /\ phase' = "crashed"
    /\ UNCHANGED <<keys, verdict, results>>

\* One iteration of the example's "for r in replay": the live value is
\* compared with the replayed one and the result logged.
VerifyImr ==
    LET r == Head(keys) IN
    /\ phase = "loop" /\ program = "example"
    /\ keys # <<>>
    /\ \/ MeasurementRaises
       \/ /\ Judge(r, Outcome(r, GetCcMeasurement(r)))
          /\ keys' = Tail(keys)
          /\ UNCHANGED phase
    /\ UNCHANGED <<measured, served, container_id, evt, program>>

\* One iteration of the test's loop: assert m.hash == replay[r][12]; the
\* first mismatch raises AssertionError and the test fails.
AssertImr ==
    LET r == Head(keys) IN
    /\ phase = "loop" /\ program = "test"
    /\ keys # <<>>
    /\ \/ MeasurementRaises
       \/ LET v == Outcome(r, GetCcMeasurement(r)) IN
          /\ Judge(r, v)
          /\ keys' = Tail(keys)
          /\ phase' = IF v = "mismatch" THEN "failed" ELSE phase
    /\ UNCHANGED <<measured, served, container_id, evt, program>>

\* The loop ends.
VerifyDone ==
    /\ phase = "loop"
    /\ keys = <<>>
    /\ phase' = "done"
    /\ UNCHANGED <<measured, served, container_id, evt, keys, program, verdict, results>>

Next == GetCcEventlog \/ ReplayCcEventlog \/ VerifyImr \/ AssertImr \/ VerifyDone

Spec == Init /\ [][Next]_vars

-----------------------------------------------------------------------------
(* Properties.                                                             *)

\* Both programs implement the abstract verifier: an IMR is reported as
\* matching exactly when its served log is the measured one, and as "does
\* not match" otherwise; the SDK's conversion keeps every record, in order,
\* with the right shape, so replay never diverges by itself.  No IMA runs
\* in this model: no register is the runtime one and no check races.
Verifier == INSTANCE ReplayVerifier
    WITH tampered <- {r \in Regs : Tampered(r)}, ima_missing <- FALSE,
         RUNTIME_REGISTER <- NoneValue
ImplementsVerifier == Verifier!Spec

\* The IMRs the platform measured.
MeasuredRegs == {r \in Regs : MeasuredDigests(measured, r) # <<>>}

\* Spec sections 4.6 and 7: once the example has an event log, its report
\* names every measured IMR with a verdict, the IMR whose live read failed
\* counting as Failed(MeasurementUnavailable); one IMR's failure does not
\* abort the others.  The example loops over the IMRs that
\* replay_cc_eventlog returns, i.e. those the served log extends, and an
\* exception from get_cc_measurement ends the loop.
EveryRegisterReported ==
    program = "example" /\ phase \in {"done", "crashed"} /\ evt # NoneValue =>
        \A r \in MeasuredRegs :
            \/ verdict[r] # "none"
            \/ phase = "crashed" /\ keys # <<>> /\ r = Head(keys)

=============================================================================
