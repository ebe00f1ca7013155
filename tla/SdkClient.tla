------------------------------ MODULE SdkClient ------------------------------
(***************************************************************************)
(* Application threads that use the SDK the way the CIMA tests and the    *)
(* CCNP example do: every call is Sdk.inst().<method>(...).  The queries   *)
(* are those of CimaSdk (src/sdk/python3/cima/sdk.py; CcnpSdk in           *)
(* src/sdk/python3/ccnp/sdk.py is the same code under other names), and    *)
(* inst() / __init__ are the ones modelled by SdkSingleton, which this     *)
(* module composes with the queries.                                       *)
(*                                                                         *)
(* A query either needs no container ID (get_default_algorithms,           *)
(* get_measurement_count) or first scans /proc/self/mountinfo and returns  *)
(* None when no line names a docker or kubelet path.  Then it makes one    *)
(* blocking stub call with no deadline: the server answers, the channel    *)
(* fails (grpc.RpcError, not caught), or, when the server process hangs    *)
(* with its socket open, the call never returns.  Replies are protobuf     *)
(* messages, whose fields are never None, so the "response is not correct" *)
(* branches are not reachable and are not modelled.                        *)
(***************************************************************************)
EXTENDS SdkSingleton, SequencesExt

CONSTANTS
    Script,         \* per thread: the SDK methods it calls, in order
    Ids,            \* path components that follow a docker / kubelet pattern
    MaxMountLines,  \* bound on the length of mountinfo
    HangPossible    \* the server process may stop answering with its socket open

NeedsContainerId == {"get_cc_measurement", "get_cc_report", "get_cc_eventlog"}

\* A line of /proc/self/mountinfo: does it contain "/docker/containers/",
\* "/kubelet/pods/", and the path component after the pattern.
MountLine == [docker : BOOLEAN, k8s : BOOLEAN, id : Ids]

\* The ID taken from a matching line: after the docker pattern, or after
\* the kubelet pattern with '-' replaced by '_' (the docker test is first).
IdOf(line) ==
    IF line.docker THEN [form |-> "docker", id |-> line.id]
                   ELSE [form |-> "k8s_underscored", id |-> line.id]

Matches(line) == line.docker \/ line.k8s

\* Mutant: the loop does not return at a match and keeps the last one.
RECURSIVE ScanLastMatch(_)
ScanLastMatch(lines) ==
    IF lines = <<>> THEN NoneValue
    ELSE LET rest == ScanLastMatch(Tail(lines))
         IN  IF rest # NoneValue THEN rest
             ELSE IF Matches(Head(lines)) THEN IdOf(Head(lines)) ELSE NoneValue

\* _get_container_id: read the lines in order and return at the first one
\* that matches; None at the end of the file.
RECURSIVE GetContainerId(_)
GetContainerId(lines) ==
    IF lines = <<>> THEN NoneValue
    ELSE IF Matches(Head(lines)) THEN IdOf(Head(lines))
    ELSE GetContainerId(Tail(lines))

VARIABLES
    mountinfo,     \* the lines of /proc/self/mountinfo (fixed for the process)
    hung,          \* the server process has stopped answering RPCs
    step,          \* per thread: the index in Script of its current call
    inflight,      \* per thread: the method whose stub call is in flight, or NoneValue
    container_id   \* the container ID the last query computed

client == <<mountinfo, hung, step, inflight, container_id>>
cvars == <<vars, client>>

ClientInit ==
    /\ Init
    /\ mountinfo \in SeqOf(MountLine, MaxMountLines)
    /\ hung = FALSE
    /\ step = [t \in Threads |-> 1]
    /\ inflight = [t \in Threads |-> NoneValue]
    /\ container_id = NoneValue

\* The call of thread t returns or raises (the value returned, a converted
\* reply or None, is abstracted); the next call starts with inst().
EndCall(t) ==
    /\ step' = [step EXCEPT ![t] = @ + 1]
    /\ inflight' = [inflight EXCEPT ![t] = NoneValue]
    /\ tpc' = [tpc EXCEPT ![t] = "start"]

-----------------------------------------------------------------------------
(* The environment: the server starts, stops or restarts (SdkSingleton's   *)
(* ServerChange, after which the new process answers), or hangs.           *)

ServerRestart ==
    /\ ServerChange
    /\ hung' = FALSE
    /\ UNCHANGED <<mountinfo, step, inflight, container_id>>

ServerHangs ==
    /\ HangPossible
    /\ server = "up" /\ ~hung
    /\ hung' = TRUE
    /\ UNCHANGED <<vars, mountinfo, step, inflight, container_id>>

-----------------------------------------------------------------------------
(* A thread: inst() (SdkSingleton), then the method.                       *)

InInst(t) ==
    /\ step[t] <= Len(Script[t])
    /\ \/ InstCheck(t) \/ InitSocketCheck(t) \/ ChannelReady(t)
       \/ ChannelTimeout(t) \/ Assign(t)
    /\ UNCHANGED client

\* inst() raised (RuntimeError or ConnectionRefusedError): so does the call.
InstRaised(t) ==
    /\ tpc[t] = "raised"
    /\ step[t] <= Len(Script[t])
    /\ EndCall(t)
    /\ UNCHANGED <<server, inst, created, ready, mine, holds, mountinfo, hung, container_id>>

\* The method m starts on the object inst() returned: a query that needs
\* the container ID returns None without one; otherwise the stub is called.
Invoke(t, m) ==
    /\ tpc[t] = "has"
    /\ step[t] <= Len(Script[t]) /\ Script[t][step[t]] = m
    /\ inflight[t] = NoneValue
    /\ IF m \in NeedsContainerId
         THEN /\ container_id' = GetContainerId(mountinfo)
              /\ IF container_id' = NoneValue
                   THEN EndCall(t)
                   ELSE inflight' = [inflight EXCEPT ![t] = m] /\ UNCHANGED <<step, tpc>>
         ELSE /\ inflight' = [inflight EXCEPT ![t] = m]
              /\ UNCHANGED <<step, tpc, container_id>>
    /\ UNCHANGED <<server, inst, created, ready, mine, holds, mountinfo, hung>>

GetDefaultAlgorithms(t) == Invoke(t, "get_default_algorithms")
GetMeasurementCount(t) == Invoke(t, "get_measurement_count")
GetCcMeasurement(t) == Invoke(t, "get_cc_measurement")
GetCcReport(t) == Invoke(t, "get_cc_report")
GetCcEventlog(t) == Invoke(t, "get_cc_eventlog")

\* The stub call answers and the method converts the reply (get_cc_report
\* returns None for a cc_type other than TDX).
RpcReturns(t) ==
    /\ inflight[t] # NoneValue
    /\ server = "up" /\ ~hung
    /\ EndCall(t)
    /\ UNCHANGED <<server, inst, created, ready, mine, holds, mountinfo, hung, container_id>>

\* The server is not serving: the stub raises grpc.RpcError, which no
\* method catches.
RpcRaises(t) ==
    /\ inflight[t] # NoneValue
    /\ server # "up"
    /\ EndCall(t)
    /\ UNCHANGED <<server, inst, created, ready, mine, holds, mountinfo, hung, container_id>>

ThreadStep(t) ==
    \/ InInst(t) \/ InstRaised(t)
    \/ GetDefaultAlgorithms(t) \/ GetMeasurementCount(t) \/ GetCcMeasurement(t)
    \/ GetCcReport(t) \/ GetCcEventlog(t)
    \/ RpcReturns(t) \/ RpcRaises(t)

ClientNext == ServerRestart \/ ServerHangs \/ \E t \in Threads : ThreadStep(t)

\* Threads are scheduled, the channel wait ends by TIMEOUT, and a server
\* that serves and has not hung answers; the server is not assumed to
\* come up, to stay up, or to recover from a hang.
ClientSpec == ClientInit /\ [][ClientNext]_cvars /\ \A t \in Threads : WF_cvars(ThreadStep(t))

-----------------------------------------------------------------------------
(* Properties.                                                             *)

\* Reference for _get_container_id: the ID of the first mountinfo line that
\* names a docker or kubelet path, None when there is none.
FirstMatch(lines) ==
    LET hits == {k \in DOMAIN lines : Matches(lines[k])}
    IN  IF hits = {} THEN NoneValue ELSE IdOf(lines[Min(hits)])

\* Every container ID a query sends is the one of the first matching line
\* of mountinfo, the same for every call of every thread.
ContainerIdIsFirstMatch == container_id \in {NoneValue, FirstMatch(mountinfo)}

\* Every SDK call of every thread returns or raises, whatever the server
\* does, as long as it answers when it serves: inst() is bounded by
\* TIMEOUT, and a channel to a server that is not serving fails at once.
EveryCallEnds == \A t \in Threads : <>(step[t] > Len(Script[t]))

\* Every SDK call of every thread ends in each run in which the server
\* process never hangs (it may still stop, start and restart).
CallsEndUnlessServerHangs == [](~hung) => EveryCallEnds

=============================================================================
