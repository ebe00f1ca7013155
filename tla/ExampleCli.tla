----------------------------- MODULE ExampleCli -----------------------------
(***************************************************************************)
(* The two command-line programs over the CCNP SDK:                        *)
(* src/container/ccnp-example/ccnp_example.py and src/test/perf/py_perf.py.*)
(* Both parse -r, -e, -m (and the example -v) and run the first flag given *)
(* in the order of their if/elif chain: -r dumps get_cc_report(), -e dumps *)
(* every event of get_cc_eventlog(), -m logs the hash of IMRs 0, 1 and 3;  *)
(* without a flag they print the help.  The example calls CcnpSdk.inst()   *)
(* before every SDK call, py_perf once before it looks at the flags; the   *)
(* singleton is built by the first call that finds the server (SdkSingleton*)
(* models its construction).  -v is the loop of SdkEventlogVerify.  The   *)
(* timing lines of py_perf and the printed text are left out.              *)
(*                                                                         *)
(* An SDK query returns None when mountinfo names no container, raises     *)
(* when the server is not serving (grpc.RpcError, or inst()'s RuntimeError *)
(* / ConnectionRefusedError before the singleton exists), and otherwise    *)
(* returns the converted reply; get_cc_report returns None for a cc_type   *)
(* other than TDX.                                                         *)
(***************************************************************************)
EXTENDS Naturals, Sequences

CONSTANTS
    NoneValue,   \* Python None
    Raised       \* an exception out of the SDK call

\* The flags each program parses, in the order its if/elif chain tests them.
Flags == [ccnp_example |-> <<"r", "e", "m", "v">>, py_perf |-> <<"r", "e", "m">>]

\* for i in [0, 1, 3]
MeasuredImrs == <<0, 1, 3>>

VARIABLES
    cli,           \* the program run
    flags,         \* the flags on its command line
    in_container,  \* /proc/self/mountinfo has a docker or kubelet line
    cc_type,       \* the cc_type the server reports ("TDX" or another)
    serving,       \* the server answers RPCs
    created,       \* CcnpSdk._inst has been built
    mode,          \* the branch of the if/elif chain taken
    phase,         \* "start", "parsed", "run", "done", "raised", "crashed", "verify"
    imrs,          \* -m: the IMR indices still to read
    dumped,        \* -r / -e: the report or the events were dumped
    logged         \* -m: the IMR indices whose hash was logged

vars == <<cli, flags, in_container, cc_type, serving, created, mode, phase, imrs, dumped, logged>>

Ended == {"done", "raised", "crashed"}

TypeOK ==
    /\ cli \in {"ccnp_example", "py_perf"}
    /\ flags \subseteq {"r", "e", "m", "v"}
    /\ in_container \in BOOLEAN /\ cc_type \in {"TDX", "other"}
    /\ serving \in BOOLEAN /\ created \in BOOLEAN
    /\ mode \in {"none", "r", "e", "m", "v", "help"}
    /\ phase \in {"start", "parsed", "run", "verify"} \cup Ended
    /\ imrs \in Seq({0, 1, 3})
    /\ dumped \in BOOLEAN /\ logged \in Seq({0, 1, 3})

Init ==
    /\ cli \in {"ccnp_example", "py_perf"}
    /\ flags \in SUBSET {Flags[cli][k] : k \in DOMAIN Flags[cli]}
    /\ in_container \in BOOLEAN
    /\ cc_type \in {"TDX", "other"}
    /\ serving \in BOOLEAN
    /\ created = FALSE
    /\ mode = "none"
    /\ phase = IF cli = "py_perf" THEN "start" ELSE "parsed"
    /\ imrs = <<>>
    /\ dumped = FALSE
    /\ logged = <<>>

-----------------------------------------------------------------------------
(* The SDK as the programs see it.                                         *)

\* An SDK query that needs the container ID: inst() raises before the
\* singleton exists when the server is down; the query returns None without
\* a container ID; the stub call raises when the server is not serving.
SdkCall(value) ==
    CASE ~created /\ ~serving -> Raised
      [] ~in_container        -> NoneValue
      [] ~serving             -> Raised
      [] OTHER                -> value

\* get_cc_report(): a TdxQuote for a TDX cc_type, None for any other.
GetCcReport == SdkCall(IF cc_type = "TDX" THEN "quote" ELSE NoneValue)

\* inst() during a query: the singleton exists once the server was found.
InstBuilt == created' = (created \/ serving)

\* The outcome of a step that uses the result res of an SDK call: the
\* exception propagates, a None is dereferenced (AttributeError on .dump()
\* or .hash, TypeError on iterating it), a value is dumped.
Use(res) ==
    CASE res = Raised    -> phase' = "raised"
      [] res = NoneValue -> phase' = "crashed"
      [] OTHER           -> phase' = "done"

-----------------------------------------------------------------------------
(* The programs.                                                           *)

\* py_perf: inst = CcnpSdk.inst() before the flags are looked at.
PyPerfInst ==
    /\ phase = "start"
    /\ IF serving THEN created' = TRUE /\ phase' = "parsed"
                  ELSE phase' = "raised" /\ UNCHANGED created
    /\ UNCHANGED <<cli, flags, in_container, cc_type, serving, mode, imrs, dumped, logged>>

\* The if/elif chain: the first flag given, in the program's order, or help.
Dispatch ==
    /\ phase = "parsed"
    /\ LET order == Flags[cli]
           given == {k \in DOMAIN order : order[k] \in flags}
       IN  mode' = IF given = {} THEN "help"
                   ELSE order[CHOOSE k \in given : \A j \in given : k <= j]
    /\ phase' = IF mode' = "v" THEN "verify" ELSE "run"
    /\ imrs' = IF mode' = "m" THEN MeasuredImrs ELSE <<>>
    /\ UNCHANGED <<cli, flags, in_container, cc_type, serving, created, dumped, logged>>

\* parser.print_help()
PrintHelp ==
    /\ phase = "run" /\ mode = "help"
    /\ phase' = "done"
    /\ UNCHANGED <<cli, flags, in_container, cc_type, serving, created, mode, imrs, dumped, logged>>

\* -r: get_cc_report().dump()
ReportMode ==
    /\ phase = "run" /\ mode = "r"
    /\ InstBuilt
    /\ Use(GetCcReport)
    /\ dumped' = (phase' = "done")
    /\ UNCHANGED <<cli, flags, in_container, cc_type, serving, mode, imrs, logged>>

\* -e: evt = get_cc_eventlog(); for e in evt: e.dump()
EventlogMode ==
    /\ phase = "run" /\ mode = "e"
    /\ InstBuilt
    /\ Use(SdkCall("events"))
    /\ dumped' = (phase' = "done")
    /\ UNCHANGED <<cli, flags, in_container, cc_type, serving, mode, imrs, logged>>

\* -m, one iteration: m = get_cc_measurement([i, 12]); log m.hash.hex().
MeasureImr ==
    /\ phase = "run" /\ mode = "m"
    /\ imrs # <<>>
    /\ InstBuilt
    /\ LET m == SdkCall("digest") IN
         IF m = "digest"
           THEN logged' = Append(logged, Head(imrs)) /\ imrs' = Tail(imrs) /\ UNCHANGED phase
           ELSE Use(m) /\ UNCHANGED <<imrs, logged>>
    /\ UNCHANGED <<cli, flags, in_container, cc_type, serving, mode, dumped>>

\* -m: the loop over [0, 1, 3] ends.
MeasureDone ==
    /\ phase = "run" /\ mode = "m"
    /\ imrs = <<>>
    /\ phase' = "done"
    /\ UNCHANGED <<cli, flags, in_container, cc_type, serving, created, mode, imrs, dumped, logged>>

\* The environment: the server stops, or starts again.
ServerChange ==
    /\ serving' = ~serving
    /\ UNCHANGED <<cli, flags, in_container, cc_type, created, mode, phase, imrs, dumped, logged>>

Next ==
    \/ PyPerfInst \/ Dispatch \/ PrintHelp
    \/ ReportMode \/ EventlogMode \/ MeasureImr \/ MeasureDone
    \/ ServerChange

Spec == Init /\ [][Next]_vars

-----------------------------------------------------------------------------
(* Properties.                                                             *)

\* The program printed what its mode asks for.
Printed ==
    CASE mode \in {"r", "e"} -> dumped
      [] mode = "m"          -> logged = MeasuredImrs
      [] OTHER               -> TRUE

\* Every run of either program ends in one of two ways: it printed all that
\* its mode asks for (the report, the events, the hash of each of IMRs 0, 1
\* and 3), or it stopped on the SDK's own exception for an unavailable
\* server.  A None that the SDK documents as its failure result ("Return
\* None if it fails") is never used as if it were a result.
CliReportsOrRaises ==
    phase \in Ended => \/ phase = "raised"
                       \/ phase = "done" /\ Printed

=============================================================================
