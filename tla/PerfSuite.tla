----------------------------- MODULE PerfSuite -----------------------------
(***************************************************************************)
(* The pytest session over src/container/ccnp-perf/ccnp_perf.py: the test  *)
(* functions run one after the other in file order, a throughput test and  *)
(* a response-time test for each of get_cc_measurement, get_cc_eventlog    *)
(* and get_cc_report, then test_ccnp_init, whose body is a TODO.  Each     *)
(* throughput test is _test_throughput (PerfHarness) and each response     *)
(* test _test_response (PerfResponse), started afresh.  The _sdk_*         *)
(* wrappers differ only in the SDK call svc_call makes, which both models  *)
(* abstract to a call that returns or raises; the pytest process never     *)
(* calls the SDK itself, so a test inherits nothing from the ones before   *)
(* it but the fact that they returned.                                     *)
(***************************************************************************)
EXTENDS Naturals, Sequences

CONSTANTS TaskNum, MaxCalls, CallsMayFail, NoneValue, RepeatTimes, Costs

VARIABLES
    test,                                          \* the test function running
    tp_ppc, next, cnt_total, tp_cpc, tpc, ev_stop, \* _test_throughput
    cnt, result, tp_queue, completed, at_stop,
    rp_ppc, iter, r, t_cost_total, rp_cpc,         \* _test_response
    rp_queue, measured

T == INSTANCE PerfHarness WITH ppc <- tp_ppc, cpc <- tp_cpc, queue <- tp_queue
R == INSTANCE PerfResponse WITH ppc <- rp_ppc, cpc <- rp_cpc, queue <- rp_queue

tvars == <<tp_ppc, next, cnt_total, tp_cpc, tpc, ev_stop, cnt, result, tp_queue, completed, at_stop>>
rvars == <<rp_ppc, iter, r, t_cost_total, rp_cpc, rp_queue, measured>>
svars == <<test, tvars, rvars>>

\* The SDK calls of the _sdk_* wrappers.
SvcCalls == {"get_cc_measurement", "get_cc_eventlog", "get_cc_report"}

\* test_svc_*_throughput / test_svc_*_response and test_ccnp_init, in file order.
Tests ==
    <<[kind |-> "throughput", svc |-> "get_cc_measurement"],
      [kind |-> "response", svc |-> "get_cc_measurement"],
      [kind |-> "throughput", svc |-> "get_cc_eventlog"],
      [kind |-> "response", svc |-> "get_cc_eventlog"],
      [kind |-> "throughput", svc |-> "get_cc_report"],
      [kind |-> "response", svc |-> "get_cc_report"],
      [kind |-> "init", svc |-> "none"]>>

Init == test = 1 /\ T!Init /\ R!Init

Running(kind) == test <= Len(Tests) /\ Tests[test].kind = kind

\* A step of the running test function.
ThroughputStep(A) == Running("throughput") /\ A /\ UNCHANGED <<test, rvars>>
ResponseStep(A) == Running("response") /\ A /\ UNCHANGED <<test, tvars>>

\* The running test function has returned (test_ccnp_init at once).
Finished ==
    CASE Tests[test].kind = "throughput" -> tp_ppc = "done"
      [] Tests[test].kind = "response"   -> rp_ppc = "done"
      [] OTHER                           -> TRUE

\* _test_throughput starts: no process, cnt_total = 0.
ResetThroughput ==
    /\ tp_ppc' = "spawn" /\ next' = 1 /\ cnt_total' = 0
    /\ tp_cpc' = [t \in T!Tasks |-> "new"] /\ tpc' = [t \in T!Tasks |-> "idle"]
    /\ ev_stop' = [t \in T!Tasks |-> FALSE] /\ cnt' = [t \in T!Tasks |-> 0]
    /\ result' = [t \in T!Tasks |-> 0] /\ tp_queue' = [t \in T!Tasks |-> <<>>]
    /\ completed' = [t \in T!Tasks |-> 0] /\ at_stop' = [t \in T!Tasks |-> 0]

\* _test_response starts: t_cost_total = 0.
ResetResponse ==
    /\ rp_ppc' = "start" /\ iter' = 0 /\ r' = 0 /\ t_cost_total' = 0
    /\ rp_cpc' = "none" /\ rp_queue' = <<>> /\ measured' = <<>>

\* pytest calls the next test function once the running one has returned.
NextTest ==
    /\ test <= Len(Tests) /\ Finished
    /\ test' = test + 1
    /\ IF test' > Len(Tests) THEN UNCHANGED <<tvars, rvars>>
       ELSE CASE Tests[test'].kind = "throughput" -> ResetThroughput /\ UNCHANGED rvars
              [] Tests[test'].kind = "response"   -> ResetResponse /\ UNCHANGED tvars
              [] OTHER                            -> UNCHANGED <<tvars, rvars>>

Next ==
    \/ ThroughputStep(T!Next)
    \/ ResponseStep(R!Next)
    \/ NextTest

\* The fairness of the two tests (every step but a raising call), and
\* pytest moving on.
Fairness ==
    /\ WF_svars(ThroughputStep(T!StartProc)) /\ WF_svars(ThroughputStep(T!ParentGet))
    /\ WF_svars(ThroughputStep(T!ParentJoin))
    /\ \A t \in T!Tasks :
          /\ WF_svars(ThroughputStep(T!SvcCallReturns(t)))
          /\ WF_svars(ThroughputStep(T!CheckStop(t)))
          /\ WF_svars(ThroughputStep(T!Timeout(t)))
          /\ WF_svars(ThroughputStep(T!FutureRaises(t)))
          /\ WF_svars(ThroughputStep(T!PutCount(t)))
    /\ WF_svars(ResponseStep(R!StartProcAndWait)) /\ WF_svars(ResponseStep(R!ParentGet))
    /\ WF_svars(ResponseStep(R!ParentJoin)) /\ WF_svars(ResponseStep(R!TimingResponse))
    /\ WF_svars(NextTest)

Spec == Init /\ [][Next]_svars /\ Fairness

-----------------------------------------------------------------------------
(* Properties.                                                             *)

\* The throughput test's TypeOK holds in every test of the session.
TypeOK == T!TypeOK /\ test \in 1..(Len(Tests) + 1)

\* In every throughput test, the running cnt_total is at every moment the
\* number of calls that returned in the children whose count the parent
\* has taken (PerfHarness!RunningTotalExact).
ThroughputTotalExact == T!RunningTotalExact

\* In every throughput test, each child's count includes at most one call
\* made after its timeout fired (PerfHarness!LateCallsAtMostOne).
ThroughputOvercountAtMostOne == T!LateCallsAtMostOne

\* In every response test, the average divides the sum of exactly
\* repeat_times costs (PerfResponse!AverageOverAllRepeats).
ResponseAverageExact == R!AverageOverAllRepeats

\* A service call raised in some child of some test.
CallRaised == (\E t \in T!Tasks : tpc[t] = "raised") \/ rp_cpc = "died"

\* The session ends: every test function returns.
SuiteCompletes == <>(test > Len(Tests))

\* The session ends in every run in which no service call raises.
SuiteCompletesUnlessCallFails == [](~CallRaised) => SuiteCompletes

=============================================================================
