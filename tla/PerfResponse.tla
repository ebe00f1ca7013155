---------------------------- MODULE PerfResponse ----------------------------
(***************************************************************************)
(* The response-time test of src/container/ccnp-perf/ccnp_perf.py          *)
(* (_test_response): RESPONSE_TEST_REPEAT_TIME times, the parent starts    *)
(* one process running _timing_response (_start_proc_and_wait), which      *)
(* times one service call and puts the cost on its Queue; the parent gets  *)
(* the cost, joins the process, and adds the cost to t_cost_total.         *)
(*                                                                         *)
(* A cost is a member of the small set Costs: the two time_ns() readings   *)
(* are abstracted to their difference.  The service call may return or,    *)
(* when CallsMayFail, raise and end the child before its put.              *)
(***************************************************************************)
EXTENDS Naturals, Sequences, Functions

CONSTANTS
    RepeatTimes,    \* RESPONSE_TEST_REPEAT_TIME
    Costs,          \* possible values of t_end - t_begin
    CallsMayFail    \* the service call may raise

ASSUME RepeatTimes \in Nat \ {0}

VARIABLES
    ppc,            \* parent: "start", "get", "join" or "done"
    iter,           \* processes started so far (the for loop's counter)
    r,              \* _start_proc_and_wait: r
    t_cost_total,   \* _test_response: t_cost_total
    cpc,            \* the current child: "none", "running", "exited", "died"
    queue,          \* the current child's multiprocessing.Queue
    measured        \* history: the t_cost of every child that timed its call

vars == <<ppc, iter, r, t_cost_total, cpc, queue, measured>>

\* repeat_times = RESPONSE_TEST_REPEAT_TIME; t_cost_total = 0
Init ==
    /\ ppc = "start"
    /\ iter = 0
    /\ r = 0
    /\ t_cost_total = 0
    /\ cpc = "none"
    /\ queue = <<>>
    /\ measured = <<>>

-----------------------------------------------------------------------------
(* The parent (_test_response and _start_proc_and_wait).                   *)

\* res_queue = Queue(); p = Process(...); p.start()
StartProcAndWait ==
    /\ ppc = "start"
    /\ iter < RepeatTimes
    /\ iter' = iter + 1
    /\ queue' = <<>>
    /\ cpc' = "running"
    /\ ppc' = "get"
    /\ UNCHANGED <<r, t_cost_total, measured>>

\* r = res_queue.get(): blocks until the child has put its cost.
ParentGet ==
    /\ ppc = "get"
    /\ queue # <<>>
    /\ r' = Head(queue)
    /\ queue' = Tail(queue)
    /\ ppc' = "join"
    /\ UNCHANGED <<iter, t_cost_total, cpc, measured>>

\* Mutant: the cost replaces the total (t_cost_total = t_cost).
ParentJoinOverwrite ==
    /\ ppc = "join"
    /\ cpc \in {"exited", "died"}
    /\ t_cost_total' = r
    /\ ppc' = IF iter = RepeatTimes THEN "done" ELSE "start"
    /\ UNCHANGED <<iter, r, cpc, queue, measured>>

\* p.join(); return r; t_cost_total += t_cost; the loop ends after
\* repeat_times iterations.
ParentJoin ==
    /\ ppc = "join"
    /\ cpc \in {"exited", "died"}
    /\ t_cost_total' = t_cost_total + r
    /\ ppc' = IF iter = RepeatTimes THEN "done" ELSE "start"
    /\ UNCHANGED <<iter, r, cpc, queue, measured>>

-----------------------------------------------------------------------------
(* The child (_timing_response).                                           *)

\* t_begin; svc_call() returns; t_end; res_queue.put(t_cost); exit.
TimingResponse ==
    /\ cpc = "running"
    /\ \E c \in Costs :
          /\ measured' = Append(measured, c)
          /\ queue' = Append(queue, c)
    /\ cpc' = "exited"
    /\ UNCHANGED <<ppc, iter, r, t_cost_total>>

\* svc_call() raises: the process ends without putting a cost.
SvcCallRaises ==
    /\ CallsMayFail
    /\ cpc = "running"
    /\ cpc' = "died"
    /\ UNCHANGED <<ppc, iter, r, t_cost_total, queue, measured>>

Next ==
    \/ StartProcAndWait \/ ParentGet \/ ParentJoin
    \/ TimingResponse \/ SvcCallRaises

\* Processes are scheduled and, with no deadline on the call, the server is
\* assumed to answer; a call is not assumed to fail.
Fairness ==
    /\ WF_vars(StartProcAndWait) /\ WF_vars(ParentGet) /\ WF_vars(ParentJoin)
    /\ WF_vars(TimingResponse)

Spec == Init /\ [][Next]_vars /\ Fairness

-----------------------------------------------------------------------------
(* Properties.                                                             *)

\* The average divides by repeat_times: when the loop ends, exactly
\* repeat_times children timed a call and t_cost_total is the sum of all
\* their costs, each counted once.
AverageOverAllRepeats ==
    ppc = "done" =>
        /\ Len(measured) = RepeatTimes
        /\ t_cost_total = SumFunction(measured)

=============================================================================
