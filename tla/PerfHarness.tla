---------------------------- MODULE PerfHarness ----------------------------
(***************************************************************************)
(* The throughput test of src/container/ccnp-perf/ccnp_perf.py             *)
(* (_test_throughput): the parent starts TaskNum processes; in each,       *)
(* _cnt_operations runs _repeat_svc_call on a one-worker thread pool until *)
(* the timeout, then sets ev_stop, waits for the thread's count and puts   *)
(* it on the process's Queue; the parent gets each count, joins each       *)
(* process in turn and sums the counts.                                    *)
(*                                                                         *)
(* The service call (an SDK call over gRPC, with no deadline) may return   *)
(* or, when CallsMayFail, raise.  Time is abstract: the timeout may fire   *)
(* at any moment while the thread runs, and at the latest once the thread  *)
(* has completed MaxCalls calls.                                           *)
(***************************************************************************)
EXTENDS Naturals, Sequences, Functions

CONSTANTS
    TaskNum,        \* THROUGHPUT_TEST_TASK_NUM
    MaxCalls,       \* calls a thread completes before the timeout at the latest
    CallsMayFail,   \* the service call may raise (gRPC error, no server)
    NoneValue       \* Python None

ASSUME TaskNum \in Nat \ {0} /\ MaxCalls \in Nat \ {0}

Tasks == 1..TaskNum

VARIABLES
    ppc,          \* parent: "spawn", "get", "join" or "done"
    next,         \* parent: the task it starts, gets or joins next
    cnt_total,    \* parent: cnt_total
    cpc,          \* child main thread: "new", "waiting", "stopping", "exited", "died"
    tpc,          \* pool thread: "idle", "calling", "check", "returned", "raised"
    ev_stop,      \* the child's threading.Event
    cnt,          \* _repeat_svc_call: cnt
    result,       \* the future's result
    queue,        \* the child's multiprocessing.Queue
    completed,    \* service calls that returned in the child (history)
    at_stop       \* completed when the child's ev_stop was set (history)

vars == <<ppc, next, cnt_total, cpc, tpc, ev_stop, cnt, result, queue, completed, at_stop>>

TypeOK ==
    /\ ppc \in {"spawn", "get", "join", "done"}
    /\ next \in Tasks
    /\ cnt_total \in Nat
    /\ cpc \in [Tasks -> {"new", "waiting", "stopping", "exited", "died"}]
    /\ tpc \in [Tasks -> {"idle", "calling", "check", "returned", "raised"}]
    /\ ev_stop \in [Tasks -> BOOLEAN]
    /\ cnt \in [Tasks -> Nat]
    /\ result \in [Tasks -> Nat]
    /\ queue \in [Tasks -> Seq(Nat)]
    /\ completed \in [Tasks -> Nat]
    /\ at_stop \in [Tasks -> Nat]

Init ==
    /\ ppc = "spawn"
    /\ next = 1
    /\ cnt_total = 0
    /\ cpc = [t \in Tasks |-> "new"]
    /\ tpc = [t \in Tasks |-> "idle"]
    /\ ev_stop = [t \in Tasks |-> FALSE]
    /\ cnt = [t \in Tasks |-> 0]
    /\ result = [t \in Tasks |-> 0]
    /\ queue = [t \in Tasks |-> <<>>]
    /\ completed = [t \in Tasks |-> 0]
    /\ at_stop = [t \in Tasks |-> 0]

child == <<cpc, tpc, ev_stop, cnt, result, queue, completed, at_stop>>

-----------------------------------------------------------------------------
(* The parent (_test_throughput).                                          *)

\* _start_proc: a Process running _cnt_operations, whose pool thread starts
\* calling the service.
StartProc ==
    /\ ppc = "spawn"
    /\ cpc' = [cpc EXCEPT ![next] = "waiting"]
    /\ tpc' = [tpc EXCEPT ![next] = "calling"]
    /\ IF next = TaskNum
         THEN ppc' = "get" /\ next' = 1
         ELSE next' = next + 1 /\ UNCHANGED ppc
    /\ UNCHANGED <<cnt_total, ev_stop, cnt, result, queue, completed, at_stop>>

\* Mutant: the count replaces the total (cnt_total = cnt).
ParentGetOverwrite ==
    /\ ppc = "get"
    /\ queue[next] # <<>>
    /\ cnt_total' = Head(queue[next])
    /\ queue' = [queue EXCEPT ![next] = Tail(@)]
    /\ ppc' = "join"
    /\ UNCHANGED <<next, cpc, tpc, ev_stop, cnt, result, completed, at_stop>>

\* cnt = t.queue.get(): blocks until the child has put its count.
ParentGet ==
    /\ ppc = "get"
    /\ queue[next] # <<>>
    /\ cnt_total' = cnt_total + Head(queue[next])
    /\ queue' = [queue EXCEPT ![next] = Tail(@)]
    /\ ppc' = "join"
    /\ UNCHANGED <<next, cpc, tpc, ev_stop, cnt, result, completed, at_stop>>

\* t.proc.join(): blocks until the child has ended.
ParentJoin ==
    /\ ppc = "join"
    /\ cpc[next] \in {"exited", "died"}
    /\ IF next = TaskNum
         THEN ppc' = "done" /\ UNCHANGED next
         ELSE ppc' = "get" /\ next' = next + 1
    /\ UNCHANGED <<cnt_total, child>>

-----------------------------------------------------------------------------
(* A child process: its pool thread (_repeat_svc_call) and its main thread *)
(* (_timeout_fn, then res_queue.put).                                      *)

\* svc_call() returns; cnt += 1.
SvcCallReturns(t) ==
    /\ tpc[t] = "calling"
    /\ completed[t] < MaxCalls \/ ev_stop[t]
    /\ cnt' = [cnt EXCEPT ![t] = @ + 1]
    /\ completed' = [completed EXCEPT ![t] = @ + 1]
    /\ tpc' = [tpc EXCEPT ![t] = "check"]
    /\ UNCHANGED <<ppc, next, cnt_total, cpc, ev_stop, result, queue, at_stop>>

\* svc_call() raises: the exception ends the thread and is the future's.
SvcCallRaises(t) ==
    /\ CallsMayFail
    /\ tpc[t] = "calling"
    /\ tpc' = [tpc EXCEPT ![t] = "raised"]
    /\ UNCHANGED <<ppc, next, cnt_total, cpc, ev_stop, cnt, result, queue, completed, at_stop>>

\* Mutant: ev_stop is only polled after every second call
\* (if cnt % 2 == 0 and ev_stop.is_set()).
CheckStopEverySecondCall(t) ==
    /\ tpc[t] = "check"
    /\ IF ev_stop[t] /\ cnt[t] % 2 = 0
         THEN tpc' = [tpc EXCEPT ![t] = "returned"] /\ result' = [result EXCEPT ![t] = cnt[t]]
         ELSE tpc' = [tpc EXCEPT ![t] = "calling"] /\ UNCHANGED result
    /\ UNCHANGED <<ppc, next, cnt_total, cpc, ev_stop, cnt, queue, completed, at_stop>>

\* Mutant: a bare return once the stop is set.
CheckStopReturnNone(t) ==
    /\ tpc[t] = "check"
    /\ IF ev_stop[t]
         THEN tpc' = [tpc EXCEPT ![t] = "returned"] /\ result' = [result EXCEPT ![t] = NoneValue]
         ELSE tpc' = [tpc EXCEPT ![t] = "calling"] /\ UNCHANGED result
    /\ UNCHANGED <<ppc, next, cnt_total, cpc, ev_stop, cnt, queue, completed, at_stop>>

\* if ev_stop.is_set(): return cnt; otherwise call again.
CheckStop(t) ==
    /\ tpc[t] = "check"
    /\ IF ev_stop[t]
         THEN tpc' = [tpc EXCEPT ![t] = "returned"] /\ result' = [result EXCEPT ![t] = cnt[t]]
         ELSE tpc' = [tpc EXCEPT ![t] = "calling"] /\ UNCHANGED result
    /\ UNCHANGED <<ppc, next, cnt_total, cpc, ev_stop, cnt, queue, completed, at_stop>>

\* Mutant: the timeout is caught but ev_stop is never set.
TimeoutNoStop(t) ==
    /\ cpc[t] = "waiting"
    /\ tpc[t] \in {"calling", "check"}
    /\ cpc' = [cpc EXCEPT ![t] = "stopping"]
    /\ UNCHANGED <<ppc, next, cnt_total, tpc, ev_stop, cnt, result, queue, completed, at_stop>>

\* future.result(timeout) raises TimeoutError: ev_stop.set(), then wait on
\* future.result() without a timeout.
Timeout(t) ==
    /\ cpc[t] = "waiting"
    /\ tpc[t] \in {"calling", "check"}
    /\ ev_stop' = [ev_stop EXCEPT ![t] = TRUE]
    /\ at_stop' = [at_stop EXCEPT ![t] = completed[t]]
    /\ cpc' = [cpc EXCEPT ![t] = "stopping"]
    /\ UNCHANGED <<ppc, next, cnt_total, tpc, cnt, result, queue, completed>>

\* future.result(...) re-raises the thread's exception: _cnt_operations
\* ends by the exception and the process exits without putting a count.
FutureRaises(t) ==
    /\ cpc[t] \in {"waiting", "stopping"}
    /\ tpc[t] = "raised"
    /\ cpc' = [cpc EXCEPT ![t] = "died"]
    /\ UNCHANGED <<ppc, next, cnt_total, tpc, ev_stop, cnt, result, queue, completed, at_stop>>

\* future.result() returns cnt; res_queue.put(cnt); the process exits.
PutCount(t) ==
    /\ cpc[t] = "stopping"
    /\ tpc[t] = "returned"
    /\ queue' = [queue EXCEPT ![t] = Append(@, result[t])]
    /\ cpc' = [cpc EXCEPT ![t] = "exited"]
    /\ UNCHANGED <<ppc, next, cnt_total, tpc, ev_stop, cnt, result, completed, at_stop>>

ChildStep(t) ==
    \/ SvcCallReturns(t) \/ SvcCallRaises(t) \/ CheckStop(t)
    \/ Timeout(t) \/ FutureRaises(t) \/ PutCount(t)

Next ==
    \/ StartProc \/ ParentGet \/ ParentJoin
    \/ \E t \in Tasks : ChildStep(t)

\* Processes and threads are scheduled, the timeout expires and, as the
\* code has no deadline on the call, the server is assumed to answer every
\* call; a call is not assumed to fail.
Fairness ==
    /\ WF_vars(StartProc) /\ WF_vars(ParentGet) /\ WF_vars(ParentJoin)
    /\ \A t \in Tasks :
          /\ WF_vars(SvcCallReturns(t)) /\ WF_vars(CheckStop(t))
          /\ WF_vars(Timeout(t)) /\ WF_vars(FutureRaises(t)) /\ WF_vars(PutCount(t))

Spec == Init /\ [][Next]_vars /\ Fairness

-----------------------------------------------------------------------------
(* Properties.                                                             *)

\* The tasks whose count the parent has taken off their queue.
GotTasks ==
    CASE ppc = "spawn" -> {}
      [] ppc = "get"   -> 1..(next - 1)
      [] OTHER         -> 1..next

\* Whichever children have died, the parent's running cnt_total is at every
\* moment the number of service calls that returned in the children whose
\* count it has taken, the calls still in flight when their timeout fired
\* included; once the parent is done it is the total of all the children.
RunningTotalExact == cnt_total = SumFunctionOnSet(completed, GotTasks)

\* The count a child reports runs past its window by at most the call that
\* was in flight when the timeout fired: once ev_stop is set, the pool
\* thread completes at most one more service call before _repeat_svc_call
\* returns cnt.
LateCallsAtMostOne ==
    \A t \in Tasks : ev_stop[t] => completed[t] <= at_stop[t] + 1

=============================================================================
