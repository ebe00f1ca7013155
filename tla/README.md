# TLA+ models of the Container Integrity Measurement Agent (CCNP / CIMA) clients

This directory holds TLA+ models of the Python parts of this repository: the
client SDK (`src/sdk/python3/ccnp/sdk.py` and its twin `cima/sdk.py`), the
example program that uses it (`src/container/ccnp-example/ccnp_example.py`),
the replay-and-verify helper of the end-to-end tests
(`src/test/e2e-test/py-test/pysdk_utils.py`, `test_rtmrs.py`), and the
performance harness (`src/container/ccnp-perf/ccnp_perf.py`). The CCNP server,
the TDX module, the firmware, the kernel's IMA and `cctrusted_base` are not
Python code in this repository. They appear only as the environment the
clients run against.

## 1. Inventory

### Components and how they interact

| Component | Source | State | Operations |
|---|---|---|---|
| CCEventLogActor | pysdk_utils.py 51-133 | `_boot_time_event_logs`, `_runtime_event_logs` | `replay(index)`, with the fetch of the boot-time and runtime logs and the replays |
| RTMR tests | test_rtmrs.py 15-48 | none (a new actor per test) | for each test: replay, read the live RTMR, assert that they are equal |
| RTMR / BinaryBlob | pysdk_utils.py 10-49 | `_data` | `get_bytes`, `__eq__` |
| CcnpSdk construction | sdk.py 40-73 | class attribute `_inst`; `_channel`, `_stub` | `inst()`, `__init__` (socket check, channel wait with TIMEOUT) |
| CcnpSdk / CimaSdk queries | sdk.py 75-242 | none (reads `/proc/self/mountinfo`) | `_get_container_id`, `get_cc_measurement`, `get_cc_eventlog` (record conversion), `get_cc_report`, `get_default_algorithms`, `get_measurement_count` |
| Example verify loop | ccnp_example.py 38-48 | `evt`, `replay` | for each replayed IMR: read the live IMR, compare, log the result |
| Throughput harness and test order | ccnp_perf.py 57-111, 129-146, 168-194, 220-269 | per child: `ev_stop`, `cnt`, Queue; parent: `cnt_total` | start N processes; each child repeats the call on a pool thread until the timeout; the parent does get, join and sum |
| Response-time harness | ccnp_perf.py 113-127, 148-166, 196-218 | Queue | per call: start one process, get, join |
| Example CLI modes | ccnp_example.py 20-37, 49-50; py_perf.py | flags, the branch taken | `-r` dumps the report, `-e` dumps every event, `-m` logs IMRs 0, 1 and 3, no flag prints the help (py_perf times each branch) |
| docs conf | src/docs/conf.py | - | static config |

The components interact as follows:
- The tests and the example get event logs and live register values from the
  platform, either through the SDK (gRPC to the server) or directly.
- They replay the logs into register values and compare the two.
- The platform keeps extending RTMR2 through IMA while this happens.
- The perf harness calls the SDK from many processes at once.
- Inside one process, threads can call `CcnpSdk.inst()` concurrently.

### Hard behaviours (the hazards of PROJECT.json)

- **Interleavings.**
  - IMA extends RTMR2 between the read of the IMA log and the read of the live
    RTMR (pysdk_utils.py 129 vs test_rtmrs.py 37).
  - Two threads run the check-then-act in `inst()` (sdk.py 45-46) while
    `cls()` blocks.
- **Stale state.** `_runtime_event_logs` is appended to and never cleared
  (pysdk_utils.py 68).
- **Partial failure.**
  - An exception from one IMR's live read aborts the verify loop
    (ccnp_example.py 44).
  - A `None` returned by an SDK query is used as a result: `.dump()` on the
    report, iteration over the events, `m.hash` (ccnp_example.py 29, 32, 37;
    py_perf.py 37, 44, 49).
  - A missing IMA file (pysdk_utils.py 126).
  - An exception in the service call kills a perf child before it puts its
    count (ccnp_perf.py 94, 110-111).
- **Deadlock and liveness.**
  - The parent's `queue.get()` waits for a count that never comes
    (ccnp_perf.py 187, 164).
  - The child's `future.result()` returns only after the in-flight call
    (ccnp_perf.py 79).
  - The channel wait must end (sdk.py 70).
  - The stub calls have no deadline (sdk.py 108, 127, 153, 191, 226).
- **Omitted records.** The verify loop checks only the IMRs that the served
  log extends (ccnp_example.py 41).
- **Numeric edges.**
  - The call in flight when the timeout fires is counted (ccnp_perf.py 95-97).
    It must be the only call counted after the timeout.
  - `get_bytes(pos, 0)` returns `None` instead of `(None, pos)`, and under
    `python -O` an over-long read returns a short slice instead of raising
    (pysdk_utils.py 29-31).
- **Sequencing.** One hung perf test blocks every later test function of the
  session (ccnp_perf.py 233-269).

## 2. Plan

Modules are built in this order. Each has its own MC module, which gives
model values and symmetry.

1. `EventLogActor`: replay and the RTMR tests, against a platform that can
   forge the served log and run IMA at any moment. (done)
2. `SdkEventlogVerify`: the SDK's `get_cc_eventlog` conversion,
   `get_cc_measurement`, and the example's verify loop. (done)
3. `SdkSingleton`: concurrent `inst()` against a server that comes and goes.
   (done)
4. `PerfHarness`: the throughput test with its processes, pool threads,
   Event and Queues. (done)
5. `PerfResponse`: the response-time test, one process at a time, with
   get before join. (done)
6. `ReplayVerifier`: the abstract verifier (the verdict a register check may
   end with, given whether its served log is genuine). `EventLogActor`
   implements it. (done)
7. `SdkClient`: every query of the SDK, composed with `SdkSingleton`'s
   `inst()`, run by two threads against a server that restarts or hangs.
   (done)

8. `SdkEventlogVerify` refines `ReplayVerifier` too, and covers both
   programs that run the verify loop: the example and `test_eventlog_verify`,
   which asserts. (done)
9. `PerfSuite`: the pytest session of ccnp_perf.py, which composes the
   throughput and response harnesses in file order. (done)
10. `BinaryBlob`: `get_bytes` and `RTMR.__eq__`, checked against the reader
    contract of spec section 4.2. (done)
11. `ExampleCli`: the other branches of ccnp_example.py and py_perf.py.
    (done)

## 3. Modules and their correspondence to the code

### PerfResponse (ccnp_perf.py 113-127, 148-166, 196-218)

- **Parent:** `StartProcAndWait` (create the Queue and start the process),
  `ParentGet` (`r = res_queue.get()`), and `ParentJoin` (`p.join()`, return,
  `t_cost_total += t_cost`, then the loop test).
- **Child:** `TimingResponse` (the timed call and the put) or
  `SvcCallRaises`. The pass runs let calls raise. Their liveness
  properties are conditioned on no call raising, and the violation runs
  check the unconditional form.
- **Costs:** the two `time_ns()` readings are abstracted to their difference,
  a member of `Costs`.
- **Bounds:** 3 repeats and 3 costs, enough to show a lost or double-counted
  cost.

### Hash abstraction (EventLogActor, SdkEventlogVerify)

SHA-384 is taken to be collision-free. A register value is the sequence of
digests extended into it since zero: `Extend(rtmr, d) == Append(rtmr, d)`.
Two register values are therefore equal exactly when the same digests were
extended in the same order, which is the only thing the comparisons use. The
hex round trip `bytes.fromhex(rtmr.hex() + digest)` is the byte concatenation
that the hash consumes, so it adds no behaviour. Digests are model values, and
symmetry over them is sound because no definition names one.

### EventLogActor (pysdk_utils.py, test_rtmrs.py)

- **Platform variables:**
  - `boot_log` holds the events the firmware measured.
  - `served_log` is what `get_platform_eventlog()` returns, which may be
    forged.
  - The IMA switch on `/proc/cmdline` and the presence of the IMA file are
    modelled.
  - `ima_log` is the IMA log. It starts with the boot_aggregate line when IMA
    is on.
  - `live` holds the live RTMRs.
  - `ImaMeasure` is the kernel's atomic extend-and-log. As in the kernel,
    it adds no digest that is already in the log, the boot_aggregate
    included.
- **Actor variables:** the actor's two lists.
- **Call variables:** the local variables of `replay()`.
- **Actions:**
  - `ReplayBootTime` covers a new actor, the fetch, the filter, the fold and
    the cmdline check.
  - `BootLogUnavailable`, `SkipRuntime`, `ImaFileMissing`, `ReplayRuntime`
    (the fetch plus the runtime fold), `CompareLive` (the test's live read
    and assert) and `LiveUnavailable` cover the rest.
- **The `raced` flag** of a result records whether the IMA log grew between
  the two reads. It is bookkeeping for the properties and does not affect
  the code's behaviour.

### SdkEventlogVerify (sdk.py, ccnp_example.py)

- `ToSdkEvent` and `ToSdkEvents` model the conversion loop at sdk.py
  231-242.
- `GetCcEventlog` returns `None` without a container ID. With one, it either
  raises `grpc.RpcError` (the server is not serving) or converts the
  records. A protobuf reply is never `None`, so the "response is not
  correct" branch is unreachable.
- `GetCcMeasurement` is the live value. The container ID was already found,
  and mountinfo does not change.
- `ReplayCcEventlog` models the replay. `program` says which program runs the
  loop:
  - `VerifyImr` is the example's loop body. It logs the verdict and goes on.
  - `AssertImr` is the body of `test_eventlog_verify` (test_ccnp.py 30-34).
    A mismatch fails the assert, so the phase becomes "failed".
  - `MeasurementRaises` is a live read that raises `grpc.RpcError`. It
    aborts either loop.
- `Judge` appends each verdict to the history variable `results`. With it,
  the module defines `Verifier == INSTANCE ReplayVerifier WITH ...`, where
  `tampered` is the set of IMRs whose served log differs from the measured
  one. The sdk_eventlog_verify run checks `ImplementsVerifier` as a PROPERTY.
  This refinement replaces the earlier invariant that no genuine log gives a
  mismatch.
- `replay_cc_eventlog` belongs to cctrusted_base and is modelled as the
  environment: it extends the first digest of every TcgImrEvent into its IMR
  and keys the result by first appearance.

### ReplayVerifier and the refinement

`ReplayVerifier` states what a replay-and-compare verifier promises, with no
replay or hashing in it. Its state is the set of `tampered` registers, whether
the IMA log is missing, and the sequence of `results`. `Judge(r, v, raced)`
appends a verdict from `Allowed(r, raced)`:
- "failed" is always allowed;
- only "failed" is allowed for RTMR2 when IMA is on and its log is missing;
- a check that raced an IMA extension ends in "failed" or "mismatch". The
  live RTMR2 holds an extension the replay lacks. Because IMA logs no
  digest twice, the two values cannot agree, whatever the served log is;
- otherwise a tampered register gives "mismatch" and a genuine one gives
  "verified".

`EventLogActor` defines
`Verifier == INSTANCE ReplayVerifier WITH tampered <- {r \in Regs : Tampered(r)}, ima_missing <- ima_enabled /\ ~ima_file_present, results <- results`.
The eventlog_actor run checks `ImplementsVerifier == Verifier!Spec` as a
PROPERTY. This one refinement replaces the separate safety invariants of the
first version (no undetected tamper, runtime source required).

### SdkClient (cima/sdk.py 42-242, composed with SdkSingleton)

`SdkClient` EXTENDS `SdkSingleton`. Each thread runs a `Script` of SDK
methods, and each method starts with `inst()`. The modelled threads call all
five queries.
- `InInst(t)` is one `SdkSingleton` step of `inst()`. `InstRaised(t)` is
  `inst()` raising, which ends the call.
- `Invoke(t, m)` is the start of method `m`. It has two cases:
  - For the three queries that need a container ID, it sets
    `container_id' = GetContainerId(mountinfo)` and returns `None` when
    there is none.
  - Otherwise, it puts the stub call in flight.
  `GetDefaultAlgorithms` to `GetCcEventlog` are its instances.
- `GetContainerId` is the scan of `/proc/self/mountinfo` as a RECURSIVE
  operator. A line is abstracted to whether it contains each pattern and the
  path component after it. `FirstMatch` is the reference definition it is
  checked against.
- `RpcReturns` and `RpcRaises` end the stub call.
- The call cannot end while the server has `hung`, because no stub call has a
  deadline.
- `ServerRestart` (which includes `ServerChange`) and `ServerHangs` are the
  environment.
- The replies are protobuf messages, whose fields are never `None`, so the
  "response is not correct" branches are not modelled.
- `CcnpSdk` is the same code under other names.

### SdkSingleton (sdk.py 40-73)

Each thread moves through `start → init → wait → assign → has` or `raised`.
- `InstCheck` is the test of `_inst`.
- `InitSocketCheck` is the RuntimeError branch or the channel creation.
- `ChannelReady` and `ChannelTimeout` are the two outcomes of the wait.
- `Assign` is `cls._inst = cls(); return cls._inst`.
- `ServerChange` is the environment.

### PerfHarness (ccnp_perf.py)

- **Parent:** `StartProc`, `ParentGet`, `ParentJoin`.
- **Each child's pool thread:** `SvcCallReturns` / `SvcCallRaises`, then
  `CheckStop`.
- **Each child's main thread:** `Timeout` (sets `ev_stop`),
  `FutureRaises` (the exception ends the process before the put) and
  `PutCount`.
- **Time is abstract.** The timeout may fire at any point while the thread
  runs. It fires at the latest once the thread has completed `MaxCalls`
  calls, which gives the bound.
- **History variables:** `completed` counts the calls that returned in each
  child. `at_stop` holds that count at the moment `Timeout` set `ev_stop`.
  They have no counterpart in the code and serve only the two throughput
  properties.

### ExampleCli (ccnp_example.py, py_perf.py)

- `cli` is the program and `flags` its command line. The other variables
  are:
  - `in_container`: mountinfo has a docker or kubelet line;
  - `cc_type`: what the server reports;
  - `serving`: the server answers;
  - `created`: the SDK singleton exists.
- `Dispatch` is the if/elif chain. It takes the first given flag in the
  program's order, or help. `-v` hands over to the loop of
  `SdkEventlogVerify`.
- `PyPerfInst` is py_perf's `inst()` before the chain. The example calls
  `inst()` in each query (`InstBuilt`).
- `SdkCall` is a query's outcome, in the code's order:
  - `inst()` raises when there is no singleton and no server;
  - `None` without a container ID;
  - `grpc.RpcError` when the server is not serving;
  - otherwise the value.

  `GetCcReport` adds the `cc_type` check.
- `ReportMode`, `EventlogMode`, `MeasureImr` / `MeasureDone` and `PrintHelp`
  are the branches. `Use` is what a branch does with a result: an
  exception propagates, and a `None` is dereferenced.
- `ServerChange` is the environment.
- Timing and the printed text are left out.

### PerfSuite (ccnp_perf.py 220-269)

- `PerfSuite` holds one renamed `INSTANCE` of `PerfHarness` (`T`) and one of
  `PerfResponse` (`R`), and `test`, the index of the running test function in
  `Tests`. `Tests` lists the seven test functions in file order.
- `ThroughputStep(A)` and `ResponseStep(A)` run a step `A` of the instance
  that the running test uses.
- `NextTest` is pytest moving on once `Finished` holds. It resets the next
  test's instance to the start of `_test_throughput` or `_test_response`
  (`ResetThroughput` and `ResetResponse`). TLC cannot evaluate a primed
  instantiated `Init`, so these resets are written out.
- The `_sdk_*` wrappers differ only in which SDK call they make. Both
  harnesses abstract that call to one that returns or raises.

### BinaryBlob (pysdk_utils.py 10-49)

- `GetBytes` is `get_bytes`, and `Slice` is the Python slice, which stops at
  the end of the data.
- `asserts` says whether the interpreter runs assert statements, which
  `python -O` drops. Init chooses it, as it is a choice of the build.
- `GetBytesCall` is a call with any position and count. `RtmrCompare` is
  `RTMR.__eq__`.
- `Read` is the Binary Record Reader contract of spec section 4.2, and
  `GetBytesKeepsReadContract` compares every call with it.

## 4. Runs

| Run | Cfg | Expect | What it shows |
|---|---|---|---|
| eventlog_actor | MCEventLogActor.cfg | pass | With a new actor per test, a mismatch means either a forged log or the IMA race. A consistent pass means the log is genuine. A missing IMA log fails RTMR2. |
| eventlog_actor_reuse | MCEventLogActorReuse.cfg | violation | Reusing one actor for two `replay(2)` calls gives a false mismatch, because `_runtime_event_logs` accumulates. |
| eventlog_actor_ima_race | MCEventLogActorRace.cfg | violation | `GenuineLogNeverMismatches`: if IMA measures a file between `replay()`'s read of the IMA log and the test's live read, `test_rtmr2` fails on a genuine log. |
| sdk_eventlog_verify | MCSdkEventlogVerify.cfg | pass | In the example and in `test_eventlog_verify`, the verify loop implements `ReplayVerifier`. The SDK's conversion causes no false mismatch, and a tampered log is never verified. |
| perf_suite | MCPerfSuite.cfg | pass | Calls may raise. In the whole session, each throughput test's running `cnt_total` counts exactly the calls of the children already got. Each child's count includes at most one call made after its timeout (`ThroughputOvercountAtMostOne`, through the `at_stop` history). Each response test averages exactly `repeat_times` costs. The session ends whenever no call raises. |
| perf_suite_call_fails | MCPerfSuiteCallFails.cfg | violation | A raising call hangs the parent in `queue.get()` or in `_start_proc_and_wait`, and no later test runs. |
| sdk_singleton_race | MCSdkSingletonRace.cfg | violation | Two threads get two different "singletons". |
| sdk_client | MCSdkClient.cfg | pass | Two threads make five SDK calls against a server that restarts or hangs. Every query sends the ID of the first matching mountinfo line. Every call returns or raises in every run in which the server never hangs (`CallsEndUnlessServerHangs`). |
| sdk_client_hung | MCSdkClientHung.cfg | violation | A server that hangs with its socket open blocks a stub call forever: `TIMEOUT` covers only the channel wait. |
| sdk_eventlog_verify_report | MCSdkEventlogVerifyReport.cfg | violation | Spec sections 4.6 and 7 say the report names every measured IMR with a verdict or a failure. `ccnp_example.py -v` can finish with a measured IMR unreported in two ways. The served log may leave it out (for example, an empty log). Or an exception from an earlier IMR's live read may end the loop. |
| binary_blob_read_contract | MCBinaryBlob.cfg | violation | `get_bytes(pos, 0)` returns `None`, where the reader contract says `(None, pos)`. Under `python -O`, an over-long read also returns a short slice. |
| example_cli_none | MCExampleCli.cfg | violation | Outside a container, `ccnp_example.py -m` (and `-r`, `-e`, and the same py_perf branches) crashes on the `None` the SDK returns. So does `-r` on a platform other than TDX. |

The throughput hang (ccnp_perf.py 187) and the response hang (ccnp_perf.py
164) are both checked by perf_suite in their conditional form. The finding
of perf_suite_call_fails records them.

### Bounds

- **EventLogActor:**
  - 2 registers, one of them the runtime register;
  - 2 digests;
  - boot logs of up to 2 events;
  - up to 2 IMA entries;
  - 2 tests.

  This is enough for a forged event, a reordered pair, an IMA measurement
  during a test, and two tests on one actor.
- **SdkEventlogVerify:** 2 IMRs and 2 digests. The pass run uses logs of up
  to 3 records (3.6M states, about 70 s), which allows two records of one IMR
  plus one of the other. The violation run uses logs of 2 records. This
  covers both record shapes, two IMRs in either order, and the crash on the
  first of two.
- **SdkSingleton:** 3 threads, enough for two constructions and a third
  thread that reads `_inst`.
- **SdkClient:**
  - 2 threads with 3 and 2 calls;
  - up to 5 objects, one per call, since every failed `inst()` builds one;
  - mountinfo of up to 2 lines over one ID, where the two patterns tell a
    first match from a last one.

  This is enough for two concurrent constructions, a restart during a call,
  and two matching lines.
- **PerfSuite:** 2 tasks and 2 calls per throughput test, enough for the
  in-flight call at the timeout and a failure in the second child while the
  parent waits on the first. Each response test has 3 repeats over 3 costs,
  enough to show a lost or double-counted cost. All seven test functions
  run.
- **ExampleCli:** no bound is needed. The flags, the platform facts and the
  server's state are all enumerated, and `-m`'s loop has the code's three
  IMRs.
- **BinaryBlob:** bytes {0, 1}, a register width of 2, and blobs, positions
  and counts up to 3. These bounds include short, exact and over-long reads
  at every position.

### Fairness

- **EventLogActor, SdkEventlogVerify and ExampleCli:** none. Only safety is checked.
- **SdkClient:** weak fairness on each thread's step. A thread's step is
  enabled whenever the server is not hung: either the server answers, or
  the call on a non-serving channel fails. There is no fairness on the
  server. The pass run lets the server hang and conditions liveness on
  no hang. The violation run checks the unconditional `EveryCallEnds`.
- **SdkSingleton:** weak fairness on the thread steps and on the
  channel-wait timeout, because `result(timeout=TIMEOUT)` always ends. There
  is no fairness on the server coming up.
- **PerfSuite:** weak fairness on every step of the two harnesses except
  `SvcCallRaises`, each one guarded by its test running, and on `NextTest`,
  because pytest calls the next function once one returns. The pass runs let calls raise. Their liveness
  properties are conditioned on no call raising, and the violation runs
  check the unconditional form. A
  failure is possible but never forced. Each call returning is an assumption,
  because the stub calls carry no deadline. This is the hazard at sdk.py 153,
  and sdk_client_hung shows it.

## 5. Not modelled

- **py_perf.py's timing:** the `time.time()` readings and their log lines
  are output only. Its branches are in `ExampleCli`.
- **docs/conf.py:** configuration only.
- **The `test_ccnp_init` body:** a TODO. It is modelled as a test that
  returns at once.
- **The gRPC server, the TDX module and cctrusted_base:** not in this
  repository. They are modelled only as the environment.
- **The contents of replies** (algorithm IDs, counts, quotes, digests):
  SdkClient only tells whether a call returned or raised.
- **The 85-process SemLock limit in ccnp_perf.py:** an operating-system
  resource limit.
