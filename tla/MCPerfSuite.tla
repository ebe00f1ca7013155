---------------------------- MODULE MCPerfSuite ----------------------------
(* The perf session for TLC: two child processes per throughput test, each *)
(* making up to two calls before its timeout; three repeats per response   *)
(* test, with three possible costs.                                        *)
EXTENDS PerfSuite, TLC

MCCosts == {1, 2, 3}
=============================================================================
