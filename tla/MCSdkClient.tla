---------------------------- MODULE MCSdkClient ----------------------------
(* SdkClient for TLC: two threads that together call every SDK method,    *)
(* and one path ID (the two patterns still tell the lines apart).         *)
EXTENDS SdkClient, TLC

CONSTANTS t1, t2, i1

MCThreads == {t1, t2}
MCIds == {i1}
MCScript == (t1 :> <<"get_cc_report", "get_default_algorithms", "get_cc_eventlog">>)
            @@ (t2 :> <<"get_cc_measurement", "get_measurement_count">>)
=============================================================================
