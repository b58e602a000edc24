--------------------------- MODULE MCMetricsBridge ---------------------------
(* TLC instances of MetricsBridge.  MCTracked follows a re-created counter, *)
(* a counter and a gauge that are never re-created, and a re-created      *)
(* gauge; MCGauges follows the two gauges only, so that the exported      *)
(* values stay bounded without a bound on the ticks.                       *)
EXTENDS MetricsBridge

MCTracked == {"discoveries.attempt", "recover.dead_master.start",
              "elect.is_elected", "recover.pending"}
MCGauges  == {"elect.is_elected", "recover.pending"}
=============================================================================
