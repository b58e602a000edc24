------------------------- MODULE MetricsBridgeProofs -------------------------
(***************************************************************************)
(* Proofs about MetricsBridge for every tracked subset of the metrics and *)
(* every set of namespaces and bounds.                                     *)
(***************************************************************************)
EXTENDS MetricsBridge, TLAPS

(* The collectors slice lists every collector of the var block. *)
LEMMA OrderCoversMetrics ==
    \A n \in MetricNames : \E i \in 1 .. Len(CollectorOrder) : CollectorOrder[i] = n
BY DEF MetricNames, CounterNames, GaugeNames, CollectorOrder

(* With no collector rejected, the loop registers every tracked name. *)
LEMMA NoRejectRegistersAll ==
    ASSUME Rejected = {}
    PROVE  RegisteredNames \cap Tracked = Tracked
<1>1. \A i \in 1 .. Len(CollectorOrder) : \A j \in Rejected : i < j
  OBVIOUS
<1>2. Tracked \subseteq MetricNames
  BY BridgeAssumption
<1>. QED BY <1>1, <1>2, OrderCoversMetrics DEF RegisteredNames

(* An enabled initialisation that returns nil leaves the registry and the *)
(* mappings holding exactly the current collectors.                       *)
LEMMA InitOkStep ==
    ASSUME NEW enabled \in BOOLEAN, NEW ns, InitPrometheusMetrics(enabled, ns),
           lastInit'.result = "ok"
    PROVE  /\ promRegistry' = {Collector(n)' : n \in Tracked}
           /\ \A n \in Tracked : mappings'[n] = Collector(n)'
<1>1. enabled
  BY DEF InitPrometheusMetrics
<1>2. Rejected = {}
  BY <1>1 DEF InitPrometheusMetrics, RegisterAll
<1>3. RegisteredNames \cap Tracked = Tracked
  BY <1>2, NoRejectRegistersAll
<1>. QED BY <1>1, <1>2, <1>3 DEF InitPrometheusMetrics, RegisterAll, setupMetricsBridge

(* Every step is an initialisation, a tick, a callback run, an update of *)
(* a go-metric, or a stutter.                                             *)
LEMMA NextCases ==
    ASSUME [Next]_vars
    PROVE  \/ \E enabled \in BOOLEAN, ns \in NsChoices : InitPrometheusMetrics(enabled, ns)
           \/ UNCHANGED <<promRegistry, gen, mappings, lastInit>>
BY DEF Next, Tick, syncMetricsToPrometheus, Inc, Update, vars

(* InitPrometheusMetrics never reports success over a registry that lacks *)
(* a collector, or a bridge that writes elsewhere: the registration loop  *)
(* returns at its first error and runs setupMetricsBridge only after it.  *)
THEOREM InitOkTheorem == Spec => []InitOkMeansServed
<1>1. Init => InitOkMeansServed
  <2>1. Init => lastInit.result = "none"
    BY DEF Init
  <2>. QED BY <2>1 DEF InitOkMeansServed
<1>2. InitOkMeansServed /\ [Next]_vars => InitOkMeansServed'
  <2>. SUFFICES ASSUME InitOkMeansServed, [Next]_vars
                PROVE  InitOkMeansServed'
    OBVIOUS
  <2>1. CASE \E enabled \in BOOLEAN, ns \in NsChoices : InitPrometheusMetrics(enabled, ns)
    <3>1. PICK enabled \in BOOLEAN, ns \in NsChoices : InitPrometheusMetrics(enabled, ns)
      BY <2>1
    <3>2. lastInit'.result = "ok" =>
            /\ promRegistry' = {Collector(n)' : n \in Tracked}
            /\ \A n \in Tracked : mappings'[n] = Collector(n)'
      BY <3>1, InitOkStep
    <3>. QED BY <3>2 DEF InitOkMeansServed
  <2>2. CASE UNCHANGED <<promRegistry, gen, mappings, lastInit>>
    BY <2>2 DEF InitOkMeansServed, Collector
  <2>. QED BY <2>1, <2>2, NextCases
<1>. QED BY <1>1, <1>2, PTL DEF Spec
=============================================================================
