---------------------------- MODULE MetricsBridge ----------------------------
(***************************************************************************)
(* The bridge from go-metrics to Prometheus (src/go/metrics/prometheus.go). *)
(*                                                                         *)
(* InitPrometheusMetrics makes a fresh registry, re-creates nine of the    *)
(* 28 collectors when a namespace is configured, registers the 28 in      *)
(* order and stops at the first failure, and on success runs              *)
(* setupMetricsBridge: metricMappings points every go-metrics name at its *)
(* collector and syncMetricsToPrometheus is added to the tick callbacks.  *)
(* Every tick runs each registered callback once.  A callback copies each *)
(* mapped go-metrics value into its collector: gauges by Set, counters by *)
(* Add(count - getCurrentPromValue(counter)).                              *)
(*                                                                         *)
(* A collector object is a pair <<name, generation>>: generation 0 is the  *)
(* package-level collector, generation i > 0 the one re-created by the    *)
(* i-th call of InitPrometheusMetrics.  Only the names in Tracked are     *)
(* followed; the registration order runs over all 28.                     *)
(***************************************************************************)
EXTENDS Naturals, Sequences, FiniteSets

CONSTANTS
    Tracked,      \* the go-metrics names whose values the model follows
    Namespaces,   \* valid non-empty PrometheusNamespace settings
    NoNamespace,  \* PrometheusNamespace = ""
    BadNamespace, \* a namespace/subsystem that makes BuildFQName invalid
    Nil,          \* promRegistry = nil, and an unset metricMappings entry
    MaxInits,     \* bound on calls of InitPrometheusMetrics
    MaxCount,     \* bound on a go-metrics value
    MaxExported   \* bound on an exported counter value

(* The collectors of the var block, by the go-metrics name the bridge maps *)
(* them from, and by kind (NewCounterVec or NewGaugeVec).                  *)
CounterNames ==
    {"discoveries.attempt", "discoveries.fail",
     "discoveries.instance_poll_seconds_exceeded",
     "recover.dead_master.start", "recover.dead_master.success",
     "recover.dead_master.fail", "recover.dead_intermediate_master.start",
     "recover.dead_intermediate_master.success",
     "recover.dead_intermediate_master.fail",
     "instance.access_denied", "instance.read_topology", "instance.read",
     "instance.write", "audit.write", "analysis.change.write.attempt",
     "analysis.change.write", "resolve.write_resolved",
     "resolve.write_unresolved", "resolve.read_resolved",
     "resolve.read_unresolved"}
GaugeNames ==
    {"discoveries.queue_length", "discoveries.recent_count",
     "discoveries.dead_instances_queue_length", "elect.is_elected",
     "health.is_healthy", "raft.is_healthy", "raft.is_leader",
     "recover.pending"}
MetricNames == CounterNames \cup GaugeNames

(* The collectors InitPrometheusMetrics re-creates when namespace != "". *)
RecreatedNames ==
    {"discoveries.attempt", "discoveries.fail",
     "discoveries.instance_poll_seconds_exceeded", "discoveries.queue_length",
     "discoveries.recent_count", "elect.is_elected", "health.is_healthy",
     "raft.is_healthy", "raft.is_leader"}

(* The collectors slice, in registration order. *)
CollectorOrder ==
    << "discoveries.attempt", "discoveries.fail",
       "discoveries.instance_poll_seconds_exceeded", "discoveries.queue_length",
       "discoveries.recent_count", "discoveries.dead_instances_queue_length",
       "elect.is_elected", "health.is_healthy", "raft.is_healthy",
       "raft.is_leader", "recover.dead_master.start",
       "recover.dead_master.success", "recover.dead_master.fail",
       "recover.dead_intermediate_master.start",
       "recover.dead_intermediate_master.success",
       "recover.dead_intermediate_master.fail", "recover.pending",
       "instance.access_denied", "instance.read_topology", "instance.read",
       "instance.write", "audit.write", "analysis.change.write.attempt",
       "analysis.change.write", "resolve.write_resolved",
       "resolve.write_unresolved", "resolve.read_resolved",
       "resolve.read_unresolved" >>

NsChoices == {NoNamespace} \cup Namespaces \cup {BadNamespace}
Gens      == 0 .. MaxInits
Objects   == Tracked \X Gens

ASSUME BridgeAssumption ==
    /\ Tracked \subseteq MetricNames
    /\ BadNamespace \notin Namespaces /\ NoNamespace \notin Namespaces
    /\ BadNamespace # NoNamespace
    /\ MaxInits \in Nat /\ MaxCount \in Nat /\ MaxExported \in Nat

VARIABLES
    promRegistry, \* Nil, or the tracked collectors registered in it
    gen,          \* generation of the current re-created collectors
    genNs,        \* genNs[g]: the namespace the collectors of g carry
    mappings,     \* metricMappings, over the tracked names
    callbacks,    \* how many times OnMetricsTick(sync...) has been called
    pending,      \* callbacks of the current tick still to run
    value,        \* value[o]: the value collector o exports
    goVal,        \* the go-metrics value of each tracked name
    inits,        \* calls of InitPrometheusMetrics so far
    lastInit      \* what the last call returned, and its namespace

vars == <<promRegistry, gen, genNs, mappings, callbacks, pending, value,
          goVal, inits, lastInit>>

(* The collector the package variable of name n holds. *)
Collector(n) == <<n, IF n \in RecreatedNames THEN gen ELSE 0>>

Mapped == {n \in Tracked : mappings[n] # Nil}

(* GetPrometheusRegistry serves the collector of n. *)
Served(n) == promRegistry # Nil /\ mappings[n] \in promRegistry

Init ==
    /\ promRegistry = Nil
    /\ gen = 0
    /\ genNs = [g \in Gens |-> NoNamespace]
    /\ mappings = [n \in Tracked |-> Nil]
    /\ callbacks = 0
    /\ pending = 0
    /\ value = [o \in Objects |-> 0]
    /\ goVal = [n \in Tracked |-> 0]
    /\ inits = 0
    /\ lastInit = [result |-> "none", ns |-> NoNamespace]

(* The indices of CollectorOrder whose collector Register rejects: those   *)
(* whose fully-qualified name carries the bad namespace.                   *)
Rejected ==
    {i \in 1 .. Len(CollectorOrder) :
        /\ CollectorOrder[i] \in RecreatedNames
        /\ genNs'[gen'] = BadNamespace}

(* The names the registration loop registers before its first error. *)
RegisteredNames ==
    {CollectorOrder[i] : i \in {i \in 1 .. Len(CollectorOrder) :
                                    \A j \in Rejected : i < j}}

(* Mutant: a bridge that forgets to register its tick callback. *)
setupMetricsBridgeNoTick ==
    /\ mappings' = [n \in Tracked |-> Collector(n)']
    /\ callbacks' = callbacks

(* setupMetricsBridge: every mapping points at the current collector, and *)
(* syncMetricsToPrometheus is added to the tick callbacks.                *)
setupMetricsBridge ==
    /\ mappings' = [n \in Tracked |-> Collector(n)']
    /\ callbacks' = callbacks + 1

(* Mutant: a registration loop that logs a failure and goes on. *)
RegisterAllContinue(ns) ==
    /\ promRegistry' = {Collector(n)' : n \in Tracked \ {CollectorOrder[i] : i \in Rejected}}
    /\ setupMetricsBridge
    /\ lastInit' = [result |-> "ok", ns |-> ns]

(* The registration loop, then setupMetricsBridge when no Register failed. *)
RegisterAll(ns) ==
    /\ promRegistry' = {Collector(n)' : n \in RegisteredNames \cap Tracked}
    /\ IF Rejected = {}
         THEN setupMetricsBridge /\ lastInit' = [result |-> "ok", ns |-> ns]
         ELSE UNCHANGED <<mappings, callbacks>>
              /\ lastInit' = [result |-> "err", ns |-> ns]

(* InitPrometheusMetrics with PrometheusEnabled = enabled and namespace ns *)
(* (the subsystem is folded into ns: it only counts when ns != "").         *)
InitPrometheusMetrics(enabled, ns) ==
    /\ inits < MaxInits
    /\ inits' = inits + 1
    /\ IF ~enabled
         THEN /\ promRegistry' = Nil
              /\ lastInit' = [result |-> "disabled", ns |-> ns]
              /\ UNCHANGED <<gen, genNs, mappings, callbacks>>
         ELSE /\ IF ns # NoNamespace
                   THEN gen' = inits + 1 /\ genNs' = [genNs EXCEPT ![inits + 1] = ns]
                   ELSE UNCHANGED <<gen, genNs>>
              /\ RegisterAll(ns)
    /\ UNCHANGED <<pending, value, goVal>>

(* getCurrentPromValue: the "simplified implementation" returns 0. *)
getCurrentPromValue(o) == 0

(* The value syncMetricsToPrometheus leaves in collector o. *)
Synced(o) ==
    IF o[1] \in CounterNames
      THEN value[o] + (goVal[o[1]] - getCurrentPromValue(o))
      ELSE goVal[o[1]]

(* The ticker fires: every registered callback is due.  The guard keeps *)
(* the exported counters within MaxExported.                            *)
Tick ==
    /\ pending = 0
    /\ callbacks > 0
    /\ \A n \in Mapped \cap CounterNames :
          value[mappings[n]] + callbacks * goVal[n] <= MaxExported
    /\ pending' = callbacks
    /\ UNCHANGED <<promRegistry, gen, genNs, mappings, callbacks, value, goVal,
                   inits, lastInit>>

(* One callback runs syncMetricsToPrometheus under mappingMutex.RLock: every *)
(* go-metrics name with a mapping is copied into its collector.            *)
syncMetricsToPrometheus ==
    /\ pending > 0
    /\ pending' = pending - 1
    /\ value' = [o \in Objects |->
                    IF \E n \in Mapped : mappings[n] = o THEN Synced(o) ELSE value[o]]
    /\ UNCHANGED <<promRegistry, gen, genNs, mappings, callbacks, goVal, inits,
                   lastInit>>

(* The application counts an event on a go-metrics counter: Inc(1). *)
Inc(n) ==
    /\ goVal[n] < MaxCount
    /\ goVal' = [goVal EXCEPT ![n] = @ + 1]
    /\ UNCHANGED <<promRegistry, gen, genNs, mappings, callbacks, pending, value,
                   inits, lastInit>>

(* The application updates a go-metrics gauge. *)
Update(n, v) ==
    /\ goVal' = [goVal EXCEPT ![n] = v]
    /\ UNCHANGED <<promRegistry, gen, genNs, mappings, callbacks, pending, value,
                   inits, lastInit>>

Next ==
    \/ \E enabled \in BOOLEAN, ns \in NsChoices : InitPrometheusMetrics(enabled, ns)
    \/ Tick
    \/ syncMetricsToPrometheus
    \/ \E n \in Tracked \cap CounterNames : Inc(n)
    \/ \E n \in Tracked \cap GaugeNames, v \in 0 .. MaxCount : Update(n, v)

(* The metrics ticker fires for as long as the process runs, and a callback *)
(* it started runs to its end: both are weakly fair.  The application and *)
(* InitPrometheusMetrics are not.                                          *)
Spec == Init /\ [][Next]_vars /\ WF_vars(Tick) /\ WF_vars(syncMetricsToPrometheus)

TypeOK ==
    /\ promRegistry = Nil \/ promRegistry \subseteq Objects
    /\ gen \in Gens /\ genNs \in [Gens -> NsChoices]
    /\ mappings \in [Tracked -> Objects \cup {Nil}]
    /\ callbacks \in 0 .. MaxInits /\ pending \in 0 .. callbacks
    /\ value \in [Objects -> Nat] /\ goVal \in [Tracked -> 0 .. MaxCount]
    /\ inits \in 0 .. MaxInits
    /\ lastInit \in [result : {"none", "ok", "err", "disabled"}, ns : NsChoices]

(****************************** Properties *********************************)

(* When InitPrometheusMetrics last returned nil with Prometheus enabled,   *)
(* every collector is registered in the registry GetPrometheusRegistry    *)
(* serves, and the bridge writes to exactly those collectors: a nil error *)
(* never hides a half-populated registry (the loop at line 410).         *)
InitOkMeansServed ==
    lastInit.result = "ok" =>
        /\ promRegistry = {Collector(n) : n \in Tracked}
        /\ \A n \in Tracked : mappings[n] = Collector(n)

(* A gauge the registry serves eventually exports the go-metrics value,   *)
(* unless the value or the registry changes first: the tick callback that *)
(* setupMetricsBridge registers keeps the exported gauges current.        *)
ExportedGaugeCatchesUp ==
    \A n \in Tracked \cap GaugeNames, v \in 0 .. MaxCount :
        (Served(n) /\ goVal[n] = v)
            ~> (~Served(n) \/ goVal[n] # v \/ value[mappings[n]] = v)

(* Each sync sets every bridged Prometheus counter to the go-metrics      *)
(* count, "to avoid double counting" (comment at lines 489-490).           *)
CounterMirrorsGoMetric ==
    [][syncMetricsToPrometheus =>
         \A n \in Mapped \cap CounterNames : value'[mappings[n]] = goVal[n]]_vars

(* A registry GetPrometheusRegistry returns serves every collector the    *)
(* bridge writes to: the metrics the ticks keep current are the ones a   *)
(* scrape sees.                                                            *)
RegistryServesBridge ==
    promRegistry # Nil => \A n \in Mapped : mappings[n] \in promRegistry

(* After a successful InitPrometheusMetrics every registered collector    *)
(* carries the configured namespace and subsystem ("Apply namespace and  *)
(* subsystem to all metrics", line 281).                                  *)
NamespaceAppliedToAll ==
    lastInit.result = "ok" => \A o \in promRegistry : genNs[o[2]] = lastInit.ns

(* InitPrometheusMetrics fails only while the configured namespace is     *)
(* invalid: correcting the configuration and initialising again succeeds. *)
FailsOnlyOnBadNamespace ==
    lastInit.result = "err" => lastInit.ns = BadNamespace
=============================================================================
