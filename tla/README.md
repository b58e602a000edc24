# TLA+ verification of the orchestrator Go client SDK

This directory holds TLA+ models of the Go client SDK for the orchestrator
REST API (the sources under `src/`), TLC configurations that model-check them,
and TLAPS proofs. `PROJECT.json` lists the components, runs, mutants, the map
from definitions to source lines, the findings, the hazards and the theorems.

## The system

The repository holds two independent clients for the same service, a
Prometheus bridge, and tests.

Several source files are concatenations of documents (separated by a marker
line), so one file can hold code of both clients. Each component lists its line ranges.

* **String-coded client** (package `client` in `src/unnamed/part_003`,
  `part_004`, `src/go/client/relocation.go`, `topology.go` and
  `recovery.go` lines 1–332). `APIResponse.Code` is a string.
  It has these parts:
  * *Leader Resolver* (`part_003` lines 78–193 and 320–330). `NewClient`
    normalises `Config.Endpoints`. With more than one endpoint it runs
    `detectLeader`. That function creates one 5-second context and makes
    two passes over the endpoints. Pass 1 probes `GET /leader-check`. Pass 2
    probes `GET /routed-leader-check`. The first 200 answer wins and is
    stored in `c.leader`. With one endpoint, that endpoint is used. With
    none, the base URL is used. `RefreshLeader` re-runs detection when there
    is more than one endpoint.
  * *Transport*: `doRequest` (lines 207–234) reads `c.leader` on every
    request.
  * *Envelope Decoder*: `parseResponse` (lines 236–260) decodes a bare value,
    reading an envelope only at status ≥ 400. `parseAPIResponse`
    (lines 262–291) decodes an envelope and never looks at the status.
  * *Operation façade*: wrappers that call `doRequest` and one of the two
    decoders.
* **Integer-coded client** (`src/client/*.go`, `src/unnamed/part_000`,
  `part_001` from line 255, `part_002` from line 459, `src/go/client/recovery.go`
  lines 921–1393).
  `APIResponseCode` is an integer enum (`ERROR` = 0, `OK` = 1), and the
  client talks to one fixed host. It has these parts:
  * *Transport and decoder*: `doRequest`, `parseResponse`, `getJSON`,
    `postJSON` and `getPlainText` in `client.go`, and `getRawBytes`
    (`part_002` lines 697–715).
  * *Payload helpers*: the `convertTo*` re-marshal helpers in `helpers.go`.
  * *Operation façade*: each method calls `getJSON` into an `APIResponse`,
    tests `Code != OK`, and converts `Details`.
  * *InstanceKey*: `InstanceKey.String` and `ParseInstanceKey`.
* **Prometheus bridge** (`src/go/metrics/prometheus.go`, documented in
  `part_001` lines 1–254).
  `InitPrometheusMetrics` builds a registry. `setupMetricsBridge` maps
  go-metrics names to Prometheus metrics and registers a per-tick callback.
  `syncMetricsToPrometheus` copies the values.
* **Tests and examples**: `src/client/extended_test.go`,
  `src/go/client/client_test.go`, `example_test.go`, `recovery.go`
  lines 333–920, and `part_002` lines 1–458.

How the parts interact: façade → transport → decoder → typed result. The
Leader Resolver is consulted at construction and on explicit refresh. It
supplies the base URL that the transport uses. Goroutines may share one
`*Client`. The only shared mutable state is `c.leader`, and nothing guards it.

## Modules

| Module | Models | Status |
|---|---|---|
| `LeaderResolver` | Leader Resolver, plus the transport's read of `c.leader` | modelled |
| `LeaderPin` | what the Leader Resolver promises (spec §4.3, §5): the abstract specification that `LeaderResolver` refines | modelled |
| `LeaderResolverProofs` | TLAPS proofs about `LeaderResolver`, its refinement of `LeaderPin` included | proved |
| `MCLeaderResolver` | TLC instance of `LeaderResolver` (all four runs) | — |
| `GoJSON` | the behaviour of Go's `encoding/json` that both decoders rely on | environment |
| `EnvelopeCall` | one API call: response, call pattern, outcome; shared by both clients | modelled |
| `EnvelopeA` | the integer-coded client's decoder and façade shapes | modelled |
| `EnvelopeB` | the string-coded client's two decoders and façade shapes | modelled |
| `MCEnvelopeA`, `MCEnvelopeB` | TLC instances of the two decoders | — |
| `GoJSONProofs` | TLAPS lemma: re-marshalling a decoded non-null member gives it back | proved |
| `EnvelopeAProofs`, `EnvelopeBProofs` | TLAPS proofs about the two decoders | proved |
| `MetricsBridge` | the Prometheus bridge: `InitPrometheusMetrics`, `setupMetricsBridge`, the tick callbacks and `syncMetricsToPrometheus` | modelled |
| `MCMetricsBridge` | TLC instance of `MetricsBridge` (tracked names) | — |
| `MetricsBridgeProofs` | TLAPS proof of `InitOkMeansServed` | proved |
| `InstanceKey` | `InstanceKey.String`, `ParseInstanceKey` and the key loops of the pool and snapshot façades | modelled |
| `MCInstanceKey` | TLC instance of `InstanceKey` (alphabet, pool strings) | — |
| `InstanceKeyProofs` | TLAPS proof of `ParseAcceptsWellFormed` | proved |

### LeaderResolver: state

| Variable | Code |
|---|---|
| `endpoints` | `c.endpoints` |
| `client` | whether `NewClient` has returned a client: `"new"`, `"detecting"`, `"ready"` or `"failed"` |
| `leader` | `c.leader` |
| `pc`, `idx` | each goroutine's position in `detectLeader`: pass 1, pass 2, or storing a result |
| `elapsed` | how much of the goroutine's current 5 s context has been used |
| `found` | the endpoint being stored |
| `result` | the goroutine's last detection outcome |
| `target` | where each caller's last request went |
| `srvLeader`, `up` | environment: the cluster's raft leader and which nodes are up |
| `affirmed` | history: every endpoint that ever answered a probe with 200 |
| `cutOff` | history: whether a probe of the current call was cut off by the shared deadline although the node would have answered in time |

Goroutines are modelled as processes:

* `Callers` are goroutines that use the shared client.
* `Ctor` is the goroutine that runs `NewClient`.

### LeaderResolver: actions

* `NewClient` models the whole constructor, with its three branches.
* `RefreshLeader(c)` models the public method.
* `detectLeader` is split into steps, one endpoint probe at a time, so that
  other goroutines and the cluster can act between probes:
  * `ProbeLeaderCheck(p)` and `ProbeRoutedLeaderCheck(p)` are the two loops.
    Both are built from `Probe`, which:
    * draws the probe's latency from `ProbeLatencies`;
    * charges the latency to the shared context;
    * fails the probe when the context has expired;
    * moves to the next endpoint, to the second pass, or to "no leader
      found".
  * `FinishStore(p)` completes the store of `c.leader`.

`isLeader` and `hasRoutedLeader` are `resp.StatusCode == http.StatusOK`. A
transport error, including an expired context, makes the probe fail in
`Probe` before the status is tested.

The write of `c.leader` is unsynchronised. It is modelled as a begin step and
an end step, as in the `RingBuffer` example of the TLA+ examples repository:

* the begin step is the probe that found the endpoint, which sets `pc` to
  `"store"`;
* the end step is `FinishStore`.

A `doRequest` that overlaps the write may read one of three values:

* the old leader;
* the new leader;
* `Torn`, standing for a torn string header.

This is the Go memory model's outcome for a racy multi-word read.

`Elect`, `LoseLeadership`, `Crash` and `Restart` are the cluster, acting at
any time.

### LeaderPin: the abstract specification

`LeaderPin` states what the resolver promises, with no probes, goroutines,
deadlines or cluster. Its state is the endpoint list, the client's phase
(`"new"`, `"ready"`, `"failed"`), the pinned endpoint, and the set of
endpoints that have been confirmed by a probe. Its actions:

* `Confirm(e)`: a listed endpoint answers a probe with 200;
* `Construct`: `NewClient` returns a client pinned to the base URL (no
  endpoint), the only endpoint, or a confirmed one of several
  (`part_003` lines 106–117);
* `FailConstruct`: with several endpoints, `NewClient` fails (lines 107–110);
* `Resolve`: `RefreshLeader` on a ready client with several endpoints pins a
  confirmed endpoint (lines 325–330).

`LeaderResolver` maps onto it through `Pin == INSTANCE LeaderPin`:

* `client` maps to itself, except that `"detecting"` maps to `"new"`;
* `leader` maps to `pinned`, and `affirmed` to `confirmed`.

The resolver's `NewClient` with fewer than two endpoints is a `Construct`;
with several it is a stutter, and the constructor's later store is the
`Construct` (or its "no leader found" the `FailConstruct`). A caller's
`FinishStore` is a `Resolve`, a successful probe a `Confirm`, and every other
step (requests, elections, crashes, failing probes) a stutter.

### Envelope modules: state and actions

A call of either client holds no state across calls, apart from the Leader
Resolver's `c.leader`, which the decoders do not read. The Envelope modules
therefore model one call at a time:

* `call`: the call pattern that ran;
* `resp`: the response the transport handed over;
* `outcome`: what the caller got back, as a record `[cls, info]`. `cls` is
  one of `ok`, `transport`, `http`, `envelope` or `decode`. `info` depends
  on `cls`:
  * for `ok`, what the returned value holds: `decoded`, `stringified`, `zero`,
    `empty`, `nil` or `none`;
  * for `http`, the status;
  * for `envelope`, the Message.

Each client's `Perform(c)` picks any response from `Responses`:

* a failed request;
* a failed body read;
* or a status from `Statuses` and a body from `Bodies`.

It then applies the whole method to that response. `Return` hands the result
back, after which the next call may start.

`GoJSON` abstracts a JSON document to its kind:

* strings keep their value, so that Code and Message can be compared;
* numbers keep a small value, so that an integer Code can be compared;
* objects and arrays keep `fit`, whether their fields or elements have the
  types the Go target declares;
* an object with envelope keys is an `env` whose Code, Message and Details
  members may each be missing.

It also defines what `json.Unmarshal` does on each Go target kind:

* null leaves the target untouched;
* unknown keys are ignored;
* a type mismatch is an error;
* numbers become `float64` in `interface{}`.

`UnmarshalEnvelope` is the decode into each client's `APIResponse` struct.

`EnvelopeA` lists the integer-coded façade methods in twenty tables, one
per group of methods in the source (`InstanceMethods` for
`client/instance.go` 11–159, …, `ReplicationMethods` for
`go/client/recovery.go` 1218–1393). Each table maps a method name to its
result pattern:

| Pattern | What the method does after `getJSON` and `Code != OK` |
|---|---|
| `exec` | nothing more (no result) |
| `record`, `instance`, `slice`, `poolMap`, `bool` | a `convertToX` helper; `instance` adds `GetInstance`'s nil check |
| `lagValue` | the lag value, with its type switch |
| `tagValue` | the lenient string accessor (`fmt.Sprint` fallback) |
| `rawSlice`, `rawMap`, `rawStruct`, `rawIfaceMap` | an inline `json.Marshal(Details)` then `json.Unmarshal` into an undeclared variable (`Unmarshalled`) |
| `raftStatus` | `GetRaftStatus`: nil Details is an empty map, then the inline decode |
| `plainText` | `getPlainText` (no envelope): transport error, status ≥ 400 error, or the body |
| `rawBytes` | `getRawBytes` (`GetRaftSnapshot`) |

There is one action, `CallMethod(t, m)`: a caller calls method `m` of table
`t`, which is `Perform(t[m])`. Its outcome is `Outcome(r, c)`: for an
envelope pattern, `Facade(r, c)` (`getJSON`, then the `Code != OK` test,
then `Convert(c, Details)`); for the two text patterns, the text reader.
`getRawBytes` is modelled by what it does: it `json.Marshal`s the body
reader, which yields `"{}"` (the value `"reader"`) and never fails, so a
body read error is not seen.

`EnvelopeB` has these actions:

* one action per result type of `parseAPIResponse`: no result, record,
  slice, `[]interface{}`, `map[string]interface{}`, string and bool;
* `DiscoverCall`, which adds `Code != "OK"`;
* `RawRecord` and `RawSlice`, through `parseResponse`.

`Outcome(c, r)` says which decoder each call pattern uses.

### MetricsBridge: state and actions

A collector is the pair `<<name, generation>>`. Generation 0 is the
package-level `CounterVec` or `GaugeVec`. Generation i > 0 is the collector
that the i-th call of `InitPrometheusMetrics` re-created: it re-creates 9
of the 28 when a namespace is configured (lines 285–376). The names are
the real go-metrics names. `Tracked`, a subset of them, says which names
the run follows. The registration order (`CollectorOrder`, lines 378–408)
always runs over all 28.

| Variable | Code |
|---|---|
| `promRegistry` | `promRegistry`: the set of registered collectors, or `Nil` when Prometheus is disabled |
| `gen`, `genNs` | which generation the package variables hold, and the namespace each generation was built with |
| `mappings` | `metricMappings` |
| `callbacks` | the number of `syncMetricsToPrometheus` callbacks registered with `OnMetricsTick` |
| `pending` | the callbacks of the current tick still to run |
| `value`, `goVal` | each collector's exported value, and each go-metrics value |
| `inits`, `lastInit` | the number of `InitPrometheusMetrics` calls, and the result and namespace of the last one |

| Action | Code |
|---|---|
| `InitPrometheusMetrics(enabled, ns)` | the whole function: disabled path, re-creation, registration loop (`RegisterAll`), and `setupMetricsBridge` on success |
| `Tick` | the ticker behind `OnMetricsTick`. That code is not under `src/`, so it is modelled from its use: every registered callback becomes due |
| `syncMetricsToPrometheus` | one callback: gauges by `Set`, counters by `Add(count - getCurrentPromValue)` |
| `Inc(n)`, `Update(n, v)` | the application changing a go-metrics counter or gauge |

`Register` fails only on a collector whose fully qualified name is invalid.
The bad namespace `BadNamespace` stands for such a name. Every other name,
and the absence of a namespace (`NoNamespace`), registers.

### InstanceKey: operators and actions

A string is a sequence of one-character strings. Each conversion is
modelled by what it does:

* `Split` is `strings.Split(s, ":")`. The result is exact when there is one
  colon. Otherwise only the number of parts is kept, because the code
  rejects every length but 2.
* `SscanfInt` is `fmt.Sscanf(p, "%d")`. It skips leading spaces, fails at
  the end of input, and accepts one sign. It then needs at least one
  digit, takes the longest digit run, and ignores the rest.
* `String` is `Sprintf("%s:%d")`, with `DecimalDigits` printing the port.
* `ParsedKeys` is the loop of `GetClusterPoolInstancesForPool` and of
  `SnapshotTopologies`: it keeps the keys that parse, in order.

The state machine has one call in progress: `Parse(s)` for any string of
at most `MaxLen` characters, `PoolKeys(list)` for any list of at most
`MaxKeys` strings from `PoolStrings`, and `Return`. The reference format
`WellFormed` is the spec's (§3): exactly one colon and a non-empty,
all-digit port.

## Runs

`PROJECT.json` lists twelve runs. Six are passing runs, one per model.
Six are violation runs, one for each of the most serious divergences.
Further violated properties have their own cfg file, named
`MC<Module>_<Property>.cfg`. They appear in the tables as "further". TLC
finds each of them violated, with `tlc -config <cfg> MC<Module>`.

The Leader Resolver runs use `MCLeaderResolver.cfg`'s model:

* two nodes and two sharing goroutines, plus the constructor goroutine;
* endpoint lists of length 0 to 2;
* deadline 5;
* probe latencies {0, 5}: a node answers at once, or accepts the connection
  and stalls for the whole budget.

Symmetry is declared over nodes and over callers. Both are interchangeable:
no definition names a particular node or caller.

The bounds are enough for these reasons:

* Two endpoints give both passes, the "next endpoint" step and every
  length branch of `NewClient`.
* Two callers give a concurrent refresh and request.
* A stalled probe is the only latency that matters for the shared deadline.

| Run | Checks | Expect | Shows |
|---|---|---|---|
| `leader_safety` | `TypeOK`, `PinnedLeaderJustified`, `PinSpec` | pass (910,244 states, about 50 s) | A ready client is pinned to the base URL, its single endpoint, or an endpoint that answered 200. This holds after any sequence of refreshes, failed ones included, under elections and crashes. Every behaviour is a behaviour of `LeaderPin`. |
| `torn_leader_read` | `RequestTargetIntact` | violation | A request concurrent with `RefreshLeader` can be sent to a torn URL. |
| `shared_probe_deadline` | `NoLeaderOnlyAfterFairProbes` | violation | One stalled node exhausts the single 5 s context. The other endpoints' probes fail at once, and "no leader found" is reported although a node that would have answered within its own 5 s was never given the chance. |

Each property of a passing run has a mutant in `PROJECT.json`:

* `isLeader` accepting any answer breaks `PinnedLeaderJustified`;
* a 0-based probe index breaks `TypeOK`;
* "no leader found" that leaves the constructor's client ready instead of
  failed (`NoLeaderFoundReady`) breaks `PinSpec`.


The Envelope runs (`MCEnvelopeA.cfg`, `MCEnvelopeB.cfg` and one cfg per
violation) use these bounds:

* statuses 200, 404 and 500: success, a client error, and the status that
  `HttpStatus` pairs with `ERROR`;
* two Message texts;
* every body `GoJSON` can build: about 300, covering every combination of
  Code, Message and Details members.

The state space is the set of (call, response) pairs, so every decoder
branch is reached on every body.

| Run | Checks | Expect | Shows |
|---|---|---|---|
| `envelope_a_contract` | `SuccessOnlyFromSuccessEnvelope`, `HttpFailureReported`, `DetailsMismatchIsDecodeError` | pass | The integer-coded client gives a value only for status < 400 with Code OK, an HTTP error with its status for every status ≥ 400 without an envelope, and a decode error for a Details shape mismatch. |
| `envelope_a_error_message` | `EnvelopeErrorCarriesMessage` | violation | An ERROR envelope sent with 500 surfaces as "API request failed with status 500", not as the server's Message. |
| further: `MCEnvelopeA_NullDetailsEmptyCollection.cfg` | `NullDetailsEmptyCollection` | violation | `GetHeuristicClusterPoolLag` (and every inline decode into a slice or map) returns nil for null Details. |
| `envelope_a_raft_snapshot` | `RawBytesReturnBody` | violation | `GetRaftSnapshot` returns `"{}"` on success, never the body; a 200 whose body cannot be read is a success too. |
| `envelope_b_contract` | `EnvelopeErrorCarriesMessage`, `DetailsMismatchIsDecodeError` | pass | The string-coded client reports an ERROR envelope with 500 as an API error with its Message on both decoding paths, and a Details mismatch as a decode error. |
| `envelope_b_success_without_ok` | `SuccessOnlyFromSuccessEnvelope` | violation | `parseAPIResponse` returns success for a body without Code (null, `{}`, a foreign object), at any status. |
| further: `MCEnvelopeB_HttpFailureReported.cfg` | `HttpFailureReported` | violation | A non-JSON body at status ≥ 400 is reported as an unmarshal failure without the status. |
| further: `MCEnvelopeB_NullDetailsEmptyCollection.cfg` | `NullDetailsEmptyCollection` | violation | A success envelope with null Details leaves a slice or map result nil. |

Envelope mutants, each killed by its property:

* `getJSON` without the status check breaks `HttpFailureReported`;
* a façade testing `Code == ERROR` instead of `Code != OK` breaks
  `SuccessOnlyFromSuccessEnvelope`, because Code 2 becomes a success;
* `convertToInstance` dropping `json.Unmarshal`'s error breaks
  `DetailsMismatchIsDecodeError`;
* `parseAPIResponse` dropping the Details unmarshal error breaks
  `DetailsMismatchIsDecodeError`;
* `parseResponse` reporting every status ≥ 400 as an HTTP error breaks
  `EnvelopeErrorCarriesMessage`.

**Fairness.** None is assumed. The checked properties are all safety
properties. The code starts no background activity of its own, so nothing
obliges a refresh ever to happen.

The metrics runs use `MCMetricsBridge.cfg`'s model:

* one valid namespace, the bad one, and none;
* at most two calls of `InitPrometheusMetrics`, so that a second call can
  meet the first call's collectors and callback;
* go-metrics values 0..1, and exported counters capped at 2 so that a
  double count shows.

The tracked names are one plain counter, one re-created counter, one plain
gauge and one re-created gauge. The liveness run follows the two gauges.

| Run | Checks | Expect | Shows |
|---|---|---|---|
| `metrics_init_contract` | `InitOkMeansServed` | pass | After an `InitPrometheusMetrics` that returned nil, the registry holds exactly the current collectors and the bridge maps every name to them. |
| `metrics_gauge_liveness` | `ExportedGaugeCatchesUp` | pass | A served gauge eventually exports the go-metrics value, under weak fairness of the ticker and of a started callback. |
| `metrics_counter_double` | `CounterMirrorsGoMetric` | violation | Each sync adds the whole count again, because `getCurrentPromValue` returns 0. With two inits, two callbacks add it twice per tick. |
| further: `MCMetricsBridge_RegistryServesBridge.cfg` | `RegistryServesBridge` | violation | A second init that fails leaves a fresh, partly filled registry while the old mappings and callback keep writing to collectors that are no longer served. |
| further: `MCMetricsBridge_NamespaceAppliedToAll.cfg` | `NamespaceAppliedToAll` | violation | Only 9 of the 28 collectors carry the namespace. |
| further: `MCMetricsBridge_FailsOnlyOnBadNamespace.cfg` | `FailsOnlyOnBadNamespace` | violation | After an init with an invalid namespace, an init without a namespace still fails: the re-created collectors stay in the package variables. |

The metrics mutants, each killed by its property:

* a registration loop that goes on after a failure breaks `InitOkMeansServed`;
* a `setupMetricsBridge` without `OnMetricsTick` breaks
  `ExportedGaugeCatchesUp`.

**Fairness of the bridge.** `Tick` and `syncMetricsToPrometheus` are weakly
fair. The go-metrics ticker fires for as long as the process runs, and a
callback that it started runs to its end: it takes only a read lock. The
application's actions and `InitPrometheusMetrics` are not fair, because
nothing in the code obliges them to happen.

The InstanceKey runs use `MCInstanceKey.cfg`'s model:

* strings of at most 4 characters over `a : 0 1 x - space`;
* lists of at most 2 strings from `a:1`, `a:x` and `a:1x`.

Four characters are enough to reach each branch: no colon, two colons, an
empty port, a sign, a leading space, trailing garbage and a leading zero.

| Run | Checks | Expect | Shows |
|---|---|---|---|
| `key_parse_contract` | `ParseAcceptsWellFormed` | pass | Every well-formed key parses to its host and the decimal value of its port. |
| further: `MCInstanceKey_ParseRejectsNonNumericPort.cfg` | `ParseRejectsNonNumericPort` | violation | `":-0"` parses. So do `"a: 1"` and `"a:1x"`. |
| further: `MCInstanceKey_ParseFormatRoundTrip.cfg` | `ParseFormatRoundTrip` | violation | `":00"` parses to port 0 and formats as `":0"`. |
| further: `MCInstanceKey_PoolKeysComplete.cfg` | `PoolKeysComplete` | violation | A list with `"a:x"` comes back shorter, with no error. |

The InstanceKey mutant is a digit loop that stops one digit early. It
breaks `ParseAcceptsWellFormed`.

## Findings

1. **Data race on `c.leader`** (`part_003:145`, `:153`, `:217`).
   * What the code does: `detectLeader` writes `c.leader` with no lock, and
     `doRequest` reads it with no lock.
   * What the spec requires: §5 asks that concurrent readers see the old or
     the new value, never a corrupted string.
   * The run `torn_leader_read` shows the violation.
2. **One deadline for all probes** (`part_003:140`).
   * What the code does: one context covers both passes.
   * What the spec says: §4.3 describes a bounded timeout per probe.
   * The run `shared_probe_deadline` shows that a stalled node hides every
     endpoint after it, so detection can fail with a responsive node present.

3. **An error envelope loses its Message in the integer-coded client**
   (`client.go:130`). `parseResponse` rejects every status ≥ 400 before it
   decodes the body, and `HttpStatus` pairs `ERROR` with 500. The façades'
   `"API error: " + Message` branch is therefore unreachable for the
   server's own errors. This contradicts §7 and §8. Run:
   `envelope_a_error_message`.
4. **Null Details gives a nil map** in `GetHeuristicClusterPoolLag`
   (`part_001:388`). The sibling helpers return empty collections, and §4.2
   and §8 require one. Further check: `MCEnvelopeA_NullDetailsEmptyCollection.cfg`.
5. **Success without Code** (`part_003:276`). `parseAPIResponse` treats
   everything but `"ERROR"` as success and ignores the status, so `null` or
   `{}` with 500 is a success. This contradicts §7. Run:
   `envelope_b_success_without_ok`.
6. **The status is lost for non-JSON error pages** (`part_003:272`). This
   contradicts §4.2 and §7. Further check: `MCEnvelopeB_HttpFailureReported.cfg`.
7. **Null Details gives nil slices** (`part_003:280`). This contradicts
   §4.2 and §8. Further check: `MCEnvelopeB_NullDetailsEmptyCollection.cfg`.
8. **Counters are double counted** (`prometheus.go:492`). The comment says
   "set to the current count to avoid double counting", but
   `getCurrentPromValue` returns 0, so every sync adds the whole count. Every
   further `InitPrometheusMetrics` adds one more callback (`:471`). Run:
   `metrics_counter_double`.
9. **A failed re-init hides the metrics** (`prometheus.go:413`). The fresh
   registry keeps only the collectors registered before the error. The old
   mappings and callback stay in place and write to collectors that no
   scrape sees. Further check: `MCMetricsBridge_RegistryServesBridge.cfg`.
10. **The namespace reaches 9 of 28 metrics** (`prometheus.go:285`). The
    comment at line 281 says it is applied to all of them. Further check:
    `MCMetricsBridge_NamespaceAppliedToAll.cfg`.
11. **A bad namespace sticks** (`prometheus.go:285`). The re-created
    collectors stay in the package variables, so an init without a
    namespace still registers the bad names. Further check:
    `MCMetricsBridge_FailsOnlyOnBadNamespace.cfg`.
12. **Ports are scanned, not validated** (`client.go:216`). `Sscanf("%d")`
    accepts a sign, leading spaces and trailing garbage. This contradicts
    §3 and §8. Further check: `MCInstanceKey_ParseRejectsNonNumericPort.cfg`.
13. **Leading zeros do not round-trip** (`client.go:205`). The spec says
    that parse then format round-trips every valid key, and its format
    allows leading zeros. This is a gap in the spec. Further check: `MCInstanceKey_ParseFormatRoundTrip.cfg`.
14. **Unparsable keys are dropped silently** (`part_001:316`, and
    `go/client/recovery.go:1205`). This contradicts §4.2, which says that
    mismatches are surfaced. Further check: `MCInstanceKey_PoolKeysComplete.cfg`.
15. **`GetRaftSnapshot` never returns the snapshot** (`part_002:706`).
    `getRawBytes` calls `json.Marshal(resp.Body)` where it should read the
    body: the reader has no exported fields, so every successful call
    returns the two bytes `{}`, and a failed body read goes unnoticed. The
    comment says "Helper function for getting raw bytes". Run:
    `envelope_a_raft_snapshot`.

## Proofs

`LeaderResolverProofs` proves four theorems, `TypeCorrect`,
`PinnedLeaderJustifiedTheorem`, `IInvInvariant` and `Refinement`. They hold for every value
of the constants allowed by the assumptions:

* `NodesAssumption`: nodes are non-empty, and the base URL is not a node;
* `ProcsAssumption`: the constructor goroutine is not a caller;
* `BoundAssumption`: `MaxEndpoints` is a natural number and `Deadline` is a
  positive one;
* `LatencyAssumption`: latencies lie in `0..Deadline`;
* `SentinelAssumption`: `None` and `Torn` are distinct from everything else.

`PinnedLeaderJustified` is not inductive by itself. `FinishStore` writes
`found[p]` one step after the probe that chose it. `IInv` therefore adds five
facts:

* a pending store holds an affirmed endpoint;
* a running detection probes a valid index of a list of more than one
  endpoint;
* a running constructor detection means the client is `"detecting"`;
* `"detecting"` implies more than one endpoint;
* a caller that is not idle works on a ready client. The refinement needs
  this: a caller's `FinishStore` must map to `Resolve`, whose guard is a
  ready client.

The proof has one lemma per action:

* `InitIInv`;
* `NewClientIInv`, `RefreshIInv`, `FinishStoreIInv` and `DoRequestIInv`;
* `ElectIInv`, `LoseLeadershipIInv`, `CrashIInv` and `RestartIInv`;
* `ProbeIInv`. This one lemma serves both passes. It is stated for any
  answer `status` and any check result `accepted` with
  `accepted => status = 200`.

`NextIInv` combines the lemmas, and the theorems close by PTL. `IInv` is
the proof's strengthening, not a property of the code in its own right, so
no run checks it; TLC was used to check it while the proof was written.

`Refinement` states `Spec => PinSpec`, where `PinSpec` is `LeaderPin`'s
specification under the mapping above. It is proved step by step:

* `InitRefines`: an initial state maps to an initial state of `LeaderPin`;
* `NewClientRefines`: `NewClient` is a `Construct` with fewer than two
  endpoints, and a stutter with more;
* `FinishStoreRefines`: the constructor's store is a `Construct`, a
  caller's a `Resolve`; both pin an affirmed endpoint by `IInv`;
* `ProbeRefines`: a probe answered with 200 is a `Confirm`, and every other
  outcome of a probe, "no leader found" included, a stutter or a
  `FailConstruct`;
* `StutterRefines`: every other action leaves the mapped state alone;
* `NextRefines` combines them. The theorem closes by PTL from
  `IInvInvariant`.

Both TLC and TLAPS handle `EndpointLists`, the set of endpoint lists:

* the module defines it with `Seq(Nodes)`, which the proof reasons about;
* the TLC configurations replace it by the equal finite set
  `SeqOf(Nodes, MaxEndpoints)`.

The remaining facts are checked by TLC only:

* the two violations;
* the invariants on the finite model.

`EnvelopeAProofs` proves `SuccessOnlyTheorem` and `HttpFailureTheorem`.
`EnvelopeBProofs` proves `ErrorMessageTheorem`. Each theorem has the form
`Spec => []P`, where `P` is a property that a passing run checks. The
theorems hold for every set of statuses and messages allowed by two
assumptions:

* `StatusAssumption`: statuses lie in `100..599`;
* `AbsentAssumption`: the marker for a missing member is not a JSON value.

Each property is inductive as it stands. A call's outcome is a function of
that call's response alone, and `Return` resets both. So no strengthening is
needed. The work is in lemmas about the decoders:

* `GetJSONOk`: `getJSON` lets a response through only when its status is
  below 400 and its body decodes.
* `OkCodeOnlyFromOkEnvelope`: the integer Code is `OK` only for an envelope
  whose Code member is the number 1. A missing or null Code decodes to
  `ERROR`.
* `FacadeSuccess` and `FacadeHttpError`: these combine the two lemmas above
  for every call pattern.
* `FacadePatterns`: every method of every table maps to a pattern, one
  step per table; `NextCases` uses it to reduce a method call to
  `Perform(c)` for a pattern `c`.
* `OutcomeEnvelope` and `TextHttpError`: an envelope pattern's outcome is
  its façade's; a text reader turns a status ≥ 400 into an HTTP error.
  `SuccessOnlyTheorem` is about envelope patterns only (its property says
  so), and `HttpFailureTheorem` covers both kinds.
* `ErrorEnvelopeDecodes`, `ParseAPIResponseError` and
  `ParseResponseError`: an `ERROR` envelope yields an API error that carries
  its Message, on both decoding paths of the string-coded client.
* `OutcomeError`: the same fact for every call pattern, `Discover` included.

Both modules also prove `DetailsMismatchTheorem`:
`Spec => []DetailsMismatchIsDecodeError`. An OK envelope whose Details do
not fit the operation's Go type is reported as a decode error, never as a
value. It rests on these lemmas:

* `MarshalRoundTrip` (`GoJSONProofs`): re-marshalling the Go value that
  `encoding/json` decoded from a non-null member gives the member back;
* `OkEnvelopePasses` and `StatusInt` (A) and `OkEnvelopeDecodes` (B): an
  OK envelope with status below 400 passes the decoder, with Details
  decoded to the Go value of the member;
* `ConvertMismatch` (A): every `convertTo*` helper and raw pattern fails on
  a mismatched shape; `ParseAPIResponseMismatch` and `OutcomeMismatch` (B)
  are the same fact for the string-coded client's paths.

`InstanceKeyProofs` proves `ParseWellFormedTheorem`:
`Spec => []ParseAcceptsWellFormed`, for every alphabet that holds `":"`,
`"0"` and `"1"` (`KeyAssumption`) and every length bound. A well-formed key
has one colon followed by a non-empty run of decimal digits. The property
is inductive as it stands. The lemmas follow the key through
`strings.Split` and `fmt.Sscanf`:

* `LeadNone` and `LeadAll`: the longest prefix of characters in a set is
  empty when the first character is outside it, and everything when every
  character is in it;
* `DropNone`: dropping nothing leaves a string as it is;
* `SscanfDigits`: `Sscanf("%d")` reads a non-empty run of digits as
  `DecimalValue` of it;
* `WellFormedParts`: the colon is unique and the rest of the string is a
  non-empty run of digits;
* `ParseWellFormed`: `ParseInstanceKey` returns the text before the colon
  and `DecimalValue` of the digits.

`DecimalValue` is a recursive function. The proof treats it as an opaque
value: it shows that the port is `DecimalValue` of the digits, not what
number that is.

`MetricsBridgeProofs` proves `InitOkTheorem`: `Spec => []InitOkMeansServed`.
It holds for every set of tracked names, namespaces and bounds allowed by
`BridgeAssumption`. The property is inductive as it stands: every action
that sets `lastInit` to `"ok"` also rebuilds the registry and the mappings,
and every other action leaves all three alone. The lemmas are:

* `OrderCoversMetrics`: the registration order lists every metric.
* `NoRejectRegistersAll`: with no rejected collector, the loop registers
  every name.
* `InitOkStep`: an init that returns `"ok"` establishes the property.
* `NextCases`: every other action leaves `lastInit`, `promRegistry`, `gen`
  and `mappings` unchanged.

## Not modelled yet, and the plan

Not modelled in the Envelope modules:

* the request side: `post`'s marshal of the request body, and path building;
* the question of which Code convention is authoritative, which the spec
  leaves open (§9). Both conventions are in `Bodies`, and each client treats
  the other's Code as a decode error.

Not modelled in `MetricsBridge`:

* the go-metrics library itself, beyond a counter's `Inc` and a gauge's
  update;
* the HTTP handler that serves the registry: a scrape is `Served`;
* the label sets of the vectors, which are all empty.

Not modelled in `InstanceKey`: ports beyond four characters, and so the
`int` overflow that `Sscanf` reports as an error.

The plan, in this order:

1. An action property of the Leader Resolver: no step moves a ready
   client's pin to an endpoint that was never confirmed.
2. More façade methods of both clients as call patterns of the Envelope
   modules.

These stay out:

* TLS and auth headers;
* the tests and documentation.

Neither changes any state that a property distinguishes.

## Limits of the proofs

Some facts stay with TLC:

* Liveness and `ENABLED`.
* What a recursive definition computes, for every input. This covers the
  value of `DecimalValue` and `DecimalDigits` of `InstanceKey`: the
  round trip of `InstanceKey.String` and `ParseInstanceKey` and the
  rejection of malformed ports are checked by TLC only.
* `ExportedGaugeCatchesUp`, a liveness property.
* Recursive operators and the modules that use them. `MCLeaderResolver`
  uses `SeqOf` from `SequencesExt` for this reason: no module with a theorem
  reaches it.
