--------------------------- MODULE LeaderResolver ---------------------------
(***************************************************************************)
(* The leader resolver of the string-coded client (src/unnamed/part_003,  *)
(* package client of go/client): NewClient, detectLeader with its two      *)
(* probing passes, RefreshLeader, and the read of c.leader by doRequest.   *)
(*                                                                         *)
(* One *Client is shared by the goroutines in Callers; Ctor is the         *)
(* goroutine that runs NewClient before the client is handed out.  The     *)
(* orchestrator service nodes are the environment: which one is the raft   *)
(* leader and which are up changes at any time, also while a probe runs.   *)
(*                                                                         *)
(* detectLeader creates ONE context with a 5 second timeout and uses it    *)
(* for every probe of both passes; elapsed[p] is the part of that budget   *)
(* the probes of goroutine p have used so far.                             *)
(*                                                                         *)
(* c.leader is a Go string written by detectLeader with no lock while      *)
(* doRequest reads it.  The write is a begin step (the probe that found    *)
(* the endpoint, pc = "store") and an end step (FinishStore); a read that  *)
(* overlaps it may see the old value, the new one, or a torn header.       *)
(***************************************************************************)
EXTENDS Naturals, Sequences

CONSTANTS
    Nodes,          \* normalised endpoint URLs of orchestrator nodes
    BaseURL,        \* normalizeURL(Config.BaseURL)
    Callers,        \* goroutines that share the constructed client
    Ctor,           \* the goroutine running NewClient
    MaxEndpoints,   \* longest Config.Endpoints list considered
    Deadline,       \* timeout of detectLeader's context (5 * time.Second)
    ProbeLatencies, \* time one probe takes before the node answers
    None,           \* no value (empty string, nil client)
    Torn            \* a string header read half-written

ASSUME NodesAssumption    == Nodes # {} /\ BaseURL \notin Nodes
ASSUME ProcsAssumption    == Ctor \notin Callers
ASSUME BoundAssumption    == MaxEndpoints \in Nat /\ Deadline \in Nat \ {0}
ASSUME LatencyAssumption  == ProbeLatencies \subseteq 0 .. Deadline
ASSUME SentinelAssumption ==
    /\ None \notin Nodes \cup {BaseURL}
    /\ Torn \notin Nodes \cup {BaseURL, None}

VARIABLES
    endpoints,  \* c.endpoints: normalizeEndpoints(Config.Endpoints)
    client,     \* "new", "detecting" (NewClient probing), "ready", "failed"
    leader,     \* c.leader
    pc,         \* per goroutine: "idle", "probe1", "probe2", "store"
    idx,        \* index of the endpoint the running pass probes next
    elapsed,    \* time used of the detectLeader context
    found,      \* the endpoint a successful probe is storing into c.leader
    result,     \* outcome of the goroutine's last detectLeader call
    target,     \* where each caller's last request was sent
    srvLeader,  \* environment: the node that is raft leader, or None
    up,         \* environment: which nodes accept connections
    affirmed,   \* history: endpoints that answered a probe with 200 OK
    cutOff      \* history: a probe of this call was aborted by the shared
                \* deadline although it would have answered within 5s

vars == <<endpoints, client, leader, pc, idx, elapsed, found, result,
          target, srvLeader, up, affirmed, cutOff>>
detectVars == <<pc, idx, elapsed, found, result, cutOff>>
envVars == <<srvLeader, up>>

Procs == Callers \cup {Ctor}

(* The Config.Endpoints lists NewClient may be given (TLC enumerates the *)
(* same set as SeqOf(Nodes, MaxEndpoints)).                               *)
EndpointLists == {s \in Seq(Nodes) : Len(s) <= MaxEndpoints}

(* What c.leader may hold: an endpoint, the base URL, or nothing yet. *)
LeaderValues == Nodes \cup {BaseURL, None}

-----------------------------------------------------------------------------
(* The service side, as the probes observe it.                             *)

(* Status of GET <endpoint>/leader-check on a node that is up. *)
LeaderCheckStatus(e) == IF srvLeader = e THEN 200 ELSE 404

(* Status of GET <endpoint>/routed-leader-check on a node that is up: the  *)
(* node can forward to a leader when the cluster has one.                  *)
RoutedLeaderCheckStatus(e) == IF srvLeader # None THEN 200 ELSE 503

(* isLeader and hasRoutedLeader, once the request has been answered: true *)
(* iff its status was http.StatusOK.  A transport error (including the    *)
(* expired context) returns false before this test; see Probe.            *)
(* Mutants: a check that treats any answer (err == nil) as success. *)
isLeaderAnyAnswer(e) == TRUE
hasRoutedLeaderAnyAnswer(e) == TRUE

isLeader(e) == LeaderCheckStatus(e) = 200

hasRoutedLeader(e) == RoutedLeaderCheckStatus(e) = 200

-----------------------------------------------------------------------------
Init ==
    /\ endpoints \in EndpointLists
    /\ client = "new"
    /\ leader = None
    /\ pc = [p \in Procs |-> "idle"]
    /\ idx = [p \in Procs |-> 1]
    /\ elapsed = [p \in Procs |-> 0]
    /\ found = [p \in Procs |-> None]
    /\ result = [p \in Procs |-> "none"]
    /\ target = [c \in Callers |-> None]
    /\ srvLeader \in Nodes \cup {None}
    /\ up \in [Nodes -> BOOLEAN]
    /\ affirmed = {}
    /\ cutOff = [p \in Procs |-> FALSE]

(* Mutant: the probe loop indexed from 0 instead of over the list. *)
StartDetectZeroIndex(p) ==
    /\ pc' = [pc EXCEPT ![p] = "probe1"]
    /\ idx' = [idx EXCEPT ![p] = 0]
    /\ elapsed' = [elapsed EXCEPT ![p] = 0]
    /\ cutOff' = [cutOff EXCEPT ![p] = FALSE]
    /\ UNCHANGED <<found, result>>

(* Entry of detectLeader: a fresh context, the first pass from the start. *)
StartDetect(p) ==
    /\ pc' = [pc EXCEPT ![p] = "probe1"]
    /\ idx' = [idx EXCEPT ![p] = 1]
    /\ elapsed' = [elapsed EXCEPT ![p] = 0]
    /\ cutOff' = [cutOff EXCEPT ![p] = FALSE]
    /\ UNCHANGED <<found, result>>

(* NewClient: more than one endpoint starts detectLeader; one endpoint is *)
(* taken as leader; none falls back to the base URL.                      *)
NewClient ==
    /\ client = "new"
    /\ \/ /\ Len(endpoints) > 1
          /\ client' = "detecting"
          /\ StartDetect(Ctor)
          /\ UNCHANGED leader
       \/ /\ Len(endpoints) <= 1
          /\ leader' = IF Len(endpoints) = 1 THEN endpoints[1] ELSE BaseURL
          /\ client' = "ready"
          /\ UNCHANGED detectVars
    /\ UNCHANGED <<endpoints, target, envVars, affirmed>>

(* RefreshLeader with more than one endpoint re-runs detectLeader; with   *)
(* fewer it returns nil and changes nothing (a stutter, not modelled).    *)
RefreshLeader(c) ==
    /\ client = "ready"
    /\ pc[c] = "idle"
    /\ Len(endpoints) > 1
    /\ StartDetect(c)
    /\ UNCHANGED <<endpoints, client, leader, target, envVars, affirmed>>

(* Mutant: NewClient that drops the error detectLeader returns and hands *)
(* out the client anyway.                                                  *)
NoLeaderFoundReady(p) ==
    /\ pc' = [pc EXCEPT ![p] = "idle"]
    /\ result' = [result EXCEPT ![p] = "noLeader"]
    /\ client' = IF p = Ctor THEN "ready" ELSE client

(* The end of detectLeader when the second pass found nobody: "no leader  *)
(* found among endpoints"; c.leader keeps its value, and NewClient returns *)
(* the error instead of a client.                                          *)
NoLeaderFound(p) ==
    /\ pc' = [pc EXCEPT ![p] = "idle"]
    /\ result' = [result EXCEPT ![p] = "noLeader"]
    /\ client' = IF p = Ctor THEN "failed" ELSE client

(* One iteration of either loop of detectLeader: probe endpoint idx[p]    *)
(* with check, under the shared context.  A probe that takes lat units    *)
(* is answered only if the context has not expired by then.  status is    *)
(* what the server answers for endpoint idx[p], accepted whether the check *)
(* counts that answer as success.                                         *)
Probe(p, pass, status, accepted) ==
    /\ pc[p] = pass
    /\ LET e == endpoints[idx[p]] IN
       \E lat \in ProbeLatencies :
         LET expired  == elapsed[p] + lat >= Deadline
             answered == up[e] /\ ~expired
             ok       == answered /\ accepted
         IN
         /\ elapsed' = [elapsed EXCEPT ![p] =
                          IF expired THEN Deadline ELSE elapsed[p] + lat]
         /\ cutOff' = [cutOff EXCEPT ![p] =
                          @ \/ (up[e] /\ expired /\ lat < Deadline)]
         /\ affirmed' = IF answered /\ status = 200
                          THEN affirmed \cup {e} ELSE affirmed
         /\ \/ /\ ok
               /\ pc' = [pc EXCEPT ![p] = "store"]
               /\ found' = [found EXCEPT ![p] = e]
               /\ UNCHANGED <<idx, result, client>>
            \/ /\ ~ok
               /\ idx[p] < Len(endpoints)
               /\ idx' = [idx EXCEPT ![p] = @ + 1]
               /\ UNCHANGED <<pc, found, result, client>>
            \/ /\ ~ok
               /\ idx[p] = Len(endpoints)
               /\ pass = "probe1"
               /\ pc' = [pc EXCEPT ![p] = "probe2"]
               /\ idx' = [idx EXCEPT ![p] = 1]
               /\ UNCHANGED <<found, result, client>>
            \/ /\ ~ok
               /\ idx[p] = Len(endpoints)
               /\ pass = "probe2"
               /\ NoLeaderFound(p)
               /\ UNCHANGED <<idx, found>>
    /\ UNCHANGED <<endpoints, leader, target, envVars>>

(* First loop of detectLeader: the direct leader check. *)
ProbeLeaderCheck(p) ==
    Probe(p, "probe1", LeaderCheckStatus(endpoints[idx[p]]),
          isLeader(endpoints[idx[p]]))

(* Second loop of detectLeader: the routed leader check. *)
ProbeRoutedLeaderCheck(p) ==
    Probe(p, "probe2", RoutedLeaderCheckStatus(endpoints[idx[p]]),
          hasRoutedLeader(endpoints[idx[p]]))

(* c.leader = endpoint; return nil.  The write completes here. *)
FinishStore(p) ==
    /\ pc[p] = "store"
    /\ leader' = found[p]
    /\ pc' = [pc EXCEPT ![p] = "idle"]
    /\ result' = [result EXCEPT ![p] = "ok"]
    /\ client' = IF p = Ctor THEN "ready" ELSE client
    /\ UNCHANGED <<endpoints, idx, elapsed, found, target, envVars,
                   affirmed, cutOff>>

(* What a read of c.leader can return: the stored value, and while another *)
(* goroutine is writing a different value, that value or a torn header.    *)
ObservableLeader ==
    {leader} \cup UNION {{found[q], Torn} :
                           q \in {q \in Procs : pc[q] = "store" /\
                                                found[q] # leader}}

(* doRequest: url := c.leader + "/" + path, then the request is sent there. *)
doRequest(c) ==
    /\ client = "ready"
    /\ pc[c] = "idle"
    /\ \E t \in ObservableLeader : target' = [target EXCEPT ![c] = t]
    /\ UNCHANGED <<endpoints, client, leader, detectVars, envVars, affirmed>>

-----------------------------------------------------------------------------
(* The orchestrator cluster: elections, crashes and restarts.              *)

Elect(n) ==
    /\ up[n]
    /\ srvLeader' = n
    /\ UNCHANGED <<up, endpoints, client, leader, detectVars, target, affirmed>>

LoseLeadership ==
    /\ srvLeader # None
    /\ srvLeader' = None
    /\ UNCHANGED <<up, endpoints, client, leader, detectVars, target, affirmed>>

Crash(n) ==
    /\ up[n]
    /\ up' = [up EXCEPT ![n] = FALSE]
    /\ srvLeader' = IF srvLeader = n THEN None ELSE srvLeader
    /\ UNCHANGED <<endpoints, client, leader, detectVars, target, affirmed>>

Restart(n) ==
    /\ ~up[n]
    /\ up' = [up EXCEPT ![n] = TRUE]
    /\ UNCHANGED <<srvLeader, endpoints, client, leader, detectVars, target,
                   affirmed>>

Environment ==
    \/ \E n \in Nodes : Elect(n) \/ Crash(n) \/ Restart(n)
    \/ LoseLeadership

Next ==
    \/ NewClient
    \/ \E c \in Callers : RefreshLeader(c) \/ doRequest(c)
    \/ \E p \in Procs :
          ProbeLeaderCheck(p) \/ ProbeRoutedLeaderCheck(p) \/ FinishStore(p)
    \/ Environment

Spec == Init /\ [][Next]_vars

-----------------------------------------------------------------------------
(* Type correctness. *)
TypeOK ==
    /\ endpoints \in EndpointLists
    /\ client \in {"new", "detecting", "ready", "failed"}
    /\ leader \in LeaderValues
    /\ pc \in [Procs -> {"idle", "probe1", "probe2", "store"}]
    /\ idx \in [Procs -> Nat \ {0}]
    /\ elapsed \in [Procs -> 0 .. Deadline]
    /\ found \in [Procs -> Nodes \cup {None}]
    /\ result \in [Procs -> {"none", "ok", "noLeader"}]
    /\ target \in [Callers -> LeaderValues \cup {Torn}]
    /\ srvLeader \in Nodes \cup {None}
    /\ up \in [Nodes -> BOOLEAN]
    /\ affirmed \subseteq Nodes
    /\ cutOff \in [Procs -> BOOLEAN]

(* The resolver never settles on an arbitrary endpoint (NewClient and     *)
(* detectLeader): once the client is handed out, with no endpoints it uses *)
(* the base URL, with one it uses that one, and with several it uses an    *)
(* endpoint that at some point answered a leader or routed-leader probe    *)
(* with 200 OK, also after any number of refreshes, failed ones included.  *)
PinnedLeaderJustified ==
    client = "ready" =>
        /\ Len(endpoints) = 0 => leader = BaseURL
        /\ Len(endpoints) = 1 => leader = endpoints[1]
        /\ Len(endpoints) > 1 => leader \in affirmed

(* The inductive strengthening of TypeOK /\ PinnedLeaderJustified (see     *)
(* LeaderResolverProofs): besides both, a store in progress (the probe    *)
(* that chose found[p] has run, FinishStore has not) holds an endpoint    *)
(* that answered 200; a running detectLeader probes a valid index of a    *)
(* list of more than one endpoint; and only NewClient's own detection     *)
(* moves the client from "detecting" to "ready", and a caller's          *)
(* detectLeader (RefreshLeader) runs only on a handed-out client.          *)
IInv ==
    /\ TypeOK
    /\ \A p \in Procs : pc[p] # "idle" =>
           /\ Len(endpoints) > 1
           /\ idx[p] \in 1 .. Len(endpoints)
    /\ \A p \in Procs : pc[p] = "store" => found[p] \in affirmed
    /\ pc[Ctor] # "idle" => client = "detecting"
    /\ client = "detecting" => Len(endpoints) > 1
    /\ \A c \in Callers : pc[c] # "idle" => client = "ready"
    /\ PinnedLeaderJustified

(* Requests only go to a configured endpoint (doRequest reading c.leader   *)
(* while RefreshLeader may be writing it): every request's base URL is one *)
(* of the configured endpoints or the base URL, never a torn string.       *)
RequestTargetIntact ==
    \A c \in Callers : target[c] \in LeaderValues

(* detectLeader reports "no leader found" only after every endpoint had   *)
(* its chance: no probe of the failing call was aborted by the shared     *)
(* 5-second context when it would have been answered within its own 5s.   *)
NoLeaderOnlyAfterFairProbes ==
    \A p \in Procs : result[p] = "noLeader" => ~cutOff[p]

-----------------------------------------------------------------------------
(* Refinement of the resolver's promise (LeaderPin): NewClient's own       *)
(* detection is construction still in progress, c.leader is the pinned    *)
(* leader, and the endpoints that answered a probe with 200 OK are the    *)
(* confirmed ones.                                                         *)
AbsClient == IF client = "detecting" THEN "new" ELSE client

Pin == INSTANCE LeaderPin
         WITH client <- AbsClient, pinned <- leader, confirmed <- affirmed

(* NewClient, detectLeader and RefreshLeader together implement LeaderPin: *)
(* c.leader changes only when construction succeeds (to the base URL, the *)
(* single endpoint or a confirmed one) or when a re-resolution pins a      *)
(* confirmed endpoint, and a client is handed out or refused only once.    *)
PinSpec == Pin!Spec
=============================================================================
