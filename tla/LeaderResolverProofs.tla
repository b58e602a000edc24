------------------------ MODULE LeaderResolverProofs ------------------------
(***************************************************************************)
(* Proofs about LeaderResolver for every value of its constants.           *)
(*                                                                         *)
(* PinnedLeaderJustified is not inductive by itself: a probe that succeeds *)
(* stores found[p] into c.leader one step later (FinishStore), so the      *)
(* invariant must also say that a pending store holds an affirmed         *)
(* endpoint, that a running detectLeader probes a valid index of a list    *)
(* of more than one endpoint, and that NewClient's own detection is the    *)
(* one that moves the client from "detecting" to "ready".                  *)
(***************************************************************************)
EXTENDS LeaderResolver, TLAPS

USE NodesAssumption, ProcsAssumption, BoundAssumption, LatencyAssumption,
    SentinelAssumption

(* A list of more than one endpoint is neither empty nor a singleton.     *)
(* (Z3 loops on this fact when it is stated about Len directly.)          *)
LEMMA ManyEndpoints ==
  ASSUME NEW s \in Seq(Nodes), Len(s) > 1 PROVE Len(s) # 0 /\ Len(s) # 1
  <1>1. Len(s) \in Nat
    OBVIOUS
  <1>2. \A n \in Nat : n > 1 => n # 0 /\ n # 1
    OBVIOUS
  <1>3. QED
    BY <1>1, <1>2, Zenon

(* The initial states satisfy the inductive invariant. *)
LEMMA InitIInv == Init => IInv
  BY DEF Init, IInv, TypeOK, EndpointLists, LeaderValues, Procs,
         PinnedLeaderJustified

(* The steps of the environment leave the client side untouched. *)
LEMMA ElectIInv ==
  ASSUME IInv, NEW n \in Nodes, Elect(n) PROVE IInv'
  BY DEF IInv, TypeOK, Elect, PinnedLeaderJustified, detectVars

LEMMA LoseLeadershipIInv ==
  ASSUME IInv, LoseLeadership PROVE IInv'
  BY DEF IInv, TypeOK, LoseLeadership, PinnedLeaderJustified, detectVars

LEMMA CrashIInv ==
  ASSUME IInv, NEW n \in Nodes, Crash(n) PROVE IInv'
  BY DEF IInv, TypeOK, Crash, PinnedLeaderJustified, detectVars

LEMMA RestartIInv ==
  ASSUME IInv, NEW n \in Nodes, Restart(n) PROVE IInv'
  BY DEF IInv, TypeOK, Restart, PinnedLeaderJustified, detectVars

(* NewClient preserves the invariant. *)
LEMMA NewClientIInv == IInv /\ NewClient => IInv'
  <1> SUFFICES ASSUME IInv, NewClient PROVE IInv'
    OBVIOUS
  <1>1. endpoints \in Seq(Nodes) /\ Ctor \in Procs
    BY DEF IInv, TypeOK, EndpointLists, Procs
  <1>2. CASE /\ Len(endpoints) > 1
             /\ client' = "detecting"
             /\ StartDetect(Ctor)
             /\ UNCHANGED leader
    <2>1. /\ pc' = [pc EXCEPT ![Ctor] = "probe1"]
          /\ idx' = [idx EXCEPT ![Ctor] = 1]
          /\ elapsed' = [elapsed EXCEPT ![Ctor] = 0]
          /\ cutOff' = [cutOff EXCEPT ![Ctor] = FALSE]
          /\ UNCHANGED <<found, result, endpoints, target, affirmed,
                         srvLeader, up>>
      BY <1>2 DEF StartDetect, NewClient, envVars
    <2>2. \A p \in Procs : pc'[p] # "idle" => p = Ctor \/ pc[p] # "idle"
      BY <2>1, <1>1
    <2>3. pc[Ctor] = "idle" /\ pc'[Ctor] = "probe1"
      BY <1>1, <2>1 DEF NewClient, IInv, TypeOK
    <2>4. QED
      BY <1>1, <1>2, <2>1, <2>2, <2>3
         DEF IInv, TypeOK, PinnedLeaderJustified, NewClient
  <1>3. CASE /\ Len(endpoints) <= 1
             /\ leader' = IF Len(endpoints) = 1 THEN endpoints[1] ELSE BaseURL
             /\ client' = "ready"
             /\ UNCHANGED detectVars
    <2>1. Len(endpoints) = 1 => endpoints[1] \in Nodes
      BY <1>1
    <2>2. UNCHANGED <<pc, idx, elapsed, found, result, cutOff, endpoints,
                     target, affirmed, srvLeader, up>>
      BY <1>3 DEF NewClient, detectVars, envVars
    <2>3. QED
      BY <1>3, <2>1, <2>2 DEF IInv, TypeOK, PinnedLeaderJustified,
                              LeaderValues, NewClient
  <1>4. QED
    BY <1>2, <1>3 DEF NewClient

(* RefreshLeader preserves the invariant. *)
LEMMA RefreshIInv ==
  ASSUME IInv, NEW c \in Callers, RefreshLeader(c) PROVE IInv'
  BY DEF RefreshLeader, StartDetect, IInv, TypeOK, Procs,
         PinnedLeaderJustified, envVars

(* FinishStore preserves the invariant: the stored endpoint was affirmed. *)
LEMMA FinishStoreIInv ==
  ASSUME IInv, NEW p \in Procs, FinishStore(p) PROVE IInv'
  <1>1. found[p] \in affirmed /\ Len(endpoints) > 1
    BY DEF FinishStore, IInv
  <1>2. p = Ctor => client = "detecting"
    BY DEF FinishStore, IInv
  <1>3. /\ leader' = found[p]
        /\ pc' = [pc EXCEPT ![p] = "idle"]
        /\ result' = [result EXCEPT ![p] = "ok"]
        /\ client' = IF p = Ctor THEN "ready" ELSE client
        /\ UNCHANGED <<endpoints, idx, elapsed, found, target, srvLeader, up,
                       affirmed, cutOff>>
    BY DEF FinishStore, envVars
  <1>4. TypeOK'
    BY <1>1, <1>3 DEF IInv, TypeOK, LeaderValues
  <1>5. PinnedLeaderJustified'
    <2>1. leader' \in affirmed' /\ Len(endpoints') > 1
      BY <1>1, <1>3
    <2>2. endpoints' = endpoints /\ endpoints \in Seq(Nodes)
      BY <1>3 DEF IInv, TypeOK, EndpointLists
    <2>7. Len(endpoints) # 0 /\ Len(endpoints) # 1
      BY <1>1, <2>2, ManyEndpoints
    <2>4. Len(endpoints') # 0 /\ Len(endpoints') # 1
      BY <2>2, <2>7
    <2>3. /\ Len(endpoints') = 0 => leader' = BaseURL
          /\ Len(endpoints') = 1 => leader' = endpoints'[1]
          /\ Len(endpoints') > 1 => leader' \in affirmed'
      BY <2>1, <2>4
    <2>5. QED
      BY <2>3 DEF PinnedLeaderJustified
  <1>6. pc'[Ctor] # "idle" => client' = "detecting"
    BY <1>3 DEF IInv, TypeOK, Procs
  <1>7. client' = "detecting" => Len(endpoints') > 1
    BY <1>1, <1>3
  <1>8. \A q \in Procs : pc'[q] # "idle" =>
           /\ Len(endpoints') > 1
           /\ idx'[q] \in 1 .. Len(endpoints')
    BY <1>3 DEF IInv, TypeOK
  <1>9. \A q \in Procs : pc'[q] = "store" => found'[q] \in affirmed'
    BY <1>3 DEF IInv, TypeOK
  <1>10. \A c \in Callers : pc'[c] # "idle" => client' = "ready"
    <2>1. CASE p = Ctor
      BY <1>3, <2>1
    <2>2. CASE p # Ctor
      <3>1. client' = client
        BY <1>3, <2>2
      <3>2. \A c \in Callers : pc'[c] # "idle" => c # p /\ pc[c] # "idle"
        BY <1>3 DEF IInv, TypeOK, Procs
      <3>. QED
        BY <3>1, <3>2 DEF IInv
    <2>. QED
      BY <2>1, <2>2
  <1>11. QED
    BY <1>4, <1>5, <1>6, <1>7, <1>8, <1>9, <1>10 DEF IInv

(* A request only records where it went. *)
LEMMA DoRequestIInv ==
  ASSUME IInv, NEW c \in Callers, doRequest(c) PROVE IInv'
  <1>1. ObservableLeader \subseteq LeaderValues \cup {Torn}
    BY DEF ObservableLeader, IInv, TypeOK, LeaderValues, Procs
  <1>2. QED
    BY <1>1 DEF doRequest, IInv, TypeOK, PinnedLeaderJustified, envVars,
              detectVars

(* One probe of either pass preserves the invariant, whatever the server  *)
(* answers, as long as the check accepts only a 200 answer.               *)
LEMMA ProbeIInv ==
  ASSUME IInv, NEW p \in Procs, NEW pass \in {"probe1", "probe2"},
         NEW status, NEW accepted \in BOOLEAN,
         accepted => status = 200,
         Probe(p, pass, status, accepted)
  PROVE  IInv'
  <1> DEFINE e == endpoints[idx[p]]
             expired(l) == elapsed[p] + l >= Deadline
             answered(l) == up[e] /\ ~expired(l)
  <1>1. pc[p] = pass /\ Len(endpoints) > 1 /\ idx[p] \in 1 .. Len(endpoints)
    BY DEF Probe, IInv
  <1>2. e \in Nodes
    BY <1>1 DEF IInv, TypeOK, EndpointLists
  <1>3. PICK lat \in ProbeLatencies :
          /\ elapsed' = [elapsed EXCEPT ![p] =
                           IF expired(lat) THEN Deadline ELSE elapsed[p] + lat]
          /\ cutOff' = [cutOff EXCEPT ![p] =
                           @ \/ (up[e] /\ expired(lat) /\ lat < Deadline)]
          /\ affirmed' = IF answered(lat) /\ status = 200
                           THEN affirmed \cup {e} ELSE affirmed
          /\ \/ /\ answered(lat) /\ accepted
                /\ pc' = [pc EXCEPT ![p] = "store"]
                /\ found' = [found EXCEPT ![p] = e]
                /\ UNCHANGED <<idx, result, client>>
             \/ /\ idx[p] < Len(endpoints)
                /\ idx' = [idx EXCEPT ![p] = @ + 1]
                /\ UNCHANGED <<pc, found, result, client>>
             \/ /\ pass = "probe1"
                /\ pc' = [pc EXCEPT ![p] = "probe2"]
                /\ idx' = [idx EXCEPT ![p] = 1]
                /\ UNCHANGED <<found, result, client>>
             \/ /\ NoLeaderFound(p)
                /\ UNCHANGED <<idx, found>>
    BY Zenon DEF Probe
  <1>4. UNCHANGED <<endpoints, leader, target, srvLeader, up>>
    BY DEF Probe, envVars
  <1>5. /\ elapsed' \in [Procs -> 0 .. Deadline]
        /\ cutOff' \in [Procs -> BOOLEAN]
        /\ affirmed' \subseteq Nodes
        /\ affirmed \subseteq affirmed'
    BY <1>2, <1>3 DEF IInv, TypeOK
  <1>6. CASE /\ answered(lat) /\ accepted
             /\ pc' = [pc EXCEPT ![p] = "store"]
             /\ found' = [found EXCEPT ![p] = e]
             /\ UNCHANGED <<idx, result, client>>
    <2>1. e \in affirmed'
      BY <1>3, <1>6
    <2>2. QED
      BY <1>1, <1>2, <1>4, <1>5, <1>6, <2>1
         DEF IInv, TypeOK, PinnedLeaderJustified
  <1>7. CASE /\ idx[p] < Len(endpoints)
             /\ idx' = [idx EXCEPT ![p] = @ + 1]
             /\ UNCHANGED <<pc, found, result, client>>
    BY <1>1, <1>4, <1>5, <1>7 DEF IInv, TypeOK, PinnedLeaderJustified
  <1>8. CASE /\ pass = "probe1"
             /\ pc' = [pc EXCEPT ![p] = "probe2"]
             /\ idx' = [idx EXCEPT ![p] = 1]
             /\ UNCHANGED <<found, result, client>>
    BY <1>1, <1>4, <1>5, <1>8 DEF IInv, TypeOK, PinnedLeaderJustified
  <1>9. CASE /\ NoLeaderFound(p)
             /\ UNCHANGED <<idx, found>>
    BY <1>1, <1>4, <1>5, <1>9
       DEF IInv, TypeOK, PinnedLeaderJustified, NoLeaderFound
  <1>10. QED
    BY <1>3, <1>6, <1>7, <1>8, <1>9

(* Every step of Next, and a stuttering step, preserves the invariant. *)
LEMMA NextIInv == IInv /\ [Next]_vars => IInv'
  <1> SUFFICES ASSUME IInv, [Next]_vars PROVE IInv'
    OBVIOUS
  <1>1. CASE NewClient
    BY <1>1, NewClientIInv
  <1>2. ASSUME NEW c \in Callers, RefreshLeader(c) PROVE IInv'
    BY <1>2, RefreshIInv
  <1>3. ASSUME NEW c \in Callers, doRequest(c) PROVE IInv'
    BY <1>3, DoRequestIInv
  <1>4. ASSUME NEW p \in Procs, ProbeLeaderCheck(p) PROVE IInv'
    <2>1. /\ isLeader(endpoints[idx[p]]) \in BOOLEAN
          /\ isLeader(endpoints[idx[p]]) =>
                LeaderCheckStatus(endpoints[idx[p]]) = 200
      BY DEF isLeader
    <2>2. QED
      BY <1>4, <2>1, ProbeIInv DEF ProbeLeaderCheck
  <1>5. ASSUME NEW p \in Procs, ProbeRoutedLeaderCheck(p) PROVE IInv'
    <2>1. /\ hasRoutedLeader(endpoints[idx[p]]) \in BOOLEAN
          /\ hasRoutedLeader(endpoints[idx[p]]) =>
                RoutedLeaderCheckStatus(endpoints[idx[p]]) = 200
      BY DEF hasRoutedLeader
    <2>2. QED
      BY <1>5, <2>1, ProbeIInv DEF ProbeRoutedLeaderCheck
  <1>6. ASSUME NEW p \in Procs, FinishStore(p) PROVE IInv'
    BY <1>6, FinishStoreIInv
  <1>7. CASE Environment
    BY <1>7, ElectIInv, LoseLeadershipIInv, CrashIInv, RestartIInv
       DEF Environment
  <1>8. CASE UNCHANGED vars
    BY <1>8 DEF vars, IInv, TypeOK, PinnedLeaderJustified
  <1>9. QED
    BY <1>1, <1>2, <1>3, <1>4, <1>5, <1>6, <1>7, <1>8 DEF Next

(* IInv holds in every reachable state. *)
THEOREM IInvInvariant == Spec => []IInv
  BY InitIInv, NextIInv, PTL DEF Spec

(* Type correctness of the leader resolver. *)
THEOREM TypeCorrect == Spec => []TypeOK
  <1>1. IInv => TypeOK
    BY DEF IInv
  <1>2. QED
    BY <1>1, IInvInvariant, PTL

(* The resolver never settles on an arbitrary endpoint: with several     *)
(* endpoints the pinned c.leader is one that answered a probe with 200 OK *)
(* (NewClient, detectLeader and RefreshLeader), for every configuration.  *)
THEOREM PinnedLeaderJustifiedTheorem == Spec => []PinnedLeaderJustified
  <1>1. IInv => PinnedLeaderJustified
    BY DEF IInv
  <1>2. QED
    BY <1>1, IInvInvariant, PTL

-----------------------------------------------------------------------------
(* Refinement of LeaderPin.  Under IInv every step of the resolver is a   *)
(* step of LeaderPin under the mapping AbsClient, leader, affirmed, or     *)
(* leaves the mapped state alone.                                          *)

(* The abstract initial state: the mapped client is "new", nothing pinned *)
(* and nothing confirmed.                                                  *)
LEMMA InitRefines == Init => Pin!Init
  BY DEF Init, Pin!Init, AbsClient, EndpointLists

(* A step that leaves the client, c.leader, affirmed and the endpoints   *)
(* alone is an abstract stutter.                                           *)
LEMMA StutterRefines ==
  ASSUME UNCHANGED <<endpoints, client, leader, affirmed>>
  PROVE  [Pin!Next]_Pin!vars
  BY DEF Pin!vars, AbsClient

(* NewClient is a stutter (detection starts) or a successful construction *)
(* with zero or one endpoint.                                              *)
LEMMA NewClientRefines ==
  ASSUME IInv, NewClient PROVE [Pin!Next]_Pin!vars
  <1>1. client = "new" /\ UNCHANGED <<endpoints, affirmed>>
    BY DEF NewClient
  <1>2. Len(endpoints) \in Nat
    BY DEF IInv, TypeOK, EndpointLists
  <1>3. CASE Len(endpoints) > 1 /\ client' = "detecting" /\ UNCHANGED leader
    BY <1>1, <1>3, StutterRefines DEF Pin!vars, AbsClient
  <1>4. CASE /\ Len(endpoints) <= 1
             /\ leader' = IF Len(endpoints) = 1 THEN endpoints[1] ELSE BaseURL
             /\ client' = "ready"
    <2>1. Len(endpoints) = 0 \/ Len(endpoints) = 1
      <3>1. \A n \in Nat : n <= 1 => n = 0 \/ n = 1
        OBVIOUS
      <3>. QED
        BY <1>2, <1>4, <3>1, Zenon
    <2>2. Pin!Construct
      BY <1>1, <1>4, <2>1 DEF Pin!Construct, AbsClient
    <2>. QED
      BY <2>2 DEF Pin!Next
  <1>. QED
    BY <1>3, <1>4 DEF NewClient

(* FinishStore completes a construction (NewClient's detection) or a      *)
(* re-resolution (a caller's RefreshLeader), pinning an affirmed endpoint. *)
LEMMA FinishStoreRefines ==
  ASSUME IInv, NEW p \in Procs, FinishStore(p) PROVE [Pin!Next]_Pin!vars
  <1>1. /\ found[p] \in affirmed /\ Len(endpoints) > 1
        /\ leader' = found[p]
        /\ UNCHANGED <<endpoints, affirmed>>
    BY DEF FinishStore, IInv
  <1>2. CASE p = Ctor
    <2>1. client = "detecting" /\ client' = "ready"
      BY <1>2 DEF FinishStore, IInv
    <2>2. Pin!Construct
      BY <1>1, <2>1 DEF Pin!Construct, AbsClient
    <2>. QED
      BY <2>2 DEF Pin!Next
  <1>3. CASE p # Ctor
    <2>1. p \in Callers
      BY <1>3 DEF Procs
    <2>2. client = "ready" /\ client' = client
      BY <1>3, <2>1 DEF FinishStore, IInv
    <2>3. Pin!Resolve
      BY <1>1, <2>2 DEF Pin!Resolve, AbsClient
    <2>. QED
      BY <2>3 DEF Pin!Next
  <1>. QED
    BY <1>2, <1>3

(* A probe confirms the endpoint that answered 200, or ends NewClient's   *)
(* detection with "no leader found", or changes nothing abstract, when   *)
(* the check accepts exactly a 200 answer.                                *)
LEMMA ProbeRefines ==
  ASSUME IInv, NEW p \in Procs, NEW pass \in {"probe1", "probe2"},
         NEW status, NEW accepted \in BOOLEAN,
         accepted = (status = 200),
         Probe(p, pass, status, accepted)
  PROVE  [Pin!Next]_Pin!vars
  <1> DEFINE e == endpoints[idx[p]]
             expired(l) == elapsed[p] + l >= Deadline
             answered(l) == up[e] /\ ~expired(l)
  <1>1. pc[p] = pass /\ Len(endpoints) > 1 /\ idx[p] \in 1 .. Len(endpoints)
    BY DEF Probe, IInv
  <1>2. e \in Nodes /\ e \in Pin!Candidates
    BY <1>1 DEF IInv, TypeOK, EndpointLists, Pin!Candidates
  <1>3. PICK lat \in ProbeLatencies :
          /\ affirmed' = IF answered(lat) /\ status = 200
                           THEN affirmed \cup {e} ELSE affirmed
          /\ \/ /\ answered(lat) /\ accepted
                /\ UNCHANGED client
             \/ /\ ~(answered(lat) /\ accepted)
                /\ UNCHANGED client
             \/ /\ ~(answered(lat) /\ accepted)
                /\ NoLeaderFound(p)
    BY Zenon DEF Probe
  <1>4. UNCHANGED <<endpoints, leader>>
    BY DEF Probe
  <1>5. CASE answered(lat) /\ accepted /\ UNCHANGED client
    <2>1. affirmed' = affirmed \cup {e}
      BY <1>3, <1>5
    <2>2. Pin!Confirm(e)
      BY <1>2, <1>4, <1>5, <2>1 DEF Pin!Confirm, AbsClient
    <2>. QED
      BY <1>2, <2>2 DEF Pin!Next
  <1>6. CASE ~(answered(lat) /\ accepted) /\ UNCHANGED client
    BY <1>3, <1>4, <1>6, StutterRefines
  <1>7. CASE ~(answered(lat) /\ accepted) /\ NoLeaderFound(p)
    <2>1. UNCHANGED affirmed
      BY <1>3, <1>7
    <2>2. CASE p = Ctor
      <3>1. client = "detecting" /\ client' = "failed"
        BY <1>1, <1>7, <2>2 DEF IInv, NoLeaderFound
      <3>2. Pin!FailConstruct
        BY <1>1, <1>4, <2>1, <3>1 DEF Pin!FailConstruct, AbsClient
      <3>. QED
        BY <3>2 DEF Pin!Next
    <2>3. CASE p # Ctor
      BY <1>4, <1>7, <2>1, <2>3, StutterRefines DEF NoLeaderFound
    <2>. QED
      BY <2>2, <2>3
  <1>. QED
    BY <1>3, <1>5, <1>6, <1>7

(* Every step of the resolver, under IInv, is a step of LeaderPin or an    *)
(* abstract stutter.                                                       *)
LEMMA NextRefines == IInv /\ [Next]_vars => [Pin!Next]_Pin!vars
  <1> SUFFICES ASSUME IInv, [Next]_vars PROVE [Pin!Next]_Pin!vars
    OBVIOUS
  <1>1. CASE NewClient
    BY <1>1, NewClientRefines
  <1>2. ASSUME NEW c \in Callers, RefreshLeader(c) \/ doRequest(c)
        PROVE  [Pin!Next]_Pin!vars
    BY <1>2, StutterRefines DEF RefreshLeader, doRequest
  <1>3. ASSUME NEW p \in Procs, ProbeLeaderCheck(p) PROVE [Pin!Next]_Pin!vars
    <2>1. isLeader(endpoints[idx[p]]) =
            (LeaderCheckStatus(endpoints[idx[p]]) = 200)
      BY DEF isLeader
    <2>. QED
      BY <1>3, <2>1, ProbeRefines DEF ProbeLeaderCheck
  <1>4. ASSUME NEW p \in Procs, ProbeRoutedLeaderCheck(p)
        PROVE  [Pin!Next]_Pin!vars
    <2>1. hasRoutedLeader(endpoints[idx[p]]) =
            (RoutedLeaderCheckStatus(endpoints[idx[p]]) = 200)
      BY DEF hasRoutedLeader
    <2>. QED
      BY <1>4, <2>1, ProbeRefines DEF ProbeRoutedLeaderCheck
  <1>5. ASSUME NEW p \in Procs, FinishStore(p) PROVE [Pin!Next]_Pin!vars
    BY <1>5, FinishStoreRefines
  <1>6. CASE Environment
    BY <1>6, StutterRefines
       DEF Environment, Elect, LoseLeadership, Crash, Restart
  <1>7. CASE UNCHANGED vars
    BY <1>7, StutterRefines DEF vars
  <1>. QED
    BY <1>1, <1>2, <1>3, <1>4, <1>5, <1>6, <1>7 DEF Next

(* The resolver implements its promise (spec 4.3, 5): NewClient,           *)
(* detectLeader and RefreshLeader change c.leader only by constructing a  *)
(* client (base URL, single endpoint or confirmed endpoint) or by         *)
(* re-resolving to a confirmed endpoint, for every configuration.         *)
THEOREM Refinement == Spec => PinSpec
  <1>1. Init => Pin!Init
    BY InitRefines
  <1>2. IInv /\ [Next]_vars => [Pin!Next]_Pin!vars
    BY NextRefines
  <1>. QED
    BY <1>1, <1>2, IInvInvariant, PTL DEF Spec, PinSpec, Pin!Spec
=============================================================================
