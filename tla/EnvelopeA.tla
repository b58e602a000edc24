----------------------------- MODULE EnvelopeA -----------------------------
(***************************************************************************)
(* The decoder of the integer-coded client (package client under          *)
(* src/client and the façades in src/unnamed/part_000 to part_002): every *)
(* operation calls getJSON into an APIResponse whose Code is an int,       *)
(* compares Code with OK, and converts Details with a convertTo* helper    *)
(* (json.Marshal of Details, then json.Unmarshal into the typed result).   *)
(*                                                                         *)
(* Every façade method is listed, file by file, with its call pattern;   *)
(* a call of a method is the whole method: transport, parseResponse, the *)
(* Code check and the conversion of its pattern.  Two methods bypass the *)
(* envelope: getPlainText and getRawBytes.                                *)
(***************************************************************************)
EXTENDS EnvelopeCall

(* APIResponseCode: ERROR = 0 and OK = 1 (iota). *)
ERROR == 0
OK    == 1

(* json.Unmarshal of a body into APIResponse{Code APIResponseCode; ...}. *)
APIResponse(body) == UnmarshalEnvelope(body, "num", ERROR)

(* Mutant: parseResponse without its HTTP status check. *)
getJSONNoStatusCheck(r) ==
    IF r.net # "ok" THEN [ok |-> FALSE, out |-> Fail("transport", "none")]
    ELSE IF APIResponse(r.body).err THEN [ok |-> FALSE, out |-> Fail("decode", "none")]
    ELSE [ok |-> TRUE, env |-> APIResponse(r.body)]

(* getJSON: doRequest, then parseResponse into &response.  A failed request *)
(* or body read is a transport error, any status >= 400 an HTTP error     *)
(* before the body is looked at, a body that does not decode a parse      *)
(* error.                                                                  *)
getJSON(r) ==
    IF r.net # "ok" THEN [ok |-> FALSE, out |-> Fail("transport", "none")]
    ELSE IF r.status >= 400 THEN [ok |-> FALSE, out |-> Fail("http", r.status)]
    ELSE IF APIResponse(r.body).err THEN [ok |-> FALSE, out |-> Fail("decode", "none")]
    ELSE [ok |-> TRUE, env |-> APIResponse(r.body)]

(* Mutant: a conversion that drops json.Unmarshal's error. *)
convertToInstanceIgnoreError(d) ==
    IF d.g = "nil" THEN Fail("decode", "none") ELSE Ok("decoded")

(* convertToInstance and the other single-record helpers: nil data is an  *)
(* error; otherwise re-marshal and unmarshal into the struct.              *)
convertToInstance(d) ==
    IF d.g = "nil" THEN Fail("decode", "none")
    ELSE IF UnmarshalOK(Marshal(d), "struct") THEN Ok("decoded")
    ELSE Fail("decode", "none")

(* convertToInstanceSlice and the other slice helpers: nil data is an      *)
(* empty slice; otherwise re-marshal and unmarshal into the slice.         *)
convertToInstanceSlice(d) ==
    IF d.g = "nil" THEN Ok("empty")
    ELSE IF UnmarshalOK(Marshal(d), "slice") THEN Ok("decoded")
    ELSE Fail("decode", "none")

(* convertToPoolInstancesMap: nil data is an empty map; otherwise          *)
(* re-marshal and unmarshal into map[string][]InstanceKey.                 *)
convertToPoolInstancesMap(d) ==
    IF d.g = "nil" THEN Ok("empty")
    ELSE IF UnmarshalOK(Marshal(d), "map") THEN Ok("decoded")
    ELSE Fail("decode", "none")

(* convertToBool: nil data and any non-bool are errors. *)
convertToBool(d) ==
    IF d.g = "bool" THEN Ok("decoded") ELSE Fail("decode", "none")

(* The inline decodes (GetHeuristicClusterPoolLag, the monitoring, tag,   *)
(* status and raft readers): json.Marshal(Details), then json.Unmarshal  *)
(* into a variable of Go type t declared without a value.  Null leaves it *)
(* untouched: a nil slice or map, or the zero struct whose address is     *)
(* returned.                                                               *)
Unmarshalled(d, t) ==
    LET j == Marshal(d) IN
    IF ~UnmarshalOK(j, t) THEN Fail("decode", "none")
    ELSE IF Decoded(j) = "untouched" THEN Ok(IF t = "struct" THEN "zero" ELSE "nil")
    ELSE Ok("decoded")

(* GetRaftStatus: nil Details is an empty map, then the inline decode into *)
(* map[string]interface{}.                                                  *)
RaftStatus(d) ==
    IF d.g = "nil" THEN Ok("empty") ELSE Unmarshalled(d, "ifaceMap")

(* GetHeuristicClusterPoolLagForPool: nil is 0; a type switch accepts      *)
(* float64, int64 and int, of which decoding into interface{} can give     *)
(* only float64.                                                           *)
LagValue(d) ==
    CASE d.g = "nil"     -> Ok("zero")
      [] d.g = "float64" -> Ok("decoded")
      [] OTHER           -> Fail("decode", "none")

(* GetInstanceSpecificTagValue and GetRaftLeader: nil is "", a string is   *)
(* returned as it is, any other value is formatted with fmt.Sprint instead *)
(* of failing.                                                             *)
TagValue(d) ==
    CASE d.g = "nil"    -> Ok("zero")
      [] d.g = "string" -> Ok("decoded")
      [] OTHER          -> Ok("stringified")

(* GetInstance: nil Details is "no instance data", then convertToInstance. *)
InstanceDetails(d) ==
    IF d.g = "nil" THEN Fail("decode", "none") ELSE convertToInstance(d)

(* The envelope call patterns, and the Go type each one decodes Details   *)
(* into.                                                                   *)
Target == [exec |-> "none", record |-> "struct", instance |-> "struct",
           slice |-> "slice", poolMap |-> "map", bool |-> "bool",
           lagValue |-> "iface", tagValue |-> "iface", rawSlice |-> "slice",
           rawMap |-> "map", rawStruct |-> "struct", rawIfaceMap |-> "ifaceMap",
           raftStatus |-> "ifaceMap"]

(* The two readers that do not decode an envelope. *)
TextCalls == {"plainText", "rawBytes"}

Patterns == DOMAIN Target \cup TextCalls

(* What each call pattern does with the Details of a Code OK envelope. *)
Convert(c, d) ==
    CASE c = "exec"        -> Ok("none")
      [] c = "record"      -> convertToInstance(d)
      [] c = "instance"    -> InstanceDetails(d)
      [] c = "slice"       -> convertToInstanceSlice(d)
      [] c = "poolMap"     -> convertToPoolInstancesMap(d)
      [] c = "bool"        -> convertToBool(d)
      [] c = "lagValue"    -> LagValue(d)
      [] c = "tagValue"    -> TagValue(d)
      [] c = "raftStatus"  -> RaftStatus(d)
      [] c \in {"rawSlice", "rawMap", "rawStruct", "rawIfaceMap"} ->
             Unmarshalled(d, Target[c])

(* Mutant: a façade that tests Code == ERROR instead of Code != OK. *)
FacadeErrorOnly(r, c) ==
    LET g == getJSON(r) IN
    IF ~g.ok THEN g.out
    ELSE IF g.env.code = ERROR THEN Fail("envelope", g.env.msg)
    ELSE Convert(c, g.env.det)

(* The body every envelope façade shares: getJSON (or postJSON, whose     *)
(* request body, a map of strings or a slice of keys, always marshals),   *)
(* then "API error: Message" unless Code is OK, then the conversion.      *)
Facade(r, c) ==
    LET g == getJSON(r) IN
    IF ~g.ok THEN g.out
    ELSE IF g.env.code # OK THEN Fail("envelope", g.env.msg)
    ELSE Convert(c, g.env.det)

(* getPlainText: the body as a string, after the status check. *)
getPlainText(r) ==
    IF r.net # "ok" THEN Fail("transport", "none")
    ELSE IF r.status >= 400 THEN Fail("http", r.status)
    ELSE Ok("decoded")

(* getRawBytes: the body is never read; json.Marshal(resp.Body) encodes   *)
(* the reader object, whose fields are unexported, as "{}".  A failed    *)
(* body read therefore goes unnoticed.                                     *)
getRawBytes(r) ==
    IF r.net = "connErr" THEN Fail("transport", "none")
    ELSE IF r.status >= 400 THEN Fail("http", r.status)
    ELSE Ok("reader")

(* What a call of pattern c returns for response r. *)
Outcome(r, c) ==
    CASE c = "plainText" -> getPlainText(r)
      [] c = "rawBytes"  -> getRawBytes(r)
      [] OTHER           -> Facade(r, c)

(* client/instance.go: reading, discovering and forgetting instances       *)
(* (lines 11-159).                                                         *)
InstanceMethods ==
    [GetInstance |-> "instance", GetInstanceReplicas |-> "slice",
     DiscoverInstance |-> "record", AsyncDiscoverInstance |-> "record",
     RefreshInstance |-> "record", ForgetInstance |-> "record",
     ForgetCluster |-> "slice", GetAllInstances |-> "slice"]

(* client/instance.go: resolving, read-only flags, queries, search and     *)
(* problems (lines 162-316).                                               *)
InstanceStateMethods ==
    [ResolveInstance |-> "record", SetReadOnly |-> "record",
     SetWriteable |-> "record", KillQuery |-> "record",
     SearchInstances |-> "slice", SearchAllInstances |-> "slice",
     BulkInstances |-> "slice", GetProblems |-> "slice",
     GetClusterProblems |-> "slice"]

(* client/cluster.go (lines 11-137). *)
ClusterMethods ==
    [GetCluster |-> "slice", GetClusterByAlias |-> "slice",
     GetClusterByInstance |-> "slice", GetClusterInfo |-> "record",
     GetClusterInfoByAlias |-> "record", GetClusterOSCReplicas |-> "slice",
     SetClusterAlias |-> "exec", GetClusters |-> "slice",
     GetClustersInfo |-> "slice", GetClusterMaster |-> "record",
     GetAllMasters |-> "slice", ReloadClusterAlias |-> "exec"]

(* client/recovery.go: replication analysis and the recovery and takeover  *)
(* operations (lines 14-179).                                              *)
RecoveryMethods ==
    [GetReplicationAnalysis |-> "slice",
     GetClusterReplicationAnalysis |-> "slice",
     GetInstanceReplicationAnalysis |-> "record",
     GetReplicationAnalysisChangelog |-> "slice",
     RecoverInstance |-> "record", RecoverInstanceWithCandidate |-> "record",
     RecoverLite |-> "record", RecoverLiteWithCandidate |-> "record",
     GracefulMasterTakeoverInstance |-> "record",
     GracefulMasterTakeoverCluster |-> "record",
     GracefulMasterTakeoverInstanceWithDesignated |-> "record",
     GracefulMasterTakeoverClusterWithDesignated |-> "record",
     GracefulMasterTakeoverAutoInstance |-> "record",
     GracefulMasterTakeoverAutoCluster |-> "record",
     ForceMasterFailoverInstance |-> "record",
     ForceMasterFailoverCluster |-> "record",
     ForceMasterTakeoverCluster |-> "record",
     ForceMasterTakeoverInstance |-> "record"]

(* client/recovery.go: candidates, recovery filters and the audit (lines   *)
(* 184-338).                                                               *)
RecoveryAuditMethods ==
    [RegisterCandidate |-> "record", GetAutomatedRecoveryFilters |-> "slice",
     AuditFailureDetection |-> "slice",
     AuditFailureDetectionByID |-> "record",
     AuditFailureDetectionByAlias |-> "slice", AuditRecovery |-> "slice",
     AuditRecoveryByID |-> "record", AuditRecoveryByUID |-> "slice",
     AuditRecoveryByCluster |-> "slice", AuditRecoveryByAlias |-> "slice"]

(* client/recovery.go: recovery steps, active recoveries and               *)
(* acknowledgements (lines 341-450).                                       *)
ActiveRecoveryMethods ==
    [AuditRecoverySteps |-> "slice", GetActiveClusterRecovery |-> "record",
     GetRecentlyActiveClusterRecovery |-> "slice",
     GetRecentlyActiveInstanceRecovery |-> "slice",
     AcknowledgeClusterRecovery |-> "record",
     AcknowledgeClusterRecoveryByAlias |-> "record",
     AcknowledgeInstanceRecovery |-> "record",
     AcknowledgeRecoveryByID |-> "record",
     AcknowledgeRecoveryByUID |-> "record",
     AcknowledgeAllRecoveries |-> "slice"]

(* client/recovery.go: blocked recoveries and global recovery control      *)
(* (lines 455-581).                                                        *)
GlobalRecoveryMethods ==
    [GetBlockedRecoveries |-> "rawSlice",
     GetBlockedRecoveriesByCluster |-> "rawSlice",
     DisableGlobalRecoveries |-> "exec", EnableGlobalRecoveries |-> "exec",
     CheckGlobalRecoveries |-> "bool"]

(* client/agent.go (lines 11-192). *)
AgentMethods ==
    [GetAgents |-> "slice", GetAgent |-> "record", AgentUnmount |-> "exec",
     AgentMount |-> "exec", AgentCreateSnapshot |-> "exec",
     AgentRemoveLV |-> "exec", AgentMySQLStop |-> "exec",
     AgentMySQLStart |-> "exec", AgentSeed |-> "record",
     GetAgentActiveSeeds |-> "slice", GetAgentRecentSeeds |-> "slice",
     GetAgentSeedDetails |-> "record", GetAgentSeedStates |-> "slice",
     AbortAgentSeed |-> "exec", AgentCustomCommand |-> "exec",
     GetAllSeeds |-> "slice"]

(* client/monitoring.go: discovery and discovery-queue metrics (lines      *)
(* 14-163).                                                                *)
DiscoveryMetricsMethods ==
    [GetDiscoveryMetricsRaw |-> "rawSlice",
     GetDiscoveryMetricsAggregated |-> "rawSlice",
     GetDiscoveryQueueMetricsRaw |-> "rawSlice",
     GetDiscoveryQueueMetricsAggregated |-> "rawSlice",
     GetDiscoveryQueueMetricsRawByQueue |-> "rawSlice",
     GetDiscoveryQueueMetricsAggregatedByQueue |-> "rawSlice"]

(* client/monitoring.go: backend-query and write-buffer metrics (lines     *)
(* 168-267).                                                               *)
BackendMetricsMethods ==
    [GetBackendQueryMetricsRaw |-> "rawSlice",
     GetBackendQueryMetricsAggregated |-> "rawSlice",
     GetWriteBufferMetricsRaw |-> "rawSlice",
     GetWriteBufferMetricsAggregated |-> "rawSlice"]

(* client/tagging.go (lines 12-152). *)
TaggingMethods ==
    [GetTaggedInstances |-> "slice", GetInstanceTags |-> "rawSlice",
     GetInstanceTagValue |-> "rawMap",
     GetInstanceSpecificTagValue |-> "tagValue",
     GetInstanceTag |-> "rawSlice", TagInstance |-> "record",
     UntagInstance |-> "record", UntagInstanceSpecific |-> "record",
     UntagAll |-> "slice", UntagAllSpecific |-> "slice"]

(* unnamed/part_000: GTID operations (lines 11-43). *)
GtidMethods ==
    [EnableGTID |-> "record", DisableGTID |-> "record",
     LocateErrantGTID |-> "record", GTIDErrantResetMaster |-> "record",
     GTIDErrantInjectEmpty |-> "record"]

(* unnamed/part_001: pools and pool lag (lines 267-422). *)
PoolMethods ==
    [SubmitPoolInstances |-> "exec", GetClusterPoolInstances |-> "poolMap",
     GetClusterPoolInstancesForPool |-> "slice",
     GetHeuristicClusterPoolInstances |-> "poolMap",
     GetHeuristicClusterPoolInstancesForPool |-> "slice",
     GetHeuristicClusterPoolLag |-> "rawMap",
     GetHeuristicClusterPoolLagForPool |-> "lagValue"]

(* unnamed/part_001: KV stores, audit, headers and health checks (lines    *)
(* 427-589).                                                               *)
KVAuditMethods ==
    [SubmitMastersToKVStores |-> "exec",
     SubmitClusterMasterToKVStores |-> "exec", GetAudit |-> "slice",
     GetAuditForInstance |-> "slice", GetHeaders |-> "rawMap",
     Health |-> "exec", LBCheck |-> "exec", Ping |-> "exec",
     LeaderCheck |-> "exec", LeaderCheckWithErrorCode |-> "exec"]

(* unnamed/part_001: status, configuration, hostname cache and promotion   *)
(* rules (lines 592-732).                                                  *)
StatusMethods ==
    [Status |-> "rawIfaceMap", ReloadConfiguration |-> "exec",
     GetHostnameResolveCache |-> "rawSlice",
     ResetHostnameResolveCache |-> "exec",
     DeregisterHostnameUnresolve |-> "exec",
     RegisterHostnameUnresolve |-> "exec", BulkPromotionRules |-> "rawMap"]

(* unnamed/part_002: raft elections, peers, state and leader (lines        *)
(* 469-604).                                                               *)
RaftMethods ==
    [GrabElection |-> "exec", AddRaftPeer |-> "exec",
     RemoveRaftPeer |-> "exec", YieldRaft |-> "exec",
     YieldRaftHint |-> "exec", GetRaftPeers |-> "slice",
     GetRaftState |-> "rawStruct", GetRaftLeader |-> "tagValue"]

(* unnamed/part_002: raft health, status and snapshot (lines 607-715). *)
RaftHealthMethods ==
    [GetRaftHealth |-> "rawStruct", GetRaftStatus |-> "raftStatus",
     GetRaftSnapshot |-> "rawBytes",
     SubmitRaftFollowerHealthReport |-> "exec", Reelect |-> "exec"]

(* go/client/recovery.go: relocation, move and GTID operations (lines      *)
(* 933-1070).                                                              *)
RelocationMethods ==
    [Relocate |-> "record", RelocateBelow |-> "record",
     RelocateReplicas |-> "slice", RegroupReplicas |-> "slice",
     MoveUp |-> "record", MoveUpReplicas |-> "slice", MoveBelow |-> "record",
     MoveEquivalent |-> "record", Repoint |-> "record",
     RepointReplicas |-> "slice", MakeCoMaster |-> "record",
     TakeSiblings |-> "record", TakeMaster |-> "record",
     MasterEquivalent |-> "record", RegroupReplicasBinlogServers |-> "slice",
     MoveBelowGTID |-> "record", MoveReplicasGTID |-> "slice",
     RegroupReplicasGTID |-> "slice"]

(* go/client/recovery.go: pseudo-GTID matching, topology views and         *)
(* snapshots (lines 1075-1213).                                            *)
MatchMethods ==
    [Match |-> "record", MatchBelow |-> "record", MatchUp |-> "record",
     MatchReplicas |-> "slice", MatchUpReplicas |-> "slice",
     RegroupReplicasPseudoGTID |-> "slice", CanReplicateFrom |-> "record",
     CanReplicateFromGTID |-> "record", LastPseudoGTID |-> "record",
     GetTopologyASCII |-> "plainText",
     GetTopologyASCIIFromInstance |-> "plainText",
     GetTopologyTabulated |-> "plainText",
     GetTopologyTabulatedFromInstance |-> "plainText",
     GetTopologyTags |-> "slice", GetTopologyTagsFromInstance |-> "slice",
     SnapshotTopologies |-> "slice"]

(* go/client/recovery.go: replication control and semi-sync (lines         *)
(* 1218-1393).                                                             *)
ReplicationMethods ==
    [StartReplica |-> "record", RestartReplica |-> "record",
     StopReplica |-> "record", StopReplicaNice |-> "record",
     ResetReplica |-> "record", DetachReplica |-> "record",
     ReattachReplica |-> "record", DetachReplicaMasterHost |-> "record",
     ReattachReplicaMasterHost |-> "record", SkipQuery |-> "record",
     FlushBinaryLogs |-> "record", PurgeBinaryLogs |-> "record",
     RestartReplicaStatements |-> "slice", DelayReplication |-> "record",
     EnableSemiSyncMaster |-> "record", DisableSemiSyncMaster |-> "record",
     EnableSemiSyncReplica |-> "record", DisableSemiSyncReplica |-> "record"]

(* Every façade method of the client, with its call pattern. *)
Facades ==
    {InstanceMethods, InstanceStateMethods, ClusterMethods, RecoveryMethods,
     RecoveryAuditMethods, ActiveRecoveryMethods, GlobalRecoveryMethods,
     AgentMethods, DiscoveryMetricsMethods, BackendMetricsMethods,
     TaggingMethods, GtidMethods, PoolMethods, KVAuditMethods, StatusMethods,
     RaftMethods, RaftHealthMethods, RelocationMethods, MatchMethods,
     ReplicationMethods}

(* A call of a method of pattern c: the transport answers with any        *)
(* response r and the method returns Outcome(r, c).  Calls share no state *)
(* that the decoder reads, so the model makes them one at a time.         *)
Perform(c) ==
    /\ call = "none"
    /\ \E r \in Responses :
        /\ call' = c
        /\ resp' = r
        /\ outcome' = Outcome(r, c)

(* A caller calls façade method m of table t. *)
CallMethod(t, m) == Perform(t[m])

Next == \/ \E t \in Facades : \E m \in DOMAIN t : CallMethod(t, m)
        \/ Return

TypeOK == StateTypeOK(Patterns)

Spec == Init /\ [][Next]_vars

(****************************** Properties *********************************)

OkCode  == [k |-> "num", n |-> OK]
ErrCode == [k |-> "num", n |-> ERROR]

(* An envelope façade reports success only for a response with a         *)
(* non-error status whose body is an envelope with Code OK:               *)
(* parseResponse's status check, the façade's Code != OK test and the     *)
(* helpers together never turn a failed or foreign response into a value. *)
SuccessOnlyFromSuccessEnvelope ==
    call \in DOMAIN Target /\ outcome.cls = "ok"
        => EnvelopeWithCode(OkCode) /\ resp.status < 400

(* A status >= 400 whose body is not an envelope (an HTML page, a bare    *)
(* value, an object without Code) is reported as an HTTP error carrying   *)
(* that status, not as a parse error or an API error (spec 4.2, 7).       *)
HttpFailureReported ==
    Delivered /\ resp.status >= 400 /\ ~ParseableEnvelope
        => outcome = Fail("http", resp.status)

(* A success envelope whose Details does not fit the record or collection *)
(* the façade converts it into is a decode error, never a zero value      *)
(* (spec 4.2): the convertTo* helpers surface json.Unmarshal's error.     *)
DetailsMismatchIsDecodeError ==
    /\ Delivered /\ resp.status < 400 /\ EnvelopeWithCode(OkCode)
    /\ call \in DOMAIN Target /\ Target[call] \in {"struct", "slice", "map"}
    /\ ~IsNull(Body.det) /\ ~UnmarshalOK(Body.det, Target[call])
    => outcome.cls = "decode"

(* A success envelope with null or absent Details gives a slice- or       *)
(* map-shaped façade an empty collection, never nil (spec 4.2, 8).        *)
NullDetailsEmptyCollection ==
    /\ Delivered /\ resp.status < 400 /\ EnvelopeWithCode(OkCode)
    /\ IsNull(Body.det) /\ call \in DOMAIN Target
    /\ Target[call] \in {"slice", "map"}
    => outcome = Ok("empty")

(* An error envelope, served with status 500 as APIResponseCode.HttpStatus *)
(* pairs ERROR, reaches the caller as an API error carrying the server's  *)
(* Message (spec 7, 8).                                                    *)
EnvelopeErrorCarriesMessage ==
    /\ call \in DOMAIN Target
    /\ Delivered /\ resp.status = 500 /\ EnvelopeWithCode(ErrCode)
    => outcome = Fail("envelope", MessageOf(Body))

(* GetRaftSnapshot ("Helper function for getting raw bytes") returns the  *)
(* bytes of the response body when the request succeeds.                   *)
RawBytesReturnBody ==
    call = "rawBytes" /\ outcome.cls = "ok" => outcome.info = "decoded"
=============================================================================
