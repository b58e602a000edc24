-------------------------- MODULE EnvelopeAProofs --------------------------
(***************************************************************************)
(* Proofs about the integer-coded client's decoder (EnvelopeA), for every *)
(* set of statuses and messages.  Each call's outcome depends only on the *)
(* response of that call, so the properties are inductive as they stand: *)
(* the work is in lemmas about getJSON and the APIResponse decode.        *)
(***************************************************************************)
EXTENDS EnvelopeA, GoJSONProofs, TLAPS

(* getJSON lets a response through only when the request succeeded, the  *)
(* status is below 400 and the body decodes into an APIResponse.          *)
LEMMA GetJSONOk ==
    ASSUME NEW r \in Responses, getJSON(r).ok
    PROVE  /\ r.net = "ok" /\ r.status < 400 /\ r.body \in Bodies
           /\ getJSON(r).env = APIResponse(r.body)
           /\ ~APIResponse(r.body).err
<1>1. CASE r.net # "ok"
  <2>1. ~getJSON(r).ok BY <1>1 DEF getJSON
  <2>. QED BY <2>1
<1>2. CASE r.net = "ok" /\ r.status >= 400
  <2>1. ~getJSON(r).ok BY <1>2 DEF getJSON
  <2>. QED BY <2>1
<1>3. CASE r.net = "ok" /\ ~(r.status >= 400) /\ APIResponse(r.body).err
  <2>1. ~getJSON(r).ok BY <1>3 DEF getJSON
  <2>. QED BY <2>1
<1>4. CASE r.net = "ok" /\ ~(r.status >= 400) /\ ~APIResponse(r.body).err
  <2>1. r \in [net : {"ok"}, status : Statuses, body : Bodies]
    BY <1>4 DEF Responses, ConnError
  <2>2. r.status \in 100 .. 599
    <3>1. r.status \in Statuses BY <2>1
    <3>. QED BY <3>1, StatusAssumption
  <2>3. r.status \in Int BY <2>2
  <2>4. getJSON(r) = [ok |-> TRUE, env |-> APIResponse(r.body)]
    BY <1>4 DEF getJSON
  <2>. QED BY <1>4, <2>1, <2>3, <2>4
<1>. QED BY <1>1, <1>2, <1>3, <1>4

(* The decoded Code is OK only when the body is an envelope whose Code    *)
(* member is the number 1: a missing or null Code decodes to ERROR, and a *)
(* string Code does not decode at all.                                     *)
LEMMA OkCodeOnlyFromOkEnvelope ==
    ASSUME NEW b \in Bodies, ~APIResponse(b).err, APIResponse(b).code = OK
    PROVE  b.k = "env" /\ b.code = OkCode
BY DEF APIResponse, UnmarshalEnvelope, Bodies, Scalars, Compounds, Envelopes,
       NotJSON, IsNull, OK, ERROR, OkCode, Numbers, Strings

(* A façade returns success only when getJSON let the response through   *)
(* and its Code was OK.                                                    *)
LEMMA FacadeSuccess ==
    ASSUME NEW r \in Responses, NEW c, Facade(r, c).cls = "ok"
    PROVE  /\ r.net = "ok" /\ r.status < 400
           /\ r.body.k = "env" /\ r.body.code = OkCode
<1>1. getJSON(r).ok
  <2>1. ~getJSON(r).ok => getJSON(r).out.cls \in {"transport", "http", "decode"}
    BY DEF getJSON, Fail
  <2>. QED BY <2>1 DEF Facade
<1>2. getJSON(r).env.code = OK
  BY <1>1 DEF Facade, Fail
<1>3. /\ r.net = "ok" /\ r.status < 400 /\ r.body \in Bodies
      /\ getJSON(r).env = APIResponse(r.body)
      /\ ~APIResponse(r.body).err
  BY <1>1, GetJSONOk
<1>4. r.body.k = "env" /\ r.body.code = OkCode
  BY <1>2, <1>3, OkCodeOnlyFromOkEnvelope
<1>. QED BY <1>3, <1>4

(* Every status >= 400 that reaches a façade is an HTTP error with that  *)
(* status, before the body is looked at.                                   *)
LEMMA FacadeHttpError ==
    ASSUME NEW r \in Responses, NEW c, r.net = "ok", r.status >= 400
    PROVE  Facade(r, c) = Fail("http", r.status)
<1>1. getJSON(r) = [ok |-> FALSE, out |-> Fail("http", r.status)]
  BY DEF getJSON
<1>. QED BY <1>1 DEF Facade

(* Every façade method has one of the call patterns. *)
LEMMA FacadePatterns ==
    \A t \in Facades : \A m \in DOMAIN t : t[m] \in Patterns
<1>. DEFINE Typed(t) == \A m \in DOMAIN t : t[m] \in Patterns
<1>1. Typed(InstanceMethods) BY DEF InstanceMethods, Patterns, Target, TextCalls
<1>2. Typed(InstanceStateMethods) BY DEF InstanceStateMethods, Patterns, Target, TextCalls
<1>3. Typed(ClusterMethods) BY DEF ClusterMethods, Patterns, Target, TextCalls
<1>4. Typed(RecoveryMethods) BY DEF RecoveryMethods, Patterns, Target, TextCalls
<1>5. Typed(RecoveryAuditMethods) BY DEF RecoveryAuditMethods, Patterns, Target, TextCalls
<1>6. Typed(ActiveRecoveryMethods) BY DEF ActiveRecoveryMethods, Patterns, Target, TextCalls
<1>7. Typed(GlobalRecoveryMethods) BY DEF GlobalRecoveryMethods, Patterns, Target, TextCalls
<1>8. Typed(AgentMethods) BY DEF AgentMethods, Patterns, Target, TextCalls
<1>9. Typed(DiscoveryMetricsMethods) BY DEF DiscoveryMetricsMethods, Patterns, Target, TextCalls
<1>10. Typed(BackendMetricsMethods) BY DEF BackendMetricsMethods, Patterns, Target, TextCalls
<1>11. Typed(TaggingMethods) BY DEF TaggingMethods, Patterns, Target, TextCalls
<1>12. Typed(GtidMethods) BY DEF GtidMethods, Patterns, Target, TextCalls
<1>13. Typed(PoolMethods) BY DEF PoolMethods, Patterns, Target, TextCalls
<1>14. Typed(KVAuditMethods) BY DEF KVAuditMethods, Patterns, Target, TextCalls
<1>15. Typed(StatusMethods) BY DEF StatusMethods, Patterns, Target, TextCalls
<1>16. Typed(RaftMethods) BY DEF RaftMethods, Patterns, Target, TextCalls
<1>17. Typed(RaftHealthMethods) BY DEF RaftHealthMethods, Patterns, Target, TextCalls
<1>18. Typed(RelocationMethods) BY DEF RelocationMethods, Patterns, Target, TextCalls
<1>19. Typed(MatchMethods) BY DEF MatchMethods, Patterns, Target, TextCalls
<1>20. Typed(ReplicationMethods) BY DEF ReplicationMethods, Patterns, Target, TextCalls
<1>. QED BY <1>1, <1>2, <1>3, <1>4, <1>5, <1>6, <1>7, <1>8, <1>9, <1>10, <1>11, <1>12, <1>13, <1>14, <1>15, <1>16, <1>17, <1>18, <1>19, <1>20 DEF Facades

(* Every step is a call of some pattern, the return of a call, or a stutter. *)
LEMMA NextCases ==
    ASSUME [Next]_vars
    PROVE  \/ \E c \in Patterns : Perform(c)
           \/ Return
           \/ UNCHANGED vars
<1>1. CASE \E t \in Facades : \E m \in DOMAIN t : CallMethod(t, m)
  <2>1. PICK t \in Facades : \E m \in DOMAIN t : Perform(t[m])
    BY <1>1 DEF CallMethod
  <2>2. PICK m \in DOMAIN t : Perform(t[m]) BY <2>1
  <2>3. t[m] \in Patterns BY FacadePatterns
  <2>. QED BY <2>2, <2>3
<1>. QED BY <1>1 DEF Next

(* A call's outcome after a step that performs a call. *)
LEMMA PerformOutcome ==
    ASSUME NEW c, Perform(c)
    PROVE  /\ call' = c
           /\ \E r \in Responses : resp' = r /\ outcome' = Outcome(r, c)
BY DEF Perform

(* An envelope pattern's outcome is its façade's. *)
LEMMA OutcomeEnvelope ==
    ASSUME NEW r, NEW c \in DOMAIN Target
    PROVE  Outcome(r, c) = Facade(r, c)
<1>1. c # "plainText" /\ c # "rawBytes" BY DEF Target
<1>. QED BY <1>1 DEF Outcome

(* The two readers without an envelope report every status >= 400 of a   *)
(* delivered response as an HTTP error with that status.                  *)
LEMMA TextHttpError ==
    ASSUME NEW r, NEW c \in TextCalls, r.net = "ok", r.status >= 400
    PROVE  Outcome(r, c) = Fail("http", r.status)
<1>1. CASE c = "plainText"
  BY <1>1 DEF Outcome, getPlainText
<1>2. CASE c = "rawBytes"
  BY <1>2 DEF Outcome, getRawBytes
<1>. QED BY <1>1, <1>2 DEF TextCalls

(* The integer-coded client turns a response into a value only when its   *)
(* status is below 400 and its body is an envelope with Code OK           *)
(* (parseResponse's status check, the façades' Code != OK test).           *)
THEOREM SuccessOnlyTheorem == Spec => []SuccessOnlyFromSuccessEnvelope
<1>1. Init => SuccessOnlyFromSuccessEnvelope
  BY DEF Init, SuccessOnlyFromSuccessEnvelope, NoOutcome
<1>2. SuccessOnlyFromSuccessEnvelope /\ [Next]_vars => SuccessOnlyFromSuccessEnvelope'
  <2>. SUFFICES ASSUME SuccessOnlyFromSuccessEnvelope, [Next]_vars
                PROVE  SuccessOnlyFromSuccessEnvelope'
    OBVIOUS
  <2>1. CASE \E c \in Patterns : Perform(c)
    <3>1. PICK c \in Patterns : Perform(c) BY <2>1
    <3>2. PICK r \in Responses : call' = c /\ resp' = r /\ outcome' = Outcome(r, c)
      BY <3>1, PerformOutcome
    <3>3. CASE c \in DOMAIN Target
      <4>1. outcome' = Facade(r, c) BY <3>2, <3>3, OutcomeEnvelope
      <4>2. Facade(r, c).cls = "ok" =>
              /\ r.net = "ok" /\ r.status < 400
              /\ r.body.k = "env" /\ r.body.code = OkCode
        BY FacadeSuccess
      <4>. QED BY <3>2, <4>1, <4>2
           DEF SuccessOnlyFromSuccessEnvelope, EnvelopeWithCode, Delivered, Body
    <3>4. CASE c \notin DOMAIN Target
      BY <3>2, <3>4 DEF SuccessOnlyFromSuccessEnvelope
    <3>. QED BY <3>3, <3>4
  <2>2. CASE Return
    BY <2>2 DEF Return, SuccessOnlyFromSuccessEnvelope, NoOutcome
  <2>3. CASE UNCHANGED vars
    BY <2>3 DEF vars, SuccessOnlyFromSuccessEnvelope, EnvelopeWithCode,
                Delivered, Body
  <2>. QED BY <2>1, <2>2, <2>3, NextCases
<1>. QED BY <1>1, <1>2, PTL DEF Spec

(* A status >= 400 whose body is not an envelope reaches the caller of    *)
(* the integer-coded client as an HTTP error carrying that status.        *)
THEOREM HttpFailureTheorem == Spec => []HttpFailureReported
<1>1. Init => HttpFailureReported
  BY DEF Init, HttpFailureReported, Delivered, NoResponse
<1>2. HttpFailureReported /\ [Next]_vars => HttpFailureReported'
  <2>. SUFFICES ASSUME HttpFailureReported, [Next]_vars
                PROVE  HttpFailureReported'
    OBVIOUS
  <2>1. CASE \E c \in Patterns : Perform(c)
    <3>1. PICK c \in Patterns : Perform(c) BY <2>1
    <3>2. PICK r \in Responses : resp' = r /\ outcome' = Outcome(r, c)
      BY <3>1, PerformOutcome
    <3>3. r.net = "ok" /\ r.status >= 400 => Outcome(r, c) = Fail("http", r.status)
      <4>1. CASE c \in DOMAIN Target
        <5>1. Outcome(r, c) = Facade(r, c) BY <4>1, OutcomeEnvelope
        <5>. QED BY <4>1, <5>1, FacadeHttpError
      <4>2. CASE c \in TextCalls
        BY <4>2, TextHttpError
      <4>. QED BY <4>1, <4>2 DEF Patterns
    <3>. QED BY <3>2, <3>3 DEF HttpFailureReported, Delivered
  <2>2. CASE Return
    BY <2>2 DEF Return, HttpFailureReported, Delivered, NoResponse
  <2>3. CASE UNCHANGED vars
    BY <2>3 DEF vars, HttpFailureReported, Delivered, ParseableEnvelope, Body
  <2>. QED BY <2>1, <2>2, <2>3, NextCases
<1>. QED BY <1>1, <1>2, PTL DEF Spec

(* The status of a delivered response is an integer. *)
LEMMA StatusInt ==
    ASSUME NEW r \in Responses, r.net = "ok"
    PROVE  r.status \in Int
<1>1. r \in [net : {"ok"}, status : Statuses, body : Bodies]
  BY DEF Responses, ConnError
<1>2. r.status \in 100 .. 599
  <2>1. r.status \in Statuses BY <1>1
  <2>. QED BY <2>1, StatusAssumption
<1>. QED BY <1>2

(* A delivered response below 400 whose body is an envelope with Code OK *)
(* passes getJSON, and its Details reach the façade as ToGo of the        *)
(* Details member.                                                         *)
LEMMA OkEnvelopePasses ==
    ASSUME NEW r \in Responses, r.net = "ok", r.status < 400,
           r.body.k = "env", r.body.code = OkCode
    PROVE  /\ r.body \in Envelopes
           /\ getJSON(r).ok
           /\ getJSON(r).env.code = OK
           /\ getJSON(r).env.det = ToGo(r.body.det)
<1>1. r \in [net : {"ok"}, status : Statuses, body : Bodies]
  BY DEF Responses, ConnError
<1>2. r.body \in Envelopes
  BY <1>1 DEF Bodies, Scalars, Compounds, NotJSON
<1>3. r.status \in Int
  BY StatusInt
<1>4. /\ r.body # NotJSON
      /\ r.body.k \notin {"bool", "num", "str", "arr", "null", "obj"}
      /\ ~IsNull(r.body.code) /\ r.body.code.k = "num" /\ r.body.code.n = OK
  <2>1. OkCode \in Scalars BY DEF OkCode, OK, Scalars, Numbers
  <2>2. OkCode # Absent BY <2>1, AbsentAssumption
  <2>. QED BY <2>2 DEF NotJSON, IsNull, OkCode, OK
<1>5. ~APIResponse(r.body).err /\ APIResponse(r.body).code = OK
      /\ APIResponse(r.body).det = ToGo(r.body.det)
  BY <1>4, Zenon DEF APIResponse, UnmarshalEnvelope
<1>6. getJSON(r) = [ok |-> TRUE, env |-> APIResponse(r.body)]
  BY <1>3, <1>5 DEF getJSON
<1>. QED BY <1>2, <1>5, <1>6

(* Every helper that decodes Details into a struct, slice or map fails   *)
(* with a decode error on a non-nil value that does not unmarshal there. *)
LEMMA ConvertMismatch ==
    ASSUME NEW c \in DOMAIN Target, Target[c] \in {"struct", "slice", "map"},
           NEW d, d.g # "nil", ~UnmarshalOK(Marshal(d), Target[c])
    PROVE  Convert(c, d) = Fail("decode", "none")
<1>1. c \in {"record", "instance", "rawStruct", "slice", "rawSlice",
             "poolMap", "rawMap"}
  BY DEF Target
<1>2. CASE c = "record"
  BY <1>2 DEF Convert, Target, convertToInstance
<1>3. CASE c = "instance"
  BY <1>3 DEF Convert, Target, InstanceDetails, convertToInstance
<1>4. CASE c = "slice"
  BY <1>4 DEF Convert, Target, convertToInstanceSlice
<1>5. CASE c = "poolMap"
  BY <1>5 DEF Convert, Target, convertToPoolInstancesMap
<1>6. CASE c \in {"rawStruct", "rawSlice", "rawMap"}
  BY <1>6 DEF Convert, Target, Unmarshalled
<1>. QED BY <1>1, <1>2, <1>3, <1>4, <1>5, <1>6

(* A success envelope whose Details does not fit the struct, slice or map *)
(* the façade converts it into reaches the caller of the integer-coded    *)
(* client as a decode error, never as a zero value (the convertTo*        *)
(* helpers and the inline decodes surface json.Unmarshal's error).        *)
THEOREM DetailsMismatchTheorem == Spec => []DetailsMismatchIsDecodeError
<1>1. Init => DetailsMismatchIsDecodeError
  BY DEF Init, DetailsMismatchIsDecodeError, Delivered, NoResponse
<1>2. DetailsMismatchIsDecodeError /\ [Next]_vars
        => DetailsMismatchIsDecodeError'
  <2>. SUFFICES ASSUME DetailsMismatchIsDecodeError, [Next]_vars
                PROVE  DetailsMismatchIsDecodeError'
    OBVIOUS
  <2>1. CASE \E c \in Patterns : Perform(c)
    <3>1. PICK c \in Patterns : Perform(c) BY <2>1
    <3>2. PICK r \in Responses : call' = c /\ resp' = r /\ outcome' = Outcome(r, c)
      BY <3>1, PerformOutcome
    <3>3. SUFFICES ASSUME r.net = "ok", r.status < 400,
                          r.body.k = "env", r.body.code = OkCode,
                          c \in DOMAIN Target,
                          Target[c] \in {"struct", "slice", "map"},
                          ~IsNull(r.body.det),
                          ~UnmarshalOK(r.body.det, Target[c])
                   PROVE  Outcome(r, c).cls = "decode"
      BY <3>2 DEF DetailsMismatchIsDecodeError, Delivered, EnvelopeWithCode,
                  Body
    <3>4. /\ r.body \in Envelopes
          /\ getJSON(r).ok
          /\ getJSON(r).env.code = OK
          /\ getJSON(r).env.det = ToGo(r.body.det)
      BY <3>3, OkEnvelopePasses
    <3>5. r.body.det \in MemberValues
      BY <3>3, <3>4 DEF Envelopes, IsNull
    <3>6. ToGo(r.body.det).g # "nil" /\ Marshal(ToGo(r.body.det)) = r.body.det
      BY <3>3, <3>5, MarshalRoundTrip
    <3>7. Facade(r, c) = Convert(c, ToGo(r.body.det))
      BY <3>4 DEF Facade
    <3>8. Convert(c, ToGo(r.body.det)) = Fail("decode", "none")
      BY <3>3, <3>6, ConvertMismatch
    <3>. QED BY <3>3, <3>7, <3>8, OutcomeEnvelope DEF Fail
  <2>2. CASE Return
    BY <2>2 DEF Return, DetailsMismatchIsDecodeError, Delivered, NoResponse
  <2>3. CASE UNCHANGED vars
    BY <2>3 DEF vars, DetailsMismatchIsDecodeError, Delivered,
                EnvelopeWithCode, Body
  <2>. QED BY <2>1, <2>2, <2>3, NextCases
<1>. QED BY <1>1, <1>2, PTL DEF Spec
=============================================================================
