-------------------------- MODULE EnvelopeBProofs --------------------------
(***************************************************************************)
(* Proofs about the string-coded client's decoders (EnvelopeB), for every *)
(* set of statuses and messages.  Each call's outcome depends only on the *)
(* response of that call, so the property is inductive as it stands; the  *)
(* work is in showing that both decoding paths report the Message.        *)
(***************************************************************************)
EXTENDS EnvelopeB, GoJSONProofs, TLAPS

(* An ERROR envelope decodes into an APIResponse without error, with Code *)
(* "ERROR" and the envelope's Message.                                     *)
LEMMA ErrorEnvelopeDecodes ==
    ASSUME NEW b \in Bodies, b.k = "env", b.code = ErrCode
    PROVE  /\ ~APIResponse(b).err
           /\ APIResponse(b).code = "ERROR"
           /\ APIResponse(b).msg = MessageOf(b)
<1>1. b \in Envelopes
  BY DEF Bodies, Scalars, Compounds, NotJSON
<1>2. ~IsNull(b.code) /\ b.code.k = "str" /\ b.code.s = "ERROR"
  <2>1. ErrCode \in Scalars
    BY DEF ErrCode, Scalars, Strings
  <2>2. b.code # Absent
    BY <2>1, AbsentAssumption
  <2>. QED BY <2>2 DEF ErrCode, IsNull
<1>3. b # NotJSON
  BY DEF NotJSON
<1>. QED BY <1>1, <1>2, <1>3 DEF APIResponse, UnmarshalEnvelope, MessageOf

(* parseAPIResponse turns a delivered ERROR envelope into an API error    *)
(* with its Message, whatever the result type and the status.             *)
LEMMA ParseAPIResponseError ==
    ASSUME NEW r \in Responses, NEW t, r.net = "ok",
           r.body.k = "env", r.body.code = ErrCode
    PROVE  parseAPIResponse(r, t) = [ok |-> FALSE,
                                     out |-> Fail("envelope", MessageOf(r.body))]
<1>1. r.body \in Bodies
  BY DEF Responses, ConnError
<1>2. /\ ~APIResponse(r.body).err
      /\ APIResponse(r.body).code = "ERROR"
      /\ APIResponse(r.body).msg = MessageOf(r.body)
  BY <1>1, ErrorEnvelopeDecodes
<1>. QED BY <1>2 DEF parseAPIResponse

(* parseResponse turns an ERROR envelope with a status >= 400 into an API *)
(* error with its Message.                                                 *)
LEMMA ParseResponseError ==
    ASSUME NEW r \in Responses, NEW t, r.net = "ok", r.status >= 400,
           r.body.k = "env", r.body.code = ErrCode
    PROVE  parseResponse(r, t) = Fail("envelope", MessageOf(r.body))
<1>1. r.body \in Bodies
  BY DEF Responses, ConnError
<1>2. /\ ~APIResponse(r.body).err
      /\ APIResponse(r.body).msg = MessageOf(r.body)
  BY <1>1, ErrorEnvelopeDecodes
<1>. QED BY <1>2 DEF parseResponse

(* Every call pattern, on both decoding paths, reports an ERROR envelope  *)
(* served with status 500 as an API error with its Message.                *)
LEMMA OutcomeError ==
    ASSUME NEW r \in Responses, NEW c, r.net = "ok", r.status = 500,
           r.body.k = "env", r.body.code = ErrCode
    PROVE  Outcome(c, r) = Fail("envelope", MessageOf(r.body))
<1>1. Discover(r) = Fail("envelope", MessageOf(r.body))
  <2>1. parseAPIResponse(r, "struct")
          = [ok |-> FALSE, out |-> Fail("envelope", MessageOf(r.body))]
    BY ParseAPIResponseError
  <2>. QED BY <2>1 DEF Discover
<1>2. parseResponse(r, Target[c]) = Fail("envelope", MessageOf(r.body))
  BY ParseResponseError
<1>3. Typed(r, Target[c]) = Fail("envelope", MessageOf(r.body))
  <2>0. \A t : parseAPIResponse(r, t)
                 = [ok |-> FALSE, out |-> Fail("envelope", MessageOf(r.body))]
    BY ParseAPIResponseError
  <2>1. parseAPIResponse(r, Target[c])
          = [ok |-> FALSE, out |-> Fail("envelope", MessageOf(r.body))]
    BY <2>0
  <2>. QED BY <2>1 DEF Typed
<1>. QED BY <1>1, <1>2, <1>3 DEF Outcome

(* Every step is a call of some pattern, the return of a call, or a stutter. *)
LEMMA NextCases ==
    ASSUME [Next]_vars
    PROVE  \/ \E c \in DOMAIN Target : Perform(c)
           \/ Return
           \/ UNCHANGED vars
<1>1. DOMAIN Target = {"exec", "record", "slice", "ifaceSlice", "ifaceMap",
                       "string", "bool", "discover", "rawRecord", "rawSlice"}
  BY DEF Target
<1>. QED BY <1>1 DEF Next, Exec, Record, Slice, IfaceSlice, IfaceMap, String,
                     Bool, DiscoverCall, RawRecord, RawSlice

(* The string-coded client reports an error envelope served with status   *)
(* 500 as an API error carrying the server's Message, through             *)
(* parseAPIResponse's Code test and parseResponse's envelope reading.     *)
THEOREM ErrorMessageTheorem == Spec => []EnvelopeErrorCarriesMessage
<1>1. Init => EnvelopeErrorCarriesMessage
  BY DEF Init, EnvelopeErrorCarriesMessage, Delivered, NoResponse
<1>2. EnvelopeErrorCarriesMessage /\ [Next]_vars => EnvelopeErrorCarriesMessage'
  <2>. SUFFICES ASSUME EnvelopeErrorCarriesMessage, [Next]_vars
                PROVE  EnvelopeErrorCarriesMessage'
    OBVIOUS
  <2>1. CASE \E c \in DOMAIN Target : Perform(c)
    <3>1. PICK c \in DOMAIN Target : Perform(c) BY <2>1
    <3>2. PICK r \in Responses : resp' = r /\ outcome' = Outcome(c, r)
      BY <3>1 DEF Perform
    <3>3. r.net = "ok" /\ r.status = 500 /\ r.body.k = "env" /\ r.body.code = ErrCode
            => Outcome(c, r) = Fail("envelope", MessageOf(r.body))
      BY OutcomeError
    <3>. QED BY <3>2, <3>3
         DEF EnvelopeErrorCarriesMessage, EnvelopeWithCode, Delivered, Body
  <2>2. CASE Return
    BY <2>2 DEF Return, EnvelopeErrorCarriesMessage, Delivered, NoResponse
  <2>3. CASE UNCHANGED vars
    BY <2>3 DEF vars, EnvelopeErrorCarriesMessage, EnvelopeWithCode,
                Delivered, Body
  <2>. QED BY <2>1, <2>2, <2>3, NextCases
<1>. QED BY <1>1, <1>2, PTL DEF Spec

(* An envelope with Code "OK" decodes into an APIResponse without error,  *)
(* with Code "OK" and its Details member as an interface{} value.         *)
LEMMA OkEnvelopeDecodes ==
    ASSUME NEW b \in Bodies, b.k = "env", b.code = OkCode
    PROVE  /\ b \in Envelopes
           /\ ~APIResponse(b).err
           /\ APIResponse(b).code = "OK"
           /\ APIResponse(b).det = ToGo(b.det)
<1>1. b \in Envelopes
  BY DEF Bodies, Scalars, Compounds, NotJSON
<1>2. ~IsNull(b.code) /\ b.code.k = "str" /\ b.code.s = "OK"
  <2>1. OkCode \in Scalars
    BY DEF OkCode, Scalars, Strings
  <2>2. b.code # Absent
    BY <2>1, AbsentAssumption
  <2>. QED BY <2>2 DEF OkCode, IsNull
<1>3. b # NotJSON
  BY DEF NotJSON
<1>. QED BY <1>1, <1>2, <1>3 DEF APIResponse, UnmarshalEnvelope

(* parseAPIResponse fails with a decode error on an OK envelope whose     *)
(* Details are present but do not unmarshal into the result type t.       *)
LEMMA ParseAPIResponseMismatch ==
    ASSUME NEW r \in Responses, NEW t, t # "none", r.net = "ok",
           r.body.k = "env", r.body.code = OkCode,
           ~IsNull(r.body.det), ~UnmarshalOK(r.body.det, t)
    PROVE  parseAPIResponse(r, t) = [ok |-> FALSE, out |-> Fail("decode", "none")]
<1>1. r.body \in Bodies
  BY DEF Responses, ConnError
<1>2. /\ r.body \in Envelopes
      /\ ~APIResponse(r.body).err
      /\ APIResponse(r.body).code = "OK"
      /\ APIResponse(r.body).det = ToGo(r.body.det)
  BY <1>1, OkEnvelopeDecodes
<1>3. r.body.det \in MemberValues
  BY <1>2 DEF Envelopes, IsNull
<1>4. ToGo(r.body.det).g # "nil" /\ Marshal(ToGo(r.body.det)) = r.body.det
  BY <1>3, MarshalRoundTrip
<1>. QED BY <1>2, <1>4 DEF parseAPIResponse

(* Every envelope-decoding call pattern reports such a mismatch as a      *)
(* decode error.                                                           *)
LEMMA OutcomeMismatch ==
    ASSUME NEW r \in Responses, NEW c \in EnvelopeCalls,
           Target[c] \in {"struct", "slice", "ifaceSlice", "ifaceMap"},
           r.net = "ok", r.body.k = "env", r.body.code = OkCode,
           ~IsNull(r.body.det), ~UnmarshalOK(r.body.det, Target[c])
    PROVE  Outcome(c, r).cls = "decode"
<1>1. CASE c = "discover"
  <2>1. Target[c] = "struct" BY <1>1 DEF Target
  <2>2. parseAPIResponse(r, "struct")
          = [ok |-> FALSE, out |-> Fail("decode", "none")]
    BY <2>1, ParseAPIResponseMismatch
  <2>. QED BY <1>1, <2>2 DEF Outcome, Discover, Fail
<1>2. CASE c # "discover"
  <2>1. c \notin {"rawRecord", "rawSlice"}
    BY DEF EnvelopeCalls
  <2>2. parseAPIResponse(r, Target[c])
          = [ok |-> FALSE, out |-> Fail("decode", "none")]
    BY ParseAPIResponseMismatch
  <2>. QED BY <1>2, <2>1, <2>2 DEF Outcome, Typed, Fail
<1>. QED BY <1>1, <1>2

(* A success envelope whose Details does not fit the record or collection *)
(* the string-coded client decodes it into reaches the caller as a decode *)
(* error, never as a zero value: parseAPIResponse surfaces json.Unmarshal's *)
(* error.                                                                  *)
THEOREM DetailsMismatchTheorem == Spec => []DetailsMismatchIsDecodeError
<1>1. Init => DetailsMismatchIsDecodeError
  BY DEF Init, DetailsMismatchIsDecodeError, Delivered, NoResponse
<1>2. DetailsMismatchIsDecodeError /\ [Next]_vars
        => DetailsMismatchIsDecodeError'
  <2>. SUFFICES ASSUME DetailsMismatchIsDecodeError, [Next]_vars
                PROVE  DetailsMismatchIsDecodeError'
    OBVIOUS
  <2>1. CASE \E c \in DOMAIN Target : Perform(c)
    <3>1. PICK c \in DOMAIN Target : Perform(c) BY <2>1
    <3>2. PICK r \in Responses : call' = c /\ resp' = r /\ outcome' = Outcome(c, r)
      BY <3>1 DEF Perform
    <3>3. SUFFICES ASSUME r.net = "ok", r.body.k = "env", r.body.code = OkCode,
                          c \in EnvelopeCalls,
                          Target[c] \in {"struct", "slice", "ifaceSlice", "ifaceMap"},
                          ~IsNull(r.body.det), ~UnmarshalOK(r.body.det, Target[c])
                   PROVE  Outcome(c, r).cls = "decode"
      BY <3>2 DEF DetailsMismatchIsDecodeError, EnvelopeWithCode, Delivered,
                  Body
    <3>. QED BY <3>2, <3>3, OutcomeMismatch
  <2>2. CASE Return
    BY <2>2 DEF Return, DetailsMismatchIsDecodeError, Delivered, NoResponse
  <2>3. CASE UNCHANGED vars
    BY <2>3 DEF vars, DetailsMismatchIsDecodeError, EnvelopeWithCode,
                Delivered, Body
  <2>. QED BY <2>1, <2>2, <2>3, NextCases
<1>. QED BY <1>1, <1>2, PTL DEF Spec
=============================================================================
