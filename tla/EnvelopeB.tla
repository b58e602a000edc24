----------------------------- MODULE EnvelopeB -----------------------------
(***************************************************************************)
(* The decoder of the string-coded client (package client in              *)
(* src/unnamed/part_003, part_004 and src/go/client): its APIResponse has  *)
(* a string Code.  Façades decode in one of two ways:                      *)
(*   - parseAPIResponse: the body is an envelope, an error only when Code  *)
(*     is "ERROR", Details re-marshalled into the caller's result;         *)
(*   - parseResponse: the body is the bare value; at status >= 400 it is  *)
(*     read as an envelope for the error text.                             *)
(* One action per call pattern; each is the whole method from doRequest   *)
(* to its return.                                                          *)
(***************************************************************************)
EXTENDS EnvelopeCall

(* json.Unmarshal of a body into APIResponse{Code string; ...}. *)
APIResponse(body) == UnmarshalEnvelope(body, "str", "")

(* What an untouched result variable holds, by its type. *)
Untouched(t) ==
    CASE t = "none" -> "none"
      [] t \in {"slice", "ifaceSlice", "map", "ifaceMap"} -> "nil"
      [] OTHER -> "zero"

(* Mutant: parseAPIResponse that ignores the error of unmarshalling Details. *)
parseAPIResponseIgnoreDetailsError(r, t) ==
    LET a == APIResponse(r.body) IN
    IF r.net # "ok" THEN [ok |-> FALSE, out |-> Fail("transport", "none")]
    ELSE IF a.err THEN [ok |-> FALSE, out |-> Fail("decode", "none")]
    ELSE IF a.code = "ERROR" THEN [ok |-> FALSE, out |-> Fail("envelope", a.msg)]
    ELSE IF t = "none" \/ a.det.g = "nil" THEN [ok |-> TRUE, env |-> a, val |-> Untouched(t)]
    ELSE [ok |-> TRUE, env |-> a, val |-> "decoded"]

(* parseAPIResponse(resp, result), after doRequest: a failed request or    *)
(* body read is a transport error, a body that is not an APIResponse a    *)
(* decode error, Code "ERROR" an API error with the Message; otherwise,    *)
(* when result and Details are non-nil, Details is re-marshalled into      *)
(* result.  The HTTP status is never looked at.                            *)
parseAPIResponse(r, t) ==
    LET a == APIResponse(r.body) IN
    IF r.net # "ok" THEN [ok |-> FALSE, out |-> Fail("transport", "none")]
    ELSE IF a.err THEN [ok |-> FALSE, out |-> Fail("decode", "none")]
    ELSE IF a.code = "ERROR" THEN [ok |-> FALSE, out |-> Fail("envelope", a.msg)]
    ELSE IF t = "none" \/ a.det.g = "nil" THEN [ok |-> TRUE, env |-> a, val |-> Untouched(t)]
    ELSE IF UnmarshalOK(Marshal(a.det), t) THEN [ok |-> TRUE, env |-> a, val |-> "decoded"]
    ELSE [ok |-> FALSE, out |-> Fail("decode", "none")]

(* A façade that returns what parseAPIResponse decoded into its result. *)
Typed(r, t) ==
    LET p == parseAPIResponse(r, t) IN IF p.ok THEN Ok(p.val) ELSE p.out

(* Discover: parseAPIResponse into an Instance, then "discover failed:     *)
(* Message" unless Code is "OK".                                           *)
Discover(r) ==
    LET p == parseAPIResponse(r, "struct") IN
    IF ~p.ok THEN p.out
    ELSE IF p.env.code # "OK" THEN Fail("envelope", p.env.msg)
    ELSE Ok(p.val)

(* Mutant: parseResponse that reports every status >= 400 as an HTTP error. *)
parseResponseNoEnvelope(r, t) ==
    IF r.net # "ok" THEN Fail("transport", "none")
    ELSE IF r.status >= 400 THEN Fail("http", r.status)
    ELSE IF UnmarshalOK(r.body, t) THEN Ok(IF r.body.k = "null" THEN Untouched(t) ELSE "decoded")
    ELSE Fail("decode", "none")

(* parseResponse(resp, result), after doRequest: at status >= 400 the body *)
(* is tried as an APIResponse, "API error: Code - Message" when it decodes *)
(* and "HTTP error status" when it does not; otherwise the body is         *)
(* unmarshalled into result.                                               *)
parseResponse(r, t) ==
    LET a == APIResponse(r.body) IN
    IF r.net # "ok" THEN Fail("transport", "none")
    ELSE IF r.status >= 400 THEN
        IF a.err THEN Fail("http", r.status) ELSE Fail("envelope", a.msg)
    ELSE IF UnmarshalOK(r.body, t) THEN Ok(IF r.body.k = "null" THEN Untouched(t) ELSE "decoded")
    ELSE Fail("decode", "none")

(* The call patterns: what each decodes, through which helper, into what. *)
Target == [exec |-> "none", record |-> "struct", slice |-> "slice",
           ifaceSlice |-> "ifaceSlice", ifaceMap |-> "ifaceMap",
           string |-> "string", bool |-> "bool", discover |-> "struct",
           rawRecord |-> "struct", rawSlice |-> "slice"]
EnvelopeCalls == DOMAIN Target \ {"rawRecord", "rawSlice"}

(* What a call of pattern c returns for the response r. *)
Outcome(c, r) ==
    CASE c = "discover"                  -> Discover(r)
      [] c \in {"rawRecord", "rawSlice"} -> parseResponse(r, Target[c])
      [] OTHER                           -> Typed(r, Target[c])

(* A call of pattern c: the transport answers with any response r.  Calls *)
(* share no state that the decoder reads, so the model makes them one at  *)
(* a time.                                                                 *)
Perform(c) ==
    /\ call = "none"
    /\ \E r \in Responses :
        /\ call' = c
        /\ resp' = r
        /\ outcome' = Outcome(c, r)

Exec       == Perform("exec")
Record     == Perform("record")
Slice      == Perform("slice")
IfaceSlice == Perform("ifaceSlice")
IfaceMap   == Perform("ifaceMap")
String     == Perform("string")
Bool       == Perform("bool")
DiscoverCall == Perform("discover")
RawRecord  == Perform("rawRecord")
RawSlice   == Perform("rawSlice")

Next ==
    \/ Exec \/ Record \/ Slice \/ IfaceSlice \/ IfaceMap \/ String \/ Bool
    \/ DiscoverCall \/ RawRecord \/ RawSlice
    \/ Return

Spec == Init /\ [][Next]_vars

TypeOK == StateTypeOK(DOMAIN Target)

(****************************** Properties *********************************)

OkCode  == [k |-> "str", s |-> "OK"]
ErrCode == [k |-> "str", s |-> "ERROR"]

(* An error envelope served with status 500 reaches the caller as an API  *)
(* error carrying the server's Message, through parseAPIResponse's Code    *)
(* test and through parseResponse's envelope reading at status >= 400     *)
(* alike (spec 7, 8).                                                      *)
EnvelopeErrorCarriesMessage ==
    Delivered /\ resp.status = 500 /\ EnvelopeWithCode(ErrCode)
        => outcome = Fail("envelope", MessageOf(Body))

(* A success envelope whose Details does not fit the record or collection *)
(* the façade decodes it into is a decode error, never a zero value       *)
(* (spec 4.2): parseAPIResponse surfaces json.Unmarshal's error.          *)
DetailsMismatchIsDecodeError ==
    /\ Delivered /\ resp.status < 400 /\ EnvelopeWithCode(OkCode)
    /\ call \in EnvelopeCalls
    /\ Target[call] \in {"struct", "slice", "ifaceSlice", "ifaceMap"}
    /\ ~IsNull(Body.det) /\ ~UnmarshalOK(Body.det, Target[call])
    => outcome.cls = "decode"

(* An envelope-decoding call reports success only for a response with a   *)
(* non-error status whose body is an envelope with Code "OK" (spec 7: a   *)
(* status >= 400 without a success envelope is an error).                  *)
SuccessOnlyFromSuccessEnvelope ==
    outcome.cls = "ok" /\ call \in EnvelopeCalls
        => EnvelopeWithCode(OkCode) /\ resp.status < 400

(* A status >= 400 whose body is not an envelope is reported as an HTTP   *)
(* error carrying that status (spec 4.2, 7).                               *)
HttpFailureReported ==
    Delivered /\ resp.status >= 400 /\ ~ParseableEnvelope
        => outcome = Fail("http", resp.status)

(* A success envelope with null or absent Details gives a slice- or       *)
(* map-shaped façade an empty collection, never nil (spec 4.2, 8).        *)
NullDetailsEmptyCollection ==
    /\ Delivered /\ resp.status < 400 /\ EnvelopeWithCode(OkCode)
    /\ call \in EnvelopeCalls /\ IsNull(Body.det)
    /\ Target[call] \in {"slice", "ifaceSlice", "ifaceMap"}
    => outcome = Ok("empty")
=============================================================================
