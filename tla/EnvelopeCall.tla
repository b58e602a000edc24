---------------------------- MODULE EnvelopeCall ----------------------------
(***************************************************************************)
(* One API call seen from the decoder: the response the transport hands    *)
(* over and the outcome the caller receives.  Shared by the two clients'  *)
(* decoder modules, EnvelopeA (integer Code) and EnvelopeB (string Code).  *)
(*                                                                         *)
(* A call's outcome is a record [cls, info]:                               *)
(*   cls = "ok"        info is what the caller's value holds: "decoded"    *)
(*                     data, data "stringified" by fmt.Sprint, its "zero"  *)
(*                     value, an "empty" or a "nil"                        *)
(*                     collection, or "none" for an operation returning     *)
(*                     only an error, or the JSON of a "reader" object     *)
(*                     instead of the bytes it reads;                      *)
(*   cls = "transport" the request or the body read failed;               *)
(*   cls = "http"      info is the HTTP status the error reports;         *)
(*   cls = "envelope"  info is the server Message the error reports;      *)
(*   cls = "decode"    the body or its Details did not fit.                *)
(***************************************************************************)
EXTENDS Integers, GoJSON

CONSTANT Statuses   \* HTTP statuses a server may answer with

ASSUME StatusAssumption == Statuses \subseteq 100 .. 599

VARIABLES
    call,       \* the call pattern of the last call
    resp,       \* the response it received
    outcome     \* what the caller got back

vars == <<call, resp, outcome>>

(* The transport's answers: a failed request, a response whose body could *)
(* not be read, or a status and a body.                                    *)
ConnError == [net |-> "connErr"]
Responses ==
    {ConnError}
      \cup [net : {"readErr"}, status : Statuses]
      \cup [net : {"ok"}, status : Statuses, body : Bodies]

Ok(v)       == [cls |-> "ok", info |-> v]
Fail(c, i)  == [cls |-> c, info |-> i]
Values      == {"decoded", "stringified", "zero", "empty", "nil", "none", "reader"}
Outcomes    ==
    [cls : {"ok"}, info : Values]
      \cup [cls : {"transport", "decode"}, info : {"none"}]
      \cup [cls : {"http"}, info : Statuses]
      \cup [cls : {"envelope"}, info : Messages \cup {""}]

NoResponse == [net |-> "none"]
NoOutcome  == [cls |-> "none", info |-> "none"]

(* The type of the state, for a client whose call patterns are calls. *)
StateTypeOK(calls) ==
    /\ call \in calls \cup {"none"}
    /\ resp \in Responses \cup {NoResponse}
    /\ outcome \in Outcomes \cup {NoOutcome}

Init ==
    /\ call = "none"
    /\ resp = NoResponse
    /\ outcome = NoOutcome

(* The method returns its outcome to the caller, which may call again. *)
Return ==
    /\ call # "none"
    /\ call' = "none"
    /\ resp' = NoResponse
    /\ outcome' = NoOutcome

(*************************** Response predicates ***************************)

Delivered == resp.net = "ok"
Body      == resp.body

(* The body is an envelope whose Code member is the JSON value code. *)
EnvelopeWithCode(code) == Delivered /\ Body.k = "env" /\ Body.code = code

(* The body is an envelope object at all (any JSON object decodes into    *)
(* the APIResponse struct, but only one with a Code member says which     *)
(* outcome the server meant).                                              *)
ParseableEnvelope == Delivered /\ Body.k = "env" /\ Body.code # Absent

(* The Message member of an envelope body, "" when it is missing. *)
MessageOf(b) == IF b.msg = Absent THEN "" ELSE b.msg.s
=============================================================================
