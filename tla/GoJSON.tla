------------------------------- MODULE GoJSON -------------------------------
(***************************************************************************)
(* The part of Go's encoding/json that the two clients' decoders rely on,  *)
(* over JSON documents abstracted to their kind.                           *)
(*                                                                         *)
(* A JSON value is a record whose field k is its kind.  Strings carry     *)
(* their value (the envelope's Code and Message are compared and          *)
(* reported); numbers carry a small integer (an integer-coded Code); an    *)
(* object or array carries fit, whether every field or element has the    *)
(* JSON type the Go target declares for it.  An object with any of the     *)
(* keys Code, Message, Details is an "env" and carries those three members *)
(* (Absent when the key is missing).                                       *)
(*                                                                         *)
(* What json.Unmarshal does, as used here:                                 *)
(*   - null into any target: no error, the target is left untouched;     *)
(*   - into interface{}: any value, numbers become float64, objects        *)
(*     map[string]interface{}, arrays []interface{};                       *)
(*   - into a struct: an object, unknown keys ignored; a field whose JSON  *)
(*     type does not match is an UnmarshalTypeError;                       *)
(*   - into a slice or map: an array or object whose elements fit;         *)
(*     into []interface{} or map[string]interface{} any array or object;   *)
(*   - into a string, bool or number: a JSON value of that kind;           *)
(*   - anything else, or a body that is not JSON, is an error.             *)
(* json.Marshal of an interface{} value gives back the JSON of its kind.   *)
(***************************************************************************)

EXTENDS Naturals

CONSTANTS
    Messages,   \* server-supplied Message texts
    Absent      \* a key missing from a JSON object

Strings  == {"OK", "ERROR"} \cup Messages
Numbers  == 0 .. 2

Scalars ==
    {[k |-> "null"], [k |-> "bool"]}
      \cup [k : {"num"}, n : Numbers]
      \cup [k : {"str"}, s : Strings]

Compounds == [k : {"obj", "arr"}, fit : BOOLEAN]

(* A missing key is not itself a JSON value. *)
ASSUME AbsentAssumption == Absent \notin Scalars \cup Compounds

(* Values a member of an envelope can hold. *)
MemberValues == Scalars \cup Compounds

(* Envelope objects: every combination of Code, Message and Details       *)
(* members, each possibly missing.  Message is a string or missing.        *)
Envelopes ==
    [k : {"env"},
     code : {Absent, [k |-> "null"]}
              \cup [k : {"num"}, n : Numbers]
              \cup [k : {"str"}, s : {"OK", "ERROR"}],
     msg : {Absent} \cup [k : {"str"}, s : Messages],
     det : {Absent} \cup MemberValues]

(* A response body: JSON, or bytes that are not JSON (an HTML error page). *)
NotJSON == [k |-> "invalid"]
Bodies == Scalars \cup Compounds \cup Envelopes \cup {NotJSON}

IsNull(j) == j = Absent \/ j.k = "null"

(* Go target types a decoder unmarshals into. *)
Targets == {"iface", "struct", "slice", "ifaceSlice", "map", "ifaceMap",
            "string", "bool"}

(* json.Unmarshal(j, &t) succeeds.  An env is a JSON object whose keys  *)
(* are not fields of a domain struct, so it fits a struct and an          *)
(* interface map but not a typed map (its values are not of one type).   *)
UnmarshalOK(j, t) ==
    \/ j.k = "null"
    \/ t = "iface" /\ j # NotJSON
    \/ t = "struct" /\ (j.k = "env" \/ (j.k = "obj" /\ j.fit))
    \/ t = "ifaceMap" /\ j.k \in {"obj", "env"}
    \/ t = "map" /\ j.k = "obj" /\ j.fit
    \/ t = "slice" /\ j.k = "arr" /\ j.fit
    \/ t = "ifaceSlice" /\ j.k = "arr"
    \/ t = "string" /\ j.k = "str"
    \/ t = "bool" /\ j.k = "bool"

(* The Go value interface{} holds after json.Unmarshal, by kind.          *)
GoKind(j) ==
    CASE j.k = "null" -> "nil"
      [] j.k = "bool" -> "bool"
      [] j.k = "num"  -> "float64"
      [] j.k = "str"  -> "string"
      [] j.k \in {"obj", "env"} -> "map"
      [] j.k = "arr"  -> "slice"

(* The Go value stored in an interface{} field: kind plus what json.Marshal *)
(* needs to reproduce the document.                                        *)
ToGo(j) == IF IsNull(j) THEN [g |-> "nil"] ELSE [g |-> GoKind(j), json |-> j]

(* json.Marshal of such a value. *)
Marshal(v) == IF v.g = "nil" THEN [k |-> "null"] ELSE v.json

(* The result of unmarshalling into a typed target: untouched (its zero   *)
(* value, or nil for a slice or map) after null, decoded otherwise.        *)
Decoded(j) == IF j.k = "null" THEN "untouched" ELSE "decoded"

(* json.Unmarshal of a body into an APIResponse struct whose Code field   *)
(* has JSON kind codeKind and zero value zeroCode.  Null and an object     *)
(* without envelope keys leave every field at its zero value; a Code of   *)
(* the other kind is an UnmarshalTypeError; any other body is an error.   *)
UnmarshalEnvelope(j, codeKind, zeroCode) ==
    IF j = NotJSON \/ j.k \in {"bool", "num", "str", "arr"} THEN [err |-> TRUE]
    ELSE IF j.k \in {"null", "obj"}
    THEN [err |-> FALSE, code |-> zeroCode, msg |-> "", det |-> [g |-> "nil"]]
    ELSE IF ~IsNull(j.code) /\ j.code.k # codeKind THEN [err |-> TRUE]
    ELSE [err  |-> FALSE,
          code |-> IF IsNull(j.code) THEN zeroCode
                   ELSE IF codeKind = "num" THEN j.code.n ELSE j.code.s,
          msg  |-> IF j.msg = Absent THEN "" ELSE j.msg.s,
          det  |-> ToGo(j.det)]
=============================================================================
