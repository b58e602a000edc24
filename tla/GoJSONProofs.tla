---------------------------- MODULE GoJSONProofs ----------------------------
(***************************************************************************)
(* Facts about the encoding/json model (GoJSON) that both clients'        *)
(* decoder proofs use.                                                     *)
(***************************************************************************)
EXTENDS GoJSON, TLAPS

(* A Details member that is present and not null survives the round trip *)
(* through interface{} (ToGo) and json.Marshal unchanged: re-marshalling   *)
(* Details hands the helper the document the server sent.                  *)
LEMMA MarshalRoundTrip ==
    ASSUME NEW j \in MemberValues, ~IsNull(j)
    PROVE  ToGo(j).g # "nil" /\ Marshal(ToGo(j)) = j
<1>1. j.k # "null" /\ j # Absent
  BY DEF IsNull
<1>2. GoKind(j) # "nil"
  BY <1>1 DEF GoKind, MemberValues, Scalars, Compounds
<1>. QED BY <1>1, <1>2 DEF ToGo, Marshal, IsNull
=============================================================================
