---------------------------- MODULE MCEnvelopeA ----------------------------
(* TLC instance of EnvelopeA: statuses 200, 404 and 500 (success, a      *)
(* client error, and the status HttpStatus gives ERROR) and two Message  *)
(* texts, so that a reported message can be told from another one.       *)
EXTENDS EnvelopeA

MCStatuses == {200, 404, 500}
=============================================================================
