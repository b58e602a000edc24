---------------------------- MODULE MCEnvelopeB ----------------------------
(* TLC instance of EnvelopeB: statuses 200, 404 and 500 (success, a      *)
(* client error, and the status HttpStatus gives ERROR) and two Message  *)
(* texts, so that a reported message can be told from another one.       *)
EXTENDS EnvelopeB

MCStatuses == {200, 404, 500}
=============================================================================
