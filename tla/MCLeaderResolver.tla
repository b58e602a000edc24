-------------------------- MODULE MCLeaderResolver --------------------------
(* Model-checking instance of LeaderResolver: two orchestrator nodes, two *)
(* goroutines sharing the client, endpoint lists of up to two entries, the *)
(* code's 5-unit deadline, and probes that either answer at once or hang  *)
(* for the whole budget (a node that accepts the connection and stalls).   *)
EXTENDS LeaderResolver, SequencesExt, TLC

MCEndpointLists == SeqOf(Nodes, MaxEndpoints)

MCDeadline == 5
MCProbeLatencies == {0, 5}

(* Nodes and callers are interchangeable. *)
MCSymmetry == Permutations(Nodes) \cup Permutations(Callers)
=============================================================================
